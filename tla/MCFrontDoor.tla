----------------------------- MODULE MCFrontDoor -----------------------------
(* A small front door: one seeded order, numbers that run out after the    *)
(* third, and drafts of every kind the page and Orders tell apart.         *)
EXTENDS FrontDoor, TLC

CONSTANTS c1, c2, c3

MCCall == {c1, c2, c3}
Symmetric == Permutations(MCCall)

MCExponent == [EUR |-> 2, JPY |-> 0]

(* 5901234123457 is GS1's example; its last digit changed is no GLN.       *)
gln == <<5, 9, 0, 1, 2, 3, 4, 1, 2, 3, 4, 5, 7>>
MCRetailer == [RET |-> gln, TYPO |-> [gln EXCEPT ![13] = 6]]
MCCompany == [COM |-> gln]
MCProduct == [bolt |-> [amount |-> 250, currency |-> "EUR"],
              fan |-> [amount |-> 900, currency |-> "JPY"]]

line(product, quantity, unitPrice, lineDiscount) ==
  [product |-> product, quantity |-> quantity, unitPrice |-> unitPrice,
   lineDiscount |-> lineDiscount]
two == Typed(2, <<>>)

form(retailer, lines) ==
  [retailer |-> retailer, company |-> "COM", currency |-> "EUR", lines |-> lines]

MCDraft == {
  form("RET", <<line("bolt", two, Typed(2, <<4>>), Typed(1, <<>>)),
                line("bolt", two, Blank, Blank), line("", Garbled, Blank, Blank)>>),
  form("RET", <<line("bolt", two, Blank, Typed(99, <<>>))>>),
  form("RET", <<line("bolt", two, Typed(0, <<1, 2, 3>>), Blank)>>),
  form("RET", <<line("fan", two, Blank, Blank)>>),
  form("RET", <<line("bolt", two, Typed(900, <<>>), Blank)>>),
  form("TYPO", <<line("gone", two, Blank, Blank)>>)}

order(key, discount) ==
  [kind |-> "place", requestId |-> key, retailer |-> "RET", company |-> "COM",
   currency |-> "EUR", orderDiscount |-> discount,
   lines |-> <<[product |-> "bolt", quantity |-> 1, unitPrice |-> NotTyped,
                lineDiscount |-> NotTyped]>>]

MCApiKey == {"k1", NoRequestId}
MCApiCommand == [k \in MCApiKey |-> order(k, IF k = NoRequestId THEN 5 ELSE 0)]

MCMaxCalls == [placing |-> 3, paying |-> 2, replenishing |-> 3]

MCUnits == {two, Blank, Garbled, Typed(0, <<>>)}

=============================================================================
