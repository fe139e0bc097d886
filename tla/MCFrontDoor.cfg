SPECIFICATION Spec
CONSTANTS
  c1 = c1
  c2 = c2
  c3 = c3
  Call <- MCCall
  MaxFaults = 2
  MAX_SAFE_INTEGER = 100000
  MAX_SEQUENCE = 3
  Exponent <- MCExponent
  Retailer <- MCRetailer
  Company <- MCCompany
  Product <- MCProduct
  SeededOrders = 1
  MAX_ATTEMPTS = 2
  Reference = {"P1", "P2"}
  InvoiceTotal = 5
  Backlog = 1
  MaxIssued = 3
  INVOICE_SCAN_PAGE_SIZE = 1
  INVOICE_SCAN_MAX_PAGES = 2
  Draft <- MCDraft
  ApiKey <- MCApiKey
  ApiCommand <- MCApiCommand
  DefaultCurrency = "EUR"
  Catalogued = TRUE
  Units <- MCUnits
  Wanted = {1, 2}
  MaxDrafts = 1
  MaxCalls <- MCMaxCalls
SYMMETRY Symmetric
INVARIANTS
  PlacedOnce
  AnswersTrue
  ChargedAsShown
CHECK_DEADLOCK FALSE
