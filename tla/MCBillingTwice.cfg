SPECIFICATION Spec
CONSTANTS
  ann = ann
  bob = bob
  cai = cai
  dan = dan
  eve = eve
  zuora = zuora
  payg1 = payg1
  payg2 = payg2
  ratable = ratable
  none = none
  Callers = {ann, bob}
  Invoices = {}
  MaxCrashes = 0
  Obligations = {payg1, payg2}
  Others = {ratable}
  Asks <- MCAsks
  Invoice <- MCInvoice
  None = none
INVARIANT BilledOnce
