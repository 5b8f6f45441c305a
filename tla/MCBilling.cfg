SPECIFICATION FairSpec
CONSTANTS
  ann = ann
  bob = bob
  cai = cai
  dan = dan
  eve = eve
  zuora = zuora
  payg1 = payg1
  payg2 = payg2
  ratable = ratable
  none = none
  Callers = {ann, bob, cai, dan, eve}
  Invoices = {zuora}
  MaxCrashes = 1
  Obligations = {payg1, payg2}
  Others = {ratable}
  Asks <- MCAsks
  Invoice <- MCInvoice
  None = none
INVARIANTS
  TypeOK
  BilledOnceAlone
  AnswerIsOfTheBill
 
