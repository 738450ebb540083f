SPECIFICATION Spec
CONSTANTS
  sale = sale
  refund = refund
  till = till
  office = office
  noone = noone
  Sales = {sale}
  Refunds = {refund}
  OriginalOf <- MCOriginalOf
  Threads = {till, office}
  NoOne = noone
  MaxAttempts = 3
  MaxLost = 0
INVARIANT
  OneReceiptPerStorno
