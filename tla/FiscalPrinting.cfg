SPECIFICATION FairSpec
CONSTANTS
  sale = sale
  refund = refund
  till = till
  office = office
  noone = noone
  Sales = {sale}
  Refunds = {refund}
  OriginalOf <- MCOriginalOf
  Threads = {till, office}
  NoOne = noone
  MaxAttempts = 3
  MaxLost = 1
INVARIANTS
  TypeOK
  NumbersUnique
  PrintedIsPrinted
  StornoFollowsOriginal
PROPERTY
  AttemptEnds
