SPECIFICATION Spec
CONSTANTS
  Requests <- MCForm
  IdOf <- MCFormId
  Offered <- MCFormOffered
  MaxStarts = 1
  MaxEpoch = 2
  None = None
PROPERTIES RejectedIsRejected
CHECK_DEADLOCK FALSE
