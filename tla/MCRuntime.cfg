SPECIFICATION RuntimeSpec
CONSTANTS
  Clients = {c1, c2}
  Sigs = {s1, s2}
  Seeds = {u1, u2}
  Unbound = Unbound
  Free = Free
  Executions = {"x", "y"}
  RequestID <- MCRequestID
  HexStrings = {"ab", "AB", "cd", "zz"}
  Raw <- MCRaw
  NoHash = 0
  Empty = ""
  Arguments <- MCArguments
  MaxTrace = 2
  MaxReceipts = 2
INVARIANTS
  LockDiscipline
  Agreement
  ReceiptTypes
  ReceiptsOfOneHistory
  BindingIdentifiesTrace
  NoFailureAfterCommitment
PROPERTIES
  ImplementsWriteOnceMap
  WriteOnce
  CallsReturn
CHECK_DEADLOCK FALSE
