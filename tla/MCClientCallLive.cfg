SPECIFICATION Spec
CONSTANTS
  Thread = {t1, t2, t3}
  None = None
  Calls <- OneCall
  MightBlock = TRUE
  ArgKind <- ConstantString
PROPERTIES EveryThreadRuns AnswersAreTold
