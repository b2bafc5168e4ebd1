SPECIFICATION AttachmentsSpec
CONSTANTS
  Files = {1}
  Deleters = {1}
INVARIANT MessageUrlLeadsThere
CHECK_DEADLOCK FALSE
