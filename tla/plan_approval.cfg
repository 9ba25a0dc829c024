SPECIFICATION Spec
CONSTANTS
  Requests = {q1, q2}
  Reviewers = {v1, v2}
  Expirers = {e1}
  MaxFaults = 2
  NoRequest = NoRequest
INVARIANTS TypeOK NotesTellTheRow ApprovedByPerson
PROPERTIES OneDecision AskingEnds
CHECK_DEADLOCK FALSE
