SPECIFICATION FairSpec
CONSTANTS
  Executions = {x1, x2}
  Capacity = 1
  MaxDepth = 1
  MaxInbox = 1
  Provider = "local"
  MaxFaults = 1
  Faults = {"dbError", "lostAck", "heartbeat", "crash", "exit"}
INVARIANTS AnswerRecorded SlotsExact AbortReaches
PROPERTIES SettlesOnce ImplementsExecutionLedger ExecutionsEnd
CHECK_DEADLOCK FALSE
