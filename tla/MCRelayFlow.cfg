SPECIFICATION FairSpec
CONSTANTS
  m1 = m1
  a1 = a1
  a2 = a2
  p1 = p1
  p2 = p2
  p3 = p3
  x1 = x1
  x2 = x2
  NoConn = NoConn
  Clients = {m1}
  AgentConns = {a1}
  AppConns = {p1}
  AppIDs = {x1}
  ClientOf <- OneMachine
  AppID <- Address
  MsgCap = 1
  Frames <- FlowFrames
  Kinds <- FlowKinds
  Faults <- FlowFaults
INVARIANTS TypeOK NoGap BroadcastNeverPanics
PROPERTIES FailedConnLeaves HandlersEnd
\* The connections of the instance are used up in the end.
CHECK_DEADLOCK FALSE
