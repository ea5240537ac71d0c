CONSTANTS
  c1 = c1
  c2 = c2
  Clients = {c1, c2}
  Listen = Listen
  MaxScript = 2
  HeadLen = 2
  MaxMsg = 2
  Descriptors = {1, 2}
  Scripts <- SomeScripts
SPECIFICATION Spec
INVARIANTS TypeOK HandledWhole ContextsLive
PROPERTIES WholeMessagesKept ImplementsRequests Served
CHECK_DEADLOCK FALSE
