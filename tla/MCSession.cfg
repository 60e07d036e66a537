SPECIFICATION SessionSpec
CONSTANTS
  c1 = c1
  c2 = c2
  h1 = h1
  h2 = h2
  Clients <- MCClients
  Handlers <- MCHandlers
  NoNonce = NoNonce
  MaxCounter = 5
SYMMETRY Symmetry
INVARIANTS
  InOrderOnce
  OneConversation
CHECK_DEADLOCK FALSE
