SPECIFICATION Spec
CONSTANTS
  Scenes <- Conversations
  Originals = {o1}
  Editors = {v1}
  TTL = 2
  SenderCap = 1
  ChatCap = 2
  GlobalCap = 2
  MaxAttempts = 2
PROPERTIES TextTrue NoEditLost FloodIsolated
CHECK_DEADLOCK FALSE
