--------------------------- MODULE MCPendingEdits ---------------------------
EXTENDS PendingEdits

Wire(chat, author)     == [chat |-> chat, author |-> author]
Edit(id, person, stamp) == [id |-> id, person |-> person, stamp |-> stamp]

\* A direct chat, where the peer's two addresses also name the chat.
Direct ==
  [wires |-> {Wire("pn", "pn"), Wire("lid", "lid")}, owner |-> <<"pn">>,
   edits |-> {Edit(1, "pn", 1), Edit(1, "pn", 2)},
   maxNow |-> 2, maxOriginal |-> 2, maxEdit |-> 3, maxRestart |-> 1, maxFault |-> 1]

\* A group, where a second member edits the ID of another's message.
Group ==
  [wires |-> {Wire("g", "pn"), Wire("g", "lid"), Wire("g", "other")}, owner |-> <<"pn", "other">>,
   edits |-> {Edit(1, "pn", 1), Edit(1, "other", 2), Edit(2, "other", 1)},
   maxNow |-> 1, maxOriginal |-> 2, maxEdit |-> 3, maxRestart |-> 0, maxFault |-> 0]

\* A group of two members, one of whom edits two unknown messages.
Flood ==
  [wires |-> {Wire("g", "pn"), Wire("g", "other")}, owner |-> <<"pn", "other">>,
   edits |-> {Edit(1, "pn", 1), Edit(1, "other", 2), Edit(2, "other", 1), Edit(2, "other", 2)},
   maxNow |-> 2, maxOriginal |-> 1, maxEdit |-> 4, maxRestart |-> 0, maxFault |-> 0]

Conversations == {Direct, Group, Flood}
=============================================================================
