-------------------------- MODULE MCMediaTransfers --------------------------
(* Small instances of MediaTransfers: at most one caller of each kind, a model *)
(* value each.                                                                 *)
EXTENDS MediaTransfers

CONSTANTS m, r, w, h

Scene(callers, events, sizes) == [callers |-> callers, events |-> events, sizes |-> sizes]

\* Downloads that share a transfer, with a sent file; and Shutdown, or a client
\* handoff and a logout, under them.
Sharing == {Scene({m, r, w}, {}, {2, 3}), Scene({m, r, w}, {"send"}, {3}),
            Scene({m, r}, {"send"}, {2}), Scene({r, w}, {"send"}, {2}), Scene({m, w}, {"send"}, {2}),
            Scene({r, w, h}, {"shutdown"}, {2}), Scene({m, w, h}, {"handoff", "logout"}, {2})}
=============================================================================
