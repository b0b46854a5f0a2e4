---------------------------- MODULE MCSendLimits ----------------------------
EXTENDS SendLimits, TLC

\* One person with two addresses, and another one.
MCTwin(jid) == CASE jid = "pn" -> "lid" [] jid = "lid" -> "pn" [] OTHER -> jid

Send(jid)   == [targets |-> <<jid>>, receipt |-> TRUE]
MCOps       == {Send("pn"), Send("lid"), [targets |-> <<"pn", "other">>, receipt |-> FALSE]}
Symmetry    == Permutations(Requests)
Limits(d, f, m, i) == [day |-> d, fresh |-> f, minute |-> m, interval |-> i]
Budgets     == {Limits(2, 1, 0, 0), Limits(0, 0, 1, 0), Limits(0, 0, 0, 2)}
=============================================================================
