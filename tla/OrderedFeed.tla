---------------------------- MODULE OrderedFeed ----------------------------
(***************************************************************************)
(* What a receiver of connection transitions is promised: transitions are  *)
(* told in the order they happened, some are left out, and those that are  *)
(* posted are posted one after the other in that order.                    *)
(***************************************************************************)
EXTENDS Integers, Sequences

CONSTANT Transitions   \* their numbers, in the order they happen

VARIABLES told, sent, busy

vars == <<told, sent, busy>>

After(i, s) == \A k \in DOMAIN s : s[k] < i

Init == told = <<>> /\ sent = <<>> /\ busy = {}

Tell == /\ \E i \in Transitions : After(i, told) /\ told' = Append(told, i)
        /\ UNCHANGED <<sent, busy>>

Start == /\ busy = {}
         /\ \E k \in DOMAIN told :
              After(told[k], sent) /\ sent' = Append(sent, told[k]) /\ busy' = {told[k]}
         /\ UNCHANGED told

End == busy # {} /\ busy' = {} /\ UNCHANGED <<told, sent>>

Next == Tell \/ Start \/ End

Spec == Init /\ [][Next]_vars
=============================================================================
