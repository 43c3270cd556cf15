---------------------------- MODULE MCReconciler ----------------------------
(***************************************************************************)
(* Instances of Reconciler for TLC.  Ranks below stand for the string      *)
(* order of the few keys and names that occur.                             *)
(***************************************************************************)
EXTENDS Reconciler, TLC

C(id, valid, project, instance, endpoint, port, bind) ==
  [id |-> id, valid |-> valid, project |-> project, instance |-> instance,
   endpoint |-> endpoint, port |-> port, bind |-> bind]

\* "a" < "b" < "b/x": three stacks.  Container 1 comes back without a loopback
\* binding and container 2 with another host port, container 3 claims the
\* endpoint of container 2, and container 5 has the name of stack "b/x" and the
\* port of container 2.
A1 == C(1, TRUE, "a", "", "db", 1, 11)
A1unbound == C(1, FALSE, "a", "", "db", 1, 0)
B2 == C(2, TRUE, "b", "", "db", 1, 12)
B2moved == C(2, TRUE, "b", "", "db", 1, 22)
B3 == C(3, TRUE, "b", "", "db", 1, 13)
X4 == C(4, TRUE, "b", "x", "db", 1, 14)
B5 == C(5, TRUE, "b", "", "x", 1, 15)

KeyOrder == << <<"a">>, <<"b">>, <<"b", "x">> >>
NameOrder == << <<"db", "a">>, <<"db", "b">>, <<"db", "x", "b">>, <<"x", "b">> >>

Before(order, s, t) ==
  \E i, j \in DOMAIN order : i < j /\ order[i] = s /\ order[j] = t

MCKeyLess(s, t)  == Before(KeyOrder, s, t)
MCNameLess(s, t) == Before(NameOrder, s, t)

L(key, vip, created, active) ==
  [key |-> key, vip |-> vip, created |-> created, active |-> active]

MainContainers == {A1, A1unbound, B2, B2moved, B3, X4, B5}
TwoStacks == {A1, B2}

NoFile == {{}}
\* A file from an older pool; one with a lease that was never active and
\* another that was never stamped.
OldFiles == {{}, {L(<<"b">>, 9, 1, 0)},
             {L(<<"a">>, 2, 1, 0), L(<<"b">>, 1, 0, 0)}}

OnePool == {{1, 2}}
TwoPools == {{1, 2}, {2, 3}}
=============================================================================
