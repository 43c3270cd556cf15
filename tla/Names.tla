------------------------------- MODULE Names --------------------------------
(***************************************************************************)
(* Stack keys and DNS names: internal/domain/names.go.                     *)
(*                                                                         *)
(* A container, as parseContainer sees it, is a record                     *)
(*   [id, valid, project, instance, endpoint, port, bind]                  *)
(* valid says that its labels parse and that its target port has a         *)
(* loopback binding; bind is that binding's host port.  Labels are         *)
(* strings; a name is the sequence of its labels under the base domain,    *)
(* and a stack key the sequence of its slugs.  Only TCP is supported, so   *)
(* the protocol is left out of the map key.                                *)
(***************************************************************************)
EXTENDS Integers, Sequences

CONSTANT NameLess(_, _)    \* string order of DNS names

NoInstance == ""

IsContainerSet(C) ==
  \A c \in C :
    /\ DOMAIN c = {"id", "valid", "project", "instance", "endpoint",
                   "port", "bind"}
    /\ c.id \in Nat
    /\ c.valid \in BOOLEAN
    /\ c.port \in Nat
    /\ c.bind \in Nat

MakeStackKey(project, instance) ==
  IF instance = NoInstance THEN <<project>> ELSE <<project, instance>>

KeyOf(c) == MakeStackKey(c.project, c.instance)

EndpointFQDN(c) ==
  IF c.instance = NoInstance THEN <<c.endpoint, c.project>>
  ELSE <<c.endpoint, c.instance, c.project>>

\* The stack's apex: its slugs, most specific first.
StackFQDN(k) == IF Len(k) = 1 THEN k ELSE <<k[2], k[1]>>

EndpointMapKey(c) == <<EndpointFQDN(c), c.port>>
=============================================================================
