----------------------------- MODULE StateFile -----------------------------
(***************************************************************************)
(* What internal/state promises of state.json: the file is always whole,   *)
(* a Save replaces it at one instant, a Save that fails leaves it alone,   *)
(* and a crash of the process never changes it.  A loss of power may bring *)
(* back an earlier file only if the directory was not synced since.        *)
(***************************************************************************)

CONSTANTS
  Contents,   \* what the file can hold
  Absent      \* no file at all, which is one of the contents

VARIABLES
  value,   \* the file as a reader sees it
  prior,   \* the earlier files that a loss of power may bring back
  op       \* the Save under way: [st, new]

vars == <<value, prior, op>>

\* No Save is under way; "new" is of no interest then.
Idle == op.st = "idle"

Init ==
  /\ value \in Contents /\ prior = {}
  /\ op \in [st : {"idle"}, new : Contents]

Begin(c) ==
  /\ Idle
  /\ op' = [st |-> "begun", new |-> c]
  /\ UNCHANGED <<value, prior>>

Install ==
  /\ op.st = "begun"
  /\ value' = op.new /\ prior' = prior \cup {value}
  /\ op' = [op EXCEPT !.st = "done"]

\* A Save fails only before it has replaced the file.
Fail ==
  /\ op.st = "begun"
  /\ op' = [op EXCEPT !.st = "idle"]
  /\ UNCHANGED <<value, prior>>

Return ==
  /\ op.st = "done"
  /\ op' = [op EXCEPT !.st = "idle"]
  /\ prior' \in {prior, {}}
  /\ UNCHANGED value

\* The operator has the daemon discard the file when it starts.
Reset ==
  /\ Idle
  /\ value' = Absent /\ prior' = prior \cup {value}
  /\ UNCHANGED op

Kill ==
  /\ ~Idle
  /\ op' = [op EXCEPT !.st = "idle"]
  /\ UNCHANGED <<value, prior>>

PowerLoss ==
  /\ value' \in {value} \cup prior
  /\ prior' = {}
  /\ op' = [op EXCEPT !.st = "idle"]

Next ==
  \/ \E c \in Contents : Begin(c)
  \/ Install \/ Fail \/ Return \/ Reset \/ Kill \/ PowerLoss

Spec == Init /\ [][Next]_vars
=============================================================================
