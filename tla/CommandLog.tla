------------------------------ MODULE CommandLog ------------------------------
(***************************************************************************)
(* What the coordinator promises whoever sends a command: it takes effect  *)
(* at most once, whatever is sent twice; accepted means it has taken       *)
(* effect, rejected means it has not and will not.                         *)
(***************************************************************************)
EXTENDS Sequences

CONSTANTS Commands, Others  \* command ids, and who else writes
VARIABLES applied,   \* who changed the event, in the order of the changes
          answer     \* what the sender was told
vars == <<applied, answer>>

IsApplied(c) == \E i \in DOMAIN applied : applied[i] = c

Init == applied = <<>> /\ answer = [c \in Commands |-> "none"]

Apply(c) ==
  /\ ~IsApplied(c) /\ answer[c] = "none"
  /\ applied' = Append(applied, c)
  /\ UNCHANGED answer

Accept(c) ==
  /\ IsApplied(c) /\ answer[c] = "none"
  /\ answer' = [answer EXCEPT ![c] = "accepted"]
  /\ UNCHANGED applied

Reject(c) ==
  /\ ~IsApplied(c) /\ answer[c] = "none"
  /\ answer' = [answer EXCEPT ![c] = "rejected"]
  /\ UNCHANGED applied

\* The alarm and the logo upload change the event too, as often as they like.
ApplyOther(o) == applied' = Append(applied, o) /\ UNCHANGED answer

Next ==
  \/ \E c \in Commands : Apply(c) \/ Accept(c) \/ Reject(c)
  \/ \E o \in Others : ApplyOther(o)

Spec == Init /\ [][Next]_vars
===============================================================================
