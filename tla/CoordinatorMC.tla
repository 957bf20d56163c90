---------------------------- MODULE CoordinatorMC ----------------------------
(***************************************************************************)
(* Small instances of Coordinator for TLC.                                 *)
(***************************************************************************)
EXTENDS Coordinator, TLC

CONSTANTS c1, c2, g1, k1

\* Enough to tell the version of the event from the version of a rotation.
LogTypes == {"SET_OPERATIONAL_NOTE", "MARK_OFF_BLOCK"}

\* Everything that needs the alarm or ends a recall.
AlarmTypes == {"SET_EVENT_LIFECYCLE", "CALL_NEXT",
               "START_TICKET_GROUP_RECALL", "CLEAR_TICKET_GROUP_RECALL"}

PlanTypes == {"SET_EVENT_LIFECYCLE", "SET_OPERATIONAL_NOTE"}
NoteTypes == {"SET_OPERATIONAL_NOTE"}

CommandSymmetry == Permutations(Commands)
=============================================================================
