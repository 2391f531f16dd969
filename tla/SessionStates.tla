--------------------------- MODULE SessionStates ---------------------------
(***************************************************************************)
(* The training half of the session state machine                          *)
(* (backend/sessions/state_machine.py).  The wizard's states before        *)
(* MODELS_CONFIGURED never meet the queue and are left out; "ABSENT" is a  *)
(* session row that has not been inserted yet.                             *)
(***************************************************************************)

TerminalStates == {"COMPLETED", "FAILED", "CANCELLED"}

\* A run of the session is waiting or training, as the poll loops read it.
InFlightStates == {"QUEUED", "RUNNING"}

SessionState ==
    {"ABSENT", "MODELS_CONFIGURED"} \cup InFlightStates \cup TerminalStates

\* The states POST /sessions/{id}/train accepts.
PreTrainStates == {"MODELS_CONFIGURED"} \cup TerminalStates

\* can_transition(current, target), for the targets the launch path asks for.
CanTransition(current, target) ==
    CASE target = "QUEUED"    -> current \in PreTrainStates
      [] target = "RUNNING"   -> current = "QUEUED"
      [] target = "COMPLETED" -> current = "RUNNING"
      [] target = "FAILED"    -> current = "RUNNING"
      [] target = "CANCELLED" -> current \in InFlightStates
      [] target = "MODELS_CONFIGURED" -> current \in TerminalStates
      [] OTHER -> FALSE
=============================================================================
