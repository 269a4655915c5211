------------------------------ MODULE RsyncStates ------------------------------
(***************************************************************************)
(* The event and status vocabulary of rsync and the table StateChanges of  *)
(* rsync/pkg/types/types.go, which says for each event in which states of  *)
(* an AppContext it is accepted, which state it announces while it runs,   *)
(* and which state it leaves behind when it succeeds or fails.             *)
(***************************************************************************)
EXTENDS Naturals

\* The events rsync queues.  AddChildContext has no row in StateChanges and
\* no sender, so it is not an event of the model.
RsyncEvents == {"Instantiate", "Terminate", "Read", "Update", "UpdateDelete"}

\* The operations a cluster routine can be asked to perform.
RsyncOperations == {"Apply", "Delete", "Read"}

AppContextStatuses ==
    {"Created", "Instantiating", "Instantiated", "InstantiateFailed",
     "Terminating", "Terminated", "TerminateFailed",
     "Updating", "Updated", "UpdateFailed"}

\* SState: the states in which event e is accepted.
SourceStates(e) ==
    CASE e \in {"Instantiate", "Read"} ->
             {"Created", "Instantiated", "InstantiateFailed", "Instantiating"}
      [] e = "Terminate" ->
             {"InstantiateFailed", "Instantiating", "Instantiated",
              "TerminateFailed", "Terminating",
              "Updated", "UpdateFailed", "Updating"}
      [] e = "Update" -> {"Created", "Updated"}
      [] e = "UpdateDelete" -> {"Instantiated"}

\* DState, CState and ErrState: the state after success, while the event is
\* being handled, and after a failure.
DesiredState(e) ==
    CASE e = "Terminate"    -> "Terminated"
      [] e = "UpdateDelete" -> "Updated"
      [] e \in {"Instantiate", "Read", "Update"} -> "Instantiated"

RunningState(e) ==
    CASE e = "Terminate"    -> "Terminating"
      [] e = "UpdateDelete" -> "Updating"
      [] e \in {"Instantiate", "Read", "Update"} -> "Instantiating"

ErrorState(e) ==
    CASE e = "Terminate"    -> "TerminateFailed"
      [] e = "UpdateDelete" -> "UpdateFailed"
      [] e \in {"Instantiate", "Read", "Update"} -> "InstantiateFailed"

================================================================================
