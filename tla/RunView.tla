------------------------------ MODULE RunView ------------------------------
(***************************************************************************)
(* What the account sees of a run of the research engine, and which moves  *)
(* of it.  AccountCredits lets its environment make exactly these moves;   *)
(* the engine is shown to make no others.                                  *)
(***************************************************************************)

Ended == {"completed", "failed", "cancelled"}
RunStates == {"none", "active"} \cup Ended

\* A run that waits, executes or is being cancelled is neither charged nor
\* given up; failed and incomplete runs give their credits back alike.
SeenAs(status) ==
  CASE status = "absent" -> "none"
    [] status \in {"queued", "running", "cancelling"} -> "active"
    [] status \in {"failed", "incomplete"} -> "failed"
    [] OTHER -> status

\* A run ends, and a failed one may be tried again by its owner, which queues
\* the run itself (researchRunCommands.ts, past RUN_TRANSITIONS).
MayMove(from, to) == \/ from = "active" /\ to \in Ended
                     \/ from = "failed" /\ to = "active"
=============================================================================
