---------------------------- MODULE RunContract ----------------------------
(***************************************************************************)
(* What a research run promises its owner, whatever workers, leases and    *)
(* attempts do underneath: it starts once it is queued, its accepted       *)
(* outputs are never lost, a report is published from a complete set of    *)
(* them, and nothing is accepted after a cancellation.                     *)
(***************************************************************************)
CONSTANTS Runs, Outputs, Final

VARIABLES status,   \* what the owner sees
          accepted  \* the outputs accepted so far

vars == <<status, accepted>>

Init == /\ status = [r \in Runs |-> "absent"]
        /\ accepted = [r \in Runs |-> {}]

\* One run's step: the status moves along an edge of the life cycle.
Moves(r, from, to) == status[r] = from /\ status'[r] = to
Keeps(r) == accepted'[r] = accepted[r]

Submit(r) == Moves(r, "absent", "queued") /\ Keeps(r)
Start(r) == Moves(r, "queued", "running") /\ Keeps(r)
Stop(r) == /\ Moves(r, "running", "failed") \/ Moves(r, "running", "incomplete")
           /\ Keeps(r)
Cancel(r) == /\ \/ \E from \in {"queued", "running"}, to \in {"cancelling", "cancelled"} :
                     Moves(r, from, to)
                \/ Moves(r, "cancelling", "cancelled")
             /\ Keeps(r)
Resume(r) == /\ Moves(r, "failed", "queued") \/ Moves(r, "incomplete", "queued")
             /\ Keeps(r)

\* An output is accepted while the run executes, or just after it was given
\* up; the last one only when all the others are there.
Accept(r) ==
  /\ status[r] \in {"running", "incomplete"}
  /\ status'[r] = status[r]
  /\ \E o \in Outputs \ accepted[r] :
       /\ o = Final => accepted[r] = Outputs \ {Final}
       /\ accepted'[r] = accepted[r] \cup {o}

Publish(r) == /\ Moves(r, "running", "completed")
              /\ accepted[r] = Outputs
              /\ Keeps(r)

Idle(r) == status'[r] = status[r] /\ Keeps(r)

Next == /\ \A r \in Runs : \/ Submit(r) \/ Start(r) \/ Stop(r) \/ Cancel(r)
                           \/ Resume(r) \/ Accept(r) \/ Publish(r) \/ Idle(r)
        /\ DOMAIN status' = Runs /\ DOMAIN accepted' = Runs

Spec == Init /\ [][Next]_vars
=============================================================================
