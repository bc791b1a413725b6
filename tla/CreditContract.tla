--------------------------- MODULE CreditContract ---------------------------
(***************************************************************************)
(* What an account promises about the credits of its research, whatever    *)
(* requests, readers, retries and lost answers do underneath: a request    *)
(* holds credits at most once; it is charged at most once, only after it   *)
(* held them, and what it held ends with the charge; nothing that is       *)
(* charged is given back.  What is charged without a hold is one of a few  *)
(* things that are paid for once.                                          *)
(***************************************************************************)
CONSTANTS Requests, Consumptions

VARIABLES granted,  \* requests that were given a hold, ever
          held,     \* those that hold credits now
          charged   \* what was paid for

vars == <<granted, held, charged>>

Init == granted = {} /\ held = {} /\ charged = {}

Hold(q) == /\ q \notin granted
           /\ granted' = granted \cup {q} /\ held' = held \cup {q}
           /\ UNCHANGED charged

\* Released by its request, expired, or dropped because its run failed.
LetGo(q) == /\ q \in held
            /\ held' = held \ {q}
            /\ UNCHANGED <<granted, charged>>

\* A hold that expired, or was dropped before the run was tried again, does
\* not keep a success from being charged.
Charge(q) == /\ q \in granted \ charged
             /\ charged' = charged \cup {q} /\ held' = held \ {q}
             /\ UNCHANGED granted

Consume(k) == /\ k \notin charged
              /\ charged' = charged \cup {k}
              /\ UNCHANGED <<granted, held>>

Next == \/ \E q \in Requests : Hold(q) \/ LetGo(q) \/ Charge(q)
        \/ \E k \in Consumptions : Consume(k)

Spec == Init /\ [][Next]_vars
=============================================================================
