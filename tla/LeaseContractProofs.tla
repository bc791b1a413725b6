------------------------ MODULE LeaseContractProofs ------------------------
(***************************************************************************)
(* More proofs about LeaseEngine, for every number of runs, workers, memos, *)
(* attempts and processes: runs and their jobs agree on what may execute,   *)
(* so a cancellation is clean and the limits on processes and runs hold,    *)
(* every step of the engine is a step of RunContract, and, when an artifact *)
(* may be attempted at all, the launches keep their limits and the ledger   *)
(* of calls balances.                                                       *)
(***************************************************************************)
EXTENDS LeaseEngineProofs, FiniteSetTheorems

-----------------------------------------------------------------------------
(* The invariant: what the status of a run says of its jobs. *)

Outputs == MemoKeys \cup {ReviewKey}
Js(j) == job[j].status
Rs(r) == run[r].status

\* A job that failed with its run, and left its attempt behind.
Orphaned(j) == Js(j) = "failed" /\ job[j].attempt \in ActiveAttempts

ExecutesForRun(r) == \A j \in JobsOf(r) :
  Js(j) \in ActiveStatuses => Rs(r) \in {"running", "incomplete", "completed"}
OrphansOfIncomplete(r) == \A j \in JobsOf(r) : Orphaned(j) => Rs(r) = "incomplete"
CancellingIsAsked(r) ==
  Rs(r) = "cancelling" => \E j \in JobsOf(r) : Js(j) = "cancel-requested"
CancelledIsNotAsked(r) ==
  Rs(r) \in {"cancelling", "cancelled"} =>
    \A j \in JobsOf(r) : Js(j) \notin {"queued", "leased"}
ReviewAfterMemos(r) ==
  Js(<<r, ReviewKey>>) # "absent" =>
    \A k \in MemoKeys : Js(<<r, k>>) = "succeeded"
CompletedIsReviewed(r) ==
  Rs(r) = "completed" => Js(<<r, ReviewKey>>) = "succeeded"
RunFits(r) == /\ ExecutesForRun(r)
              /\ OrphansOfIncomplete(r)
              /\ CancellingIsAsked(r)
              /\ CancelledIsNotAsked(r)
              /\ ReviewAfterMemos(r)
              /\ CompletedIsReviewed(r)

\* Only a collection is prepared, staged and released.
CollectionsCollect ==
  \A c \in claims : c.phase \in {"prepared", "staged", "released"} =>
    KeyOf(c.job) = CollectionKey

EInv == /\ IInv
        /\ \A r \in Runs : RunFits(r)
        /\ CollectionsCollect

-----------------------------------------------------------------------------
(* What a step does for a run and its owner. *)

Edges == {<<"absent", "queued">>, <<"running", "failed">>,
          <<"running", "incomplete">>, <<"queued", "cancelled">>,
          <<"running", "cancelling">>, <<"running", "cancelled">>,
          <<"cancelling", "cancelled">>, <<"failed", "queued">>,
          <<"incomplete", "queued">>}
SameAccepted(r) ==
  \A k \in Outputs :
    Js(<<r, k>>)' = "succeeded" <=> Js(<<r, k>>) = "succeeded"
Starts(r) == /\ Rs(r) = "queued" /\ Rs(r)' = "running"
             /\ RunSlotFree
             /\ \A s \in Runs : s # r => Rs(s)' = Rs(s)
Completes(r) == /\ Rs(r) = "running" /\ Rs(r)' = "completed"
                /\ \A k \in Outputs : Js(<<r, k>>) = "succeeded"
StatusMoves(r) == \/ Rs(r)' = Rs(r)
                  \/ <<Rs(r), Rs(r)'>> \in Edges
                  \/ Starts(r)
                  \/ Completes(r)
AcceptsOne(r) ==
  /\ Rs(r)' = Rs(r) /\ Rs(r) \in {"running", "incomplete"}
  /\ \E k \in Outputs :
       /\ Js(<<r, k>>) # "succeeded" /\ Js(<<r, k>>)' = "succeeded"
       /\ \A m \in Outputs : m # k =>
            (Js(<<r, m>>)' = "succeeded" <=> Js(<<r, m>>) = "succeeded")
       /\ k = ReviewKey => \A m \in MemoKeys : Js(<<r, m>>) = "succeeded"
RunPromised(r) == \/ SameAccepted(r) /\ StatusMoves(r)
                  \/ AcceptsOne(r)

\* No job takes a process slot, or one does while there is room.
SlotKept(j) == Js(j)' \in ProcessJob => Js(j) \in ProcessJob
SlotsKept == \/ \A j \in Jobs : SlotKept(j)
             \/ /\ ~AtCapacity
                /\ \E j \in Jobs : \A i \in Jobs : i # j => SlotKept(i)

StepFits == /\ \A r \in Runs : RunFits(r)' /\ RunPromised(r)
            /\ SlotsKept

-----------------------------------------------------------------------------
(* Frames: what a step leaves alone stays as it should. *)

LEMMA RunJobs ==
  ASSUME NEW r \in Runs
  PROVE  /\ JobsOf(r) \subseteq Jobs
         /\ \A k \in Outputs : <<r, k>> \in JobsOf(r)
         /\ \A k \in MemoKeys : k \in Outputs
         /\ ReviewKey \in Outputs
         /\ \A k \in Outputs : k # CollectionKey
  BY KeysAreDistinct DEF JobsOf, Jobs, Keys, Outputs

\* A run whose jobs do not change their status.
LEMMA RunStays ==
  ASSUME NEW r \in Runs, RunFits(r), Rs(r)' = Rs(r),
         \A j \in JobsOf(r) : Js(j)' = Js(j) /\ (Orphaned(j)' => Orphaned(j))
  PROVE  RunFits(r)' /\ RunPromised(r)
<1>1. ExecutesForRun(r)' /\ OrphansOfIncomplete(r)'
  BY DEF RunFits, ExecutesForRun, OrphansOfIncomplete
<1>2. CancellingIsAsked(r)' /\ CancelledIsNotAsked(r)'
  BY DEF RunFits, CancellingIsAsked, CancelledIsNotAsked
<1>3. ReviewAfterMemos(r)' /\ CompletedIsReviewed(r)'
  BY RunJobs DEF RunFits, ReviewAfterMemos, CompletedIsReviewed
<1>4. RunPromised(r)
  BY RunJobs DEF RunPromised, SameAccepted, StatusMoves
<1> QED BY <1>1, <1>2, <1>3, <1>4 DEF RunFits

\* An orphan is one already, unless its attempt was born in this step.
LEMMA OrphanStays ==
  ASSUME IInv', NEW j \in Jobs, Js(j)' = Js(j),
         job'[j].attempt = job[j].attempt, Orphaned(j)',
         \A a \in ActiveAttempts' : a \in ActiveAttempts \/ attempt'[a].job # j
  PROVE  Orphaned(j)
<1> DEFINE a == job'[j].attempt
<1>1. a \in ActiveAttempts' /\ Js(j) = "failed"
  BY DEF Orphaned
<1>2. a # None
  BY <1>1 DEF ActiveAttempts, AttemptIds, None
<1>3. attempt'[a].job = j
  BY <1>2 DEF IInv, PointersResolve
<1> QED BY <1>1, <1>3 DEF Orphaned

\* One run is at stake; of the others neither a status nor an attempt changes.
LEMMA OneRun ==
  ASSUME EInv, IInv', NEW r \in Runs,
         \A j \in Jobs : j \notin JobsOf(r) =>
           Js(j)' = Js(j) /\ job'[j].attempt = job[j].attempt,
         \A s \in Runs : s # r => Rs(s)' = Rs(s),
         \A a \in ActiveAttempts' :
           a \in ActiveAttempts \/ attempt'[a].job \in JobsOf(r),
         RunFits(r)', RunPromised(r), SlotsKept
  PROVE  StepFits
<1> SUFFICES ASSUME NEW s \in Runs, s # r
             PROVE  RunFits(s)' /\ RunPromised(s)
  BY DEF StepFits
<1>1. \A j \in JobsOf(s) : j \in Jobs /\ j \notin JobsOf(r)
  BY JobsFacts
<1>2. \A j \in JobsOf(s) : Orphaned(j)' => Orphaned(j)
  BY <1>1, OrphanStays
<1> QED BY <1>1, <1>2, RunStays DEF EInv

\* No status changes, and no attempt is born.
LEMMA NothingMoves ==
  ASSUME EInv, IInv', \A r \in Runs : Rs(r)' = Rs(r),
         \A j \in Jobs : Js(j)' = Js(j) /\ job'[j].attempt = job[j].attempt,
         ActiveAttempts' \subseteq ActiveAttempts
  PROVE  StepFits
<1>1. ASSUME NEW r \in Runs
      PROVE  RunFits(r)' /\ RunPromised(r)
  <2>1. \A j \in JobsOf(r) : j \in Jobs
    BY JobsFacts
  <2>2. \A j \in JobsOf(r) : Orphaned(j)' => Orphaned(j)
    BY <2>1 DEF Orphaned
  <2> QED BY <2>1, <2>2, RunStays DEF EInv
<1>2. SlotsKept
  BY DEF SlotsKept, SlotKept
<1> QED BY <1>1, <1>2 DEF StepFits

\* One job moves, inside its run and short of being accepted or withdrawn.
LEMMA OneJobMoves ==
  ASSUME EInv, IInv', NEW j \in Jobs,
         \A i \in Jobs : i # j =>
           Js(i)' = Js(i) /\ job'[i].attempt = job[i].attempt,
         \A s \in Runs : Rs(s)' = Rs(s),
         \A a \in ActiveAttempts' : a \in ActiveAttempts \/ attempt'[a].job = j,
         Js(j) \notin {"absent", "succeeded", "cancel-requested"},
         Js(j)' \notin {"absent", "succeeded"},
         Js(j)' \in ActiveStatuses =>
           Rs(RunOf(j)) \in {"running", "incomplete", "completed"},
         Js(j)' \in {"queued", "leased"} =>
           Rs(RunOf(j)) \notin {"cancelling", "cancelled"},
         ~Orphaned(j)',
         SlotKept(j) \/ ~AtCapacity
  PROVE  StepFits
<1> DEFINE r == RunOf(j)
<1>1. r \in Runs /\ j \in JobsOf(r) /\ JobsOf(r) \subseteq Jobs
  BY JobsFacts
<1>2. RunFits(r) /\ Rs(r)' = Rs(r)
  BY <1>1 DEF EInv
<1> HIDE DEF r
<1>3. ExecutesForRun(r)' /\ CancelledIsNotAsked(r)'
  BY <1>1, <1>2 DEF RunFits, ExecutesForRun, CancelledIsNotAsked, r
<1>4. OrphansOfIncomplete(r)'
  <2> SUFFICES ASSUME NEW i \in JobsOf(r), Orphaned(i)' PROVE Rs(r)' = "incomplete"
    BY DEF OrphansOfIncomplete
  <2>1. i # j /\ i \in Jobs
    BY <1>1
  <2>2. Orphaned(i)
    <3>1. \A a \in ActiveAttempts' : a \in ActiveAttempts \/ attempt'[a].job # i
      BY <2>1
    <3> QED BY <2>1, <3>1, OrphanStays
  <2> QED BY <1>2, <2>2 DEF RunFits, OrphansOfIncomplete
<1>5. CancellingIsAsked(r)'
  BY <1>1, <1>2 DEF RunFits, CancellingIsAsked
<1>6. /\ \A k \in Outputs :
           Js(<<r, k>>)' = "succeeded" <=> Js(<<r, k>>) = "succeeded"
      /\ \A k \in Outputs : Js(<<r, k>>)' = "absent" <=> Js(<<r, k>>) = "absent"
  BY <1>1, RunJobs
<1>7. ReviewAfterMemos(r)' /\ CompletedIsReviewed(r)'
  BY <1>1, <1>2, <1>6, RunJobs DEF RunFits, ReviewAfterMemos, CompletedIsReviewed
<1>8. RunPromised(r)
  BY <1>2, <1>6 DEF RunPromised, SameAccepted, StatusMoves
<1>9. SlotsKept
  BY DEF SlotsKept, SlotKept
<1>10. /\ \A i \in Jobs : i \notin JobsOf(r) =>
            Js(i)' = Js(i) /\ job'[i].attempt = job[i].attempt
       /\ \A a \in ActiveAttempts' :
            a \in ActiveAttempts \/ attempt'[a].job \in JobsOf(r)
  BY <1>1
<1>11. RunFits(r)'
  BY <1>3, <1>4, <1>5, <1>7 DEF RunFits
<1> QED BY <1>1, <1>8, <1>9, <1>10, <1>11, OneRun

\* Only the status of one run moves.
LEMMA RunMoves ==
  ASSUME EInv, IInv', NEW r \in Runs, NEW status \in RunStatuses,
         run' = [run EXCEPT ![r].status = status], UNCHANGED <<job, attempt>>,
         status # "cancelling", status # "cancelled",
         StatusMoves(r),
         Rs(r) = "incomplete" => status = "incomplete",
         status \in {"running", "incomplete", "completed"}
           \/ \A j \in JobsOf(r) : Js(j) \notin ActiveStatuses,
         status = "completed" => Js(<<r, ReviewKey>>) = "succeeded"
  PROVE  StepFits
<1>1. /\ Rs(r)' = status /\ \A s \in Runs : s # r => Rs(s)' = Rs(s)
  BY DEF IInv, EInv, TypeOK, RunRecords, Rs
<1>2. ActiveAttempts' = ActiveAttempts /\ \A j : Js(j)' = Js(j) /\ (Orphaned(j)' <=> Orphaned(j))
  BY DEF ActiveAttempts, Js, Orphaned
<1>3. RunFits(r)
  BY DEF EInv
<1>4. RunFits(r)'
  <2>1. ExecutesForRun(r)' /\ OrphansOfIncomplete(r)'
    BY <1>1, <1>2, <1>3 DEF RunFits, ExecutesForRun, OrphansOfIncomplete
  <2>2. CancellingIsAsked(r)' /\ CancelledIsNotAsked(r)'
    BY <1>1, <1>2, <1>3 DEF RunFits, CancellingIsAsked, CancelledIsNotAsked
  <2>3. ReviewAfterMemos(r)' /\ CompletedIsReviewed(r)'
    BY <1>1, <1>2, <1>3 DEF RunFits, ReviewAfterMemos, CompletedIsReviewed
  <2> QED BY <2>1, <2>2, <2>3 DEF RunFits
<1>5. RunPromised(r) /\ SlotsKept
  BY <1>2 DEF RunPromised, SameAccepted, SlotsKept, SlotKept
<1> QED BY <1>1, <1>2, <1>4, <1>5, OneRun

-----------------------------------------------------------------------------
(* The steps. *)

LEMMA Records ==
  ASSUME IInv
  PROVE  /\ run \in [Runs -> RunRecords] /\ \A r \in Runs : run[r] \in RunRecords
         /\ job \in [Jobs -> JobRecords] /\ \A j \in Jobs : job[j] \in JobRecords
         /\ attempt \in [AttemptIds -> AttemptRecords]
         /\ \A a \in AttemptIds : attempt[a] \in AttemptRecords
         /\ \A c \in claims : c \in Claims /\ c.job \in Jobs /\ RunOf(c.job) \in Runs
  BY JobsFacts DEF IInv, TypeOK, Claims

\* A job that executes has an attempt at work.
LEMMA ExecutingHasAttempt ==
  ASSUME IInv, NEW j \in Jobs, Js(j) \in ProcessJob
  PROVE  /\ job[j].attempt \in ActiveAttempts /\ job[j].attempt \in AttemptIds
         /\ attempt[job[j].attempt].job = j
  BY DEF IInv, ExecutingIsActive, PointersResolve, ActiveAttempts, AttemptIds,
     None, Js

\* A queued run has no attempt at work, an executing one none for a job that
\* does not execute.
LEMMA ActiveOfRun ==
  ASSUME EInv, NEW r \in Runs, Rs(r) \notin {"incomplete", "cancelling"},
         NEW a \in ActiveAttempts, attempt[a].job \in JobsOf(r)
  PROVE  Js(attempt[a].job) \in ActiveStatuses
<1> DEFINE j == attempt[a].job
<1>1. j \in Jobs /\ RunOf(j) = r
  BY JobsFacts
<1>2. job[j].attempt = a /\ Js(j) \in ProcessJob \cup {"failed"}
  BY DEF EInv, IInv, ActiveIsCurrent, Js
<1>3. Js(j) # "failed"
  BY <1>2 DEF EInv, RunFits, OrphansOfIncomplete, Orphaned
<1>4. Js(j) # "cancel-requested"
  BY <1>1 DEF EInv, IInv, CancelOnlyWhileCancelling, Js, Rs
<1> QED BY <1>2, <1>3, <1>4 DEF ProcessJob, ActiveStatuses

LEMMA CreateFits ==
  ASSUME EInv, IInv', NEW r \in Runs, Create(r)
  PROVE  StepFits
<1> DEFINE j == <<r, CollectionKey>>
<1>1. /\ Rs(r) = "absent" /\ \A i \in JobsOf(r) : Js(i) = "absent"
      /\ run' = [run EXCEPT ![r].status = "queued"]
      /\ job' = [job EXCEPT ![j].status = "queued"]
      /\ UNCHANGED attempt
  BY DEF Create, Rs, Js
<1>2. j \in Jobs /\ j \in JobsOf(r)
  BY JobsFacts DEF Keys, JobsOf
<1>3. Rs(r)' = "queued" /\ \A s \in Runs : s # r => Rs(s)' = Rs(s)
  BY <1>1, Records DEF EInv, RunRecords, Rs
<1>4. Js(j)' = "queued" /\ \A i \in Jobs : i # j => job'[i] = job[i]
  BY <1>1, <1>2, Records DEF EInv, JobRecords, Js
<1> HIDE DEF j
<1>5. \A i \in JobsOf(r) : Js(i)' \in {"absent", "queued"}
  BY <1>1, <1>4, JobsFacts DEF Js
<1>6. \A k \in Outputs : Js(<<r, k>>)' = "absent"
  <2>1. \A k \in Outputs : <<r, k>> # j /\ <<r, k>> \in JobsOf(r) /\ <<r, k>> \in Jobs
    BY RunJobs DEF j
  <2> QED BY <1>1, <1>4, <2>1 DEF Js
<1>7. RunFits(r)'
  <2>1. ExecutesForRun(r)' /\ OrphansOfIncomplete(r)'
    BY <1>5 DEF ExecutesForRun, OrphansOfIncomplete, Orphaned, ActiveStatuses
  <2>2. CancellingIsAsked(r)' /\ CancelledIsNotAsked(r)' /\ CompletedIsReviewed(r)'
    BY <1>3 DEF CancellingIsAsked, CancelledIsNotAsked, CompletedIsReviewed
  <2>3. ReviewAfterMemos(r)'
    BY <1>6 DEF ReviewAfterMemos, Outputs
  <2> QED BY <2>1, <2>2, <2>3 DEF RunFits
<1>8. RunPromised(r)
  <2>1. SameAccepted(r)
    BY <1>1, <1>6, RunJobs DEF SameAccepted
  <2>2. StatusMoves(r)
    BY <1>1, <1>3 DEF StatusMoves, Edges
  <2> QED BY <2>1, <2>2 DEF RunPromised
<1>9. SlotsKept
  BY <1>4 DEF SlotsKept, SlotKept, Js, ProcessJob
<1>10. ActiveAttempts' = ActiveAttempts
  BY <1>1 DEF ActiveAttempts
<1>11. \A i \in Jobs : i \notin JobsOf(r) =>
          Js(i)' = Js(i) /\ job'[i].attempt = job[i].attempt
  BY <1>2, <1>4 DEF Js
<1> QED BY <1>3, <1>7, <1>8, <1>9, <1>10, <1>11, OneRun

LEMMA CancelFits ==
  ASSUME EInv, IInv', NEW r \in Runs, CancelResearchRun(r)
  PROVE  StepFits
<1> DEFINE active == {a \in ActiveAttempts : attempt[a].job \in JobsOf(r)}
           withdrawn(j) == job[j].status \in {"queued", "leased", "retry-wait"}
           asked(j) == job[j].status \in ActiveStatuses /\ active # {}
           to == IF active = {} THEN "cancelled" ELSE "cancelling"
<1>1. /\ Rs(r) \in {"queued", "running"}
      /\ run' = [run EXCEPT ![r].status = to]
      /\ UNCHANGED attempt
  BY DEF CancelResearchRun, Rs
<1>2. /\ Rs(r)' = to /\ \A s \in Runs : s # r => Rs(s)' = Rs(s)
  BY <1>1, Records DEF EInv, RunRecords, Rs
<1>3. ASSUME NEW j \in Jobs
      PROVE  /\ job'[j].attempt = job[j].attempt
             /\ Js(j)' = IF j \in JobsOf(r) /\ withdrawn(j) THEN "cancelled"
                         ELSE IF j \in JobsOf(r) /\ asked(j) THEN "cancel-requested"
                         ELSE Js(j)
  <2>1. job[j] \in JobRecords /\ (job[j].status \in ActiveStatuses => ~withdrawn(j))
    BY Records DEF EInv, ActiveStatuses
  <2>2. CASE j \in JobsOf(r) /\ withdrawn(j)
    <3>1. job'[j] = Unleased(job[j], "cancelled")
      BY <1>3, <2>1, <2>2 DEF CancelResearchRun
    <3> QED BY <2>1, <2>2, <3>1, UnleasedFacts DEF JobStatuses, Js
  <2>3. CASE j \in JobsOf(r) /\ asked(j)
    <3>1. job'[j] = [job[j] EXCEPT !.status = "cancel-requested"]
      BY <1>3, <2>1, <2>3 DEF CancelResearchRun
    <3> QED BY <2>1, <2>3, <3>1 DEF JobRecords, Js
  <2>4. CASE ~(j \in JobsOf(r) /\ (withdrawn(j) \/ asked(j)))
    <3>1. job'[j] = job[j]
      BY <1>3, <2>4 DEF CancelResearchRun
    <3> QED BY <2>4, <3>1 DEF Js
  <2> QED BY <2>2, <2>3, <2>4
<1>4. ASSUME NEW j \in JobsOf(r), Js(j) \in ActiveStatuses
      PROVE  active # {}
  <2>1. j \in Jobs /\ Js(j) \in ProcessJob
    BY <1>4, JobsFacts DEF ActiveStatuses, ProcessJob
  <2> QED BY <2>1, ExecutingHasAttempt DEF EInv
<1>5. active # {} => \E j \in JobsOf(r) : Js(j) \in ActiveStatuses
  BY <1>1, ActiveOfRun
<1>6. Rs(r) = "queued" => active = {}
  BY <1>1, <1>5 DEF EInv, RunFits, ExecutesForRun
<1>7. JobsOf(r) \subseteq Jobs /\ RunFits(r)
  BY JobsFacts DEF EInv
<1>8. \A j \in JobsOf(r) : Js(j)' \notin {"queued", "leased"} \cup ActiveStatuses
  BY <1>3, <1>4, <1>7 DEF Js, ActiveStatuses
<1>9. active # {} => \E j \in JobsOf(r) : Js(j)' = "cancel-requested"
  <2> SUFFICES ASSUME active # {}
               PROVE  \E j \in JobsOf(r) : Js(j)' = "cancel-requested"
    OBVIOUS
  <2>1. PICK j \in JobsOf(r) : Js(j) \in ActiveStatuses
    BY <1>5
  <2>2. asked(j) /\ ~withdrawn(j)
    BY <2>1 DEF Js, ActiveStatuses
  <2> QED BY <1>3, <1>7, <2>2
<1>10. ActiveAttempts' = ActiveAttempts
  BY <1>1 DEF ActiveAttempts
<1>11. \A j \in Jobs :
         /\ Js(j)' = "succeeded" <=> Js(j) = "succeeded"
         /\ Js(j)' = "absent" <=> Js(j) = "absent"
         /\ Js(j)' = "failed" <=> Js(j) = "failed"
         /\ SlotKept(j)
  BY <1>3 DEF Js, ActiveStatuses, SlotKept, ProcessJob
<1>12. RunFits(r)'
  <2>1. ExecutesForRun(r)'
    BY <1>8 DEF ExecutesForRun
  <2>2. OrphansOfIncomplete(r)'
    BY <1>1, <1>3, <1>7, <1>10, <1>11
       DEF RunFits, OrphansOfIncomplete, Orphaned
  <2>3. CancellingIsAsked(r)' /\ CancelledIsNotAsked(r)' /\ CompletedIsReviewed(r)'
    BY <1>2, <1>8, <1>9
       DEF CancellingIsAsked, CancelledIsNotAsked, CompletedIsReviewed
  <2>4. ReviewAfterMemos(r)'
    BY <1>7, <1>11, RunJobs DEF RunFits, ReviewAfterMemos
  <2> QED BY <2>1, <2>2, <2>3, <2>4 DEF RunFits
<1>13. RunPromised(r)
  <2>1. SameAccepted(r)
    BY <1>7, <1>11, RunJobs DEF SameAccepted
  <2>2. StatusMoves(r)
    BY <1>1, <1>2, <1>6 DEF StatusMoves, Edges
  <2> QED BY <2>1, <2>2 DEF RunPromised
<1>14. SlotsKept
  BY <1>11 DEF SlotsKept
<1>15. \A j \in Jobs : j \notin JobsOf(r) =>
          Js(j)' = Js(j) /\ job'[j].attempt = job[j].attempt
  BY <1>3
<1> QED BY <1>2, <1>10, <1>12, <1>13, <1>14, <1>15, OneRun

LEMMA RetryFits ==
  ASSUME EInv, IInv', NEW r \in Runs, RetryResearchRun(r)
  PROVE  StepFits
<1> DEFINE stops(j) == job[j].status \in {"leased", "spawn-reserved", "running", "failed"}
           waiting(j) == IF stops(j) THEN Unleased(job[j], "retry-wait") ELSE job[j]
           requeued(j) == IF waiting(j).status = "retry-wait" /\ waiting(j).class # "none"
                          THEN [waiting(j) EXCEPT !.class = "transient"] ELSE waiting(j)
<1>1. /\ Rs(r) \in {"failed", "incomplete"}
      /\ run' = [run EXCEPT ![r].status = "queued"]
      /\ attempt' = [a \in AttemptIds |->
                       IF a \in ActiveAttempts /\ attempt[a].job \in JobsOf(r)
                       THEN [attempt[a] EXCEPT !.status = "unknown"] ELSE attempt[a]]
      /\ job' = [j \in Jobs |-> IF j \in JobsOf(r) THEN requeued(j) ELSE job[j]]
  BY DEF RetryResearchRun, Rs
<1>2. Rs(r)' = "queued" /\ \A s \in Runs : s # r => Rs(s)' = Rs(s)
  BY <1>1, Records DEF EInv, RunRecords, Rs
<1>3. ASSUME NEW j \in Jobs
      PROVE  /\ waiting(j) \in JobRecords
             /\ waiting(j).attempt = job[j].attempt
             /\ waiting(j).status = IF stops(j) THEN "retry-wait" ELSE job[j].status
  <2>1. CASE stops(j)
    BY <2>1, Records, UnleasedFacts DEF EInv, JobStatuses
  <2>2. CASE ~stops(j)
    BY <2>2, Records DEF EInv
  <2> QED BY <2>1, <2>2
<1>4. ASSUME NEW j \in Jobs
      PROVE  /\ requeued(j).attempt = job[j].attempt
             /\ requeued(j).status = IF stops(j) THEN "retry-wait" ELSE job[j].status
  <2> HIDE DEF waiting, stops
  <2> QED BY <1>3 DEF JobRecords, Classes
<1> HIDE DEF waiting, requeued
<1>5. /\ \A j \in Jobs : /\ job'[j].attempt = job[j].attempt
                         /\ j \notin JobsOf(r) => Js(j)' = Js(j)
                         /\ j \in JobsOf(r) => Js(j)' = IF stops(j) THEN "retry-wait"
                                                        ELSE Js(j)
  BY <1>1, <1>4 DEF Js
<1>6. ActiveAttempts' \subseteq ActiveAttempts
  <2> SUFFICES ASSUME NEW a \in AttemptIds, attempt'[a].status \in ActiveStatuses
               PROVE  a \in ActiveAttempts
    BY DEF ActiveAttempts
  <2> QED BY <1>1, Records DEF EInv, ActiveAttempts
<1>7. \A j \in JobsOf(r) : Js(j)' \notin ProcessJob \cup {"failed"}
  <2>1. \A j \in JobsOf(r) : j \in Jobs /\ Js(j) # "cancel-requested"
    BY <1>1, JobsFacts DEF EInv, IInv, CancelOnlyWhileCancelling, Js, Rs
  <2> QED BY <1>5, <2>1 DEF Js, ProcessJob
<1>8. RunFits(r) /\ JobsOf(r) \subseteq Jobs
  BY JobsFacts DEF EInv
<1>9. \A j \in Jobs : /\ Js(j)' = "succeeded" <=> Js(j) = "succeeded"
                      /\ Js(j)' = "absent" <=> Js(j) = "absent"
  BY <1>5 DEF Js
<1>10. RunFits(r)'
  <2>1. ExecutesForRun(r)' /\ OrphansOfIncomplete(r)'
    BY <1>7 DEF ExecutesForRun, OrphansOfIncomplete, Orphaned, ActiveStatuses,
       ProcessJob
  <2>2. CancellingIsAsked(r)' /\ CancelledIsNotAsked(r)' /\ CompletedIsReviewed(r)'
    BY <1>2 DEF CancellingIsAsked, CancelledIsNotAsked, CompletedIsReviewed
  <2>3. ReviewAfterMemos(r)'
    BY <1>8, <1>9, RunJobs DEF RunFits, ReviewAfterMemos
  <2> QED BY <2>1, <2>2, <2>3 DEF RunFits
<1>11. RunPromised(r)
  <2>1. SameAccepted(r)
    BY <1>8, <1>9, RunJobs DEF SameAccepted
  <2>2. StatusMoves(r)
    BY <1>1, <1>2 DEF StatusMoves, Edges
  <2> QED BY <2>1, <2>2 DEF RunPromised
<1>12. SlotsKept
  BY <1>5, <1>7 DEF SlotsKept, SlotKept
<1> QED BY <1>2, <1>5, <1>6, <1>10, <1>11, <1>12, OneRun

LEMMA ActivateFits ==
  ASSUME EInv, IInv', NEW r \in Runs, ActivateNextRun(r)
  PROVE  StepFits
<1>1. UNCHANGED <<job, attempt>>
  BY DEF ActivateNextRun
<1>2. CASE /\ Exhausted(r)
           /\ run' = [run EXCEPT ![r].status = ExhaustedStatus(run[r].permanent)]
  <2> DEFINE status == ExhaustedStatus(run[r].permanent)
  <2>1. Rs(r) = "running" /\ Pending(r) = {}
    BY <1>2 DEF Exhausted, ExhaustedIn, Pending, Rs
  <2>2. status \in {"failed", "incomplete"}
    BY DEF ExhaustedStatus
  <2>3. \A j \in JobsOf(r) : Js(j) \notin ActiveStatuses
    BY <2>1 DEF Pending, PendingIn, Js, ActiveStatuses, TerminalJob
  <2> HIDE DEF status
  <2>4. Rs(r)' = status
    BY <1>2, <2>2, Records DEF EInv, RunRecords, Rs, status
  <2>5. StatusMoves(r)
    BY <2>1, <2>2, <2>4 DEF StatusMoves, Edges
  <2>6. status \in RunStatuses
    BY <2>2 DEF RunStatuses
  <2>7. run' = [run EXCEPT ![r].status = status]
    BY <1>2 DEF status
  <2> QED BY <1>1, <2>1, <2>2, <2>3, <2>5, <2>6, <2>7, RunMoves
<1>3. CASE /\ RunSlotFree /\ run[r].status = "queued"
           /\ run' = [run EXCEPT ![r].status = "running"]
  <2>1. Rs(r)' = "running" /\ \A s \in Runs : s # r => Rs(s)' = Rs(s)
    BY <1>3, Records DEF EInv, RunRecords, Rs
  <2>2. StatusMoves(r) /\ Rs(r) = "queued"
    BY <1>3, <2>1 DEF StatusMoves, Starts, Rs
  <2>3. "running" \in RunStatuses
    BY DEF RunStatuses
  <2> QED BY <1>1, <1>3, <2>2, <2>3, RunMoves
<1> QED BY <1>2, <1>3 DEF ActivateNextRun

LEMMA PublishFits ==
  ASSUME EInv, IInv', NEW r \in Runs, PublishReport(r)
  PROVE  StepFits
<1>1. /\ Rs(r) = "running" /\ Js(<<r, ReviewKey>>) = "succeeded"
      /\ run' = [run EXCEPT ![r].status = "completed"]
      /\ UNCHANGED <<job, attempt>>
  BY DEF PublishReport, Rs, Js
<1>2. \A k \in Outputs : Js(<<r, k>>) = "succeeded"
  BY <1>1 DEF EInv, RunFits, ReviewAfterMemos, Outputs
<1>3. Rs(r)' = "completed"
  BY <1>1, Records DEF EInv, RunRecords, Rs
<1>4. StatusMoves(r)
  BY <1>1, <1>2, <1>3 DEF StatusMoves, Completes
<1>5. "completed" \in RunStatuses
  BY DEF RunStatuses
<1> QED BY <1>1, <1>4, <1>5, RunMoves

LEMMA TerminalizeFits ==
  ASSUME EInv, IInv', NEW r \in Runs, TerminalizeWorkflowFailure(r)
  PROVE  StepFits
<1>1. /\ Rs(r) = "running" /\ run' = [run EXCEPT ![r].status = "incomplete"]
      /\ UNCHANGED <<job, attempt>>
  BY DEF TerminalizeWorkflowFailure, Rs
<1>2. Rs(r)' = "incomplete"
  BY <1>1, Records DEF EInv, RunRecords, Rs
<1>3. StatusMoves(r)
  BY <1>1, <1>2 DEF StatusMoves, Edges
<1>4. "incomplete" \in RunStatuses
  BY DEF RunStatuses
<1> QED BY <1>1, <1>3, <1>4, RunMoves

\* Jobs of an executing run that had no row are queued; a review only when
\* every memo is accepted.
LEMMA InsertFits ==
  ASSUME EInv, IInv', NEW r \in Runs, Rs(r) = "running", NEW S \in SUBSET JobsOf(r),
         \A j \in S : Js(j) = "absent" /\ Js(j)' = "queued",
         \A j \in Jobs : j \notin S => job'[j] = job[j],
         \A j \in Jobs : job'[j].attempt = job[j].attempt,
         <<r, ReviewKey>> \in S =>
           /\ <<r, ReviewKey>> \in JobsOf(r)
           /\ \A k \in MemoKeys : Js(<<r, k>>) = "succeeded",
         UNCHANGED <<run, attempt>>
  PROVE  StepFits
<1>1. JobsOf(r) \subseteq Jobs /\ RunFits(r) /\ Rs(r)' = Rs(r)
      /\ \A s \in Runs : Rs(s)' = Rs(s)
  BY JobsFacts DEF EInv, Rs
<1>2. ActiveAttempts' = ActiveAttempts
  BY DEF ActiveAttempts
<1>3. \A j \in Jobs : /\ j \notin S => Js(j)' = Js(j)
                      /\ j \in S => Js(j) = "absent" /\ Js(j)' = "queued"
  BY DEF Js
<1>4. RunFits(r)'
  <2>1. ExecutesForRun(r)' /\ CancellingIsAsked(r)' /\ CancelledIsNotAsked(r)'
    BY <1>1 DEF ExecutesForRun, CancellingIsAsked, CancelledIsNotAsked
  <2>2. OrphansOfIncomplete(r)'
    BY <1>1, <1>2, <1>3 DEF RunFits, OrphansOfIncomplete, Orphaned
  <2>3. ReviewAfterMemos(r)'
    BY <1>1, <1>3, RunJobs DEF RunFits, ReviewAfterMemos
  <2>4. CompletedIsReviewed(r)'
    BY <1>1 DEF CompletedIsReviewed
  <2> QED BY <2>1, <2>2, <2>3, <2>4 DEF RunFits
<1>5. RunPromised(r)
  BY <1>1, <1>3, RunJobs DEF RunPromised, SameAccepted, StatusMoves
<1>6. SlotsKept
  BY <1>3 DEF SlotsKept, SlotKept, ProcessJob
<1>7. \A j \in Jobs : j \notin JobsOf(r) =>
         Js(j)' = Js(j) /\ job'[j].attempt = job[j].attempt
  BY <1>3
<1> QED BY <1>1, <1>2, <1>4, <1>5, <1>6, <1>7, OneRun

LEMMA StageReviewFits ==
  ASSUME EInv, IInv', NEW r \in Runs, StageReview(r)
  PROVE  StepFits
<1> DEFINE j == <<r, ReviewKey>>
<1>1. /\ Rs(r) = "running" /\ Js(j) = "absent"
      /\ \A k \in MemoKeys : Js(<<r, k>>) = "succeeded"
      /\ job' = [job EXCEPT ![j].status = "queued"]
      /\ UNCHANGED <<run, attempt>>
  BY DEF StageReview, MemosAccepted, Rs, Js
<1>2. j \in Jobs /\ j \in JobsOf(r)
  BY JobsFacts DEF Keys, JobsOf
<1> HIDE DEF j
<1>3. /\ Js(j)' = "queued" /\ job'[j].attempt = job[j].attempt
      /\ \A i \in Jobs : i # j => job'[i] = job[i]
  BY <1>1, <1>2, Records DEF EInv, JobRecords, Js
<1>4. \A i \in Jobs : job'[i].attempt = job[i].attempt
  BY <1>3
<1> DEFINE S == {j}
<1>5. /\ S \in SUBSET JobsOf(r) /\ \A i \in Jobs : i \notin S => job'[i] = job[i]
      /\ \A i \in S : Js(i) = "absent" /\ Js(i)' = "queued"
  BY <1>1, <1>2, <1>3
<1>6. <<r, ReviewKey>> \in S =>
        /\ <<r, ReviewKey>> \in JobsOf(r)
        /\ \A k \in MemoKeys : Js(<<r, k>>) = "succeeded"
  BY <1>1, <1>2 DEF j
<1>7. Rs(r) = "running" /\ UNCHANGED <<run, attempt>>
  BY <1>1
<1> HIDE DEF S
<1> QED BY <1>4, <1>5, <1>6, <1>7, InsertFits

LEMMA StageSpecialistsFits ==
  ASSUME EInv, IInv', NEW c \in claims, StageSpecialists(c)
  PROVE  StepFits
<1> DEFINE r == RunOf(c.job)
           S == {r} \X MemoKeys
           rec == [AbsentJob EXCEPT !.status = "queued"]
<1>1. /\ Rs(r) = "running"
      /\ \A j \in S : Js(j) = "absent"
      /\ job' = [j \in Jobs |-> IF j \in S THEN rec ELSE job[j]]
      /\ UNCHANGED <<run, attempt>>
  BY DEF StageSpecialists, Rs, Js
<1>2. r \in Runs /\ S \in SUBSET JobsOf(r) /\ JobsOf(r) \subseteq Jobs
  BY Records, JobsFacts DEF EInv, JobsOf, Keys
<1>3. \A j \in S : job[j].attempt = None
  <2> SUFFICES ASSUME NEW j \in S, job[j].attempt # None
               PROVE  FALSE
    OBVIOUS
  <2>1. j \in Jobs /\ job[j].attempt \in AttemptIds
    BY <1>2, Records DEF EInv, JobRecords
  <2> QED BY <1>1, <2>1 DEF EInv, IInv, PointersResolve, AttemptsHaveJobs, Js
<1>4. rec.status = "queued" /\ rec.attempt = None
  BY DEF AbsentJob
<1>5. <<r, ReviewKey>> \notin S
  BY KeysAreDistinct
<1> HIDE DEF S, rec, r
<1>6. /\ \A j \in S : Js(j) = "absent" /\ Js(j)' = "queued"
      /\ \A j \in Jobs : j \notin S => job'[j] = job[j]
      /\ \A j \in Jobs : job'[j].attempt = job[j].attempt
  BY <1>1, <1>2, <1>3, <1>4 DEF Js
<1> QED BY <1>1, <1>2, <1>5, <1>6, InsertFits

\* One job's record is rewritten, its attempt is not, and no attempt is born.
LEMMA OneRecordMoves ==
  ASSUME EInv, IInv', NEW j \in Jobs, NEW rec \in JobRecords,
         job' = [job EXCEPT ![j] = rec], rec.attempt = job[j].attempt,
         \A s \in Runs : Rs(s)' = Rs(s), ActiveAttempts' \subseteq ActiveAttempts,
         Js(j) \notin {"absent", "succeeded", "cancel-requested"},
         rec.status \notin {"absent", "succeeded"},
         rec.status \in ProcessJob => Js(j) \in ActiveStatuses,
         rec.status \in {"queued", "leased"} =>
           Rs(RunOf(j)) \notin {"cancelling", "cancelled"},
         rec.status = "failed" => rec.attempt \notin ActiveAttempts'
  PROVE  StepFits
<1>1. job'[j] = rec /\ \A i \in Jobs : i # j => job'[i] = job[i]
  BY Records DEF EInv
<1>2. Js(j)' = rec.status /\ \A i \in Jobs : i # j =>
         Js(i)' = Js(i) /\ job'[i].attempt = job[i].attempt
  BY <1>1 DEF Js
<1>3. RunOf(j) \in Runs /\ j \in JobsOf(RunOf(j))
  BY JobsFacts
<1>4. Js(j)' \in ActiveStatuses =>
        Rs(RunOf(j)) \in {"running", "incomplete", "completed"}
  BY <1>2, <1>3 DEF EInv, RunFits, ExecutesForRun, ActiveStatuses, ProcessJob
<1>5. ~Orphaned(j)' /\ SlotKept(j)
  BY <1>1, <1>2 DEF Orphaned, SlotKept, ActiveStatuses, ProcessJob
<1> QED BY <1>2, <1>4, <1>5, OneJobMoves

LEMMA ClaimFits ==
  ASSUME EInv, IInv', NEW w \in Workers, NEW j \in Jobs, Claim(w, j)
  PROVE  StepFits
<1> DEFINE rec == [job[j] EXCEPT !.status = "leased", !.owner = w,
                     !.token = job[j].token + 1, !.lease = LeaseTicks]
<1>1. /\ job' = [job EXCEPT ![j] = rec] /\ Rs(RunOf(j)) = "running"
      /\ Js(j) \in {"queued", "retry-wait", "leased"}
      /\ UNCHANGED <<run, attempt>>
  BY DEF Claim, Rs, Js
<1>2. rec.status = "leased" /\ rec.attempt = job[j].attempt
  BY Records DEF EInv, JobRecords
<1>3. job'[j] = rec
  BY <1>1, Records DEF EInv
<1>4. rec \in JobRecords
  BY <1>3 DEF IInv, TypeOK
<1> HIDE DEF rec
<1>5. \A s \in Runs : Rs(s)' = Rs(s)
  BY <1>1 DEF Rs
<1>6. ActiveAttempts' \subseteq ActiveAttempts
  BY <1>1 DEF ActiveAttempts
<1> QED BY <1>1, <1>2, <1>4, <1>5, <1>6, OneRecordMoves DEF ProcessJob

LEMMA ReleaseFits ==
  ASSUME EInv, IInv', NEW c \in claims, Release(c)
  PROVE  StepFits
<1> DEFINE j == c.job
           rec == Unleased(job[j], "queued")
<1>1. j \in Jobs /\ job[j] \in JobRecords /\ RunOf(j) \in Runs /\ j \in JobsOf(RunOf(j))
  BY Records, JobsFacts DEF EInv
<1>2. UNCHANGED <<run, attempt>>
  BY DEF Release
<1>3. ActiveAttempts' = ActiveAttempts /\ \A s \in Runs : Rs(s)' = Rs(s)
  BY <1>2 DEF ActiveAttempts, Rs
<1>4. CASE ~FenceHolds(c)
  <2>1. \A i \in Jobs : Js(i)' = Js(i) /\ job'[i].attempt = job[i].attempt
    BY <1>4 DEF Release, Js
  <2> QED BY <1>3, <2>1, NothingMoves
<1>5. CASE FenceHolds(c)
  <2>1. job' = [job EXCEPT ![j] = rec] /\ Js(j) = "leased"
    BY <1>5 DEF Release, FenceHolds, Js
  <2>2. rec \in JobRecords /\ rec.status = "queued" /\ rec.attempt = job[j].attempt
    BY <1>1, UnleasedFacts DEF JobStatuses
  <2>3. Rs(RunOf(j)) \notin {"cancelling", "cancelled"}
    BY <1>1, <2>1 DEF EInv, RunFits, CancelledIsNotAsked
  <2> HIDE DEF rec, j
  <2> QED BY <1>1, <1>3, <2>1, <2>2, <2>3, OneRecordMoves DEF ProcessJob
<1> QED BY <1>4, <1>5

\* A heartbeat and the passing of time write the lease alone.
LEMMA LeaseFits ==
  ASSUME EInv, IInv', NEW j \in Jobs, NEW n, job' = [job EXCEPT ![j].lease = n],
         UNCHANGED <<run, attempt>>
  PROVE  StepFits
<1>1. \A i \in Jobs : Js(i)' = Js(i) /\ job'[i].attempt = job[i].attempt
  BY Records DEF EInv, JobRecords, Js
<1>2. ActiveAttempts' = ActiveAttempts /\ \A s \in Runs : Rs(s)' = Rs(s)
  BY DEF ActiveAttempts, Rs
<1> QED BY <1>1, <1>2, NothingMoves

LEMMA TablesFits ==
  ASSUME EInv, IInv', UNCHANGED <<run, job, attempt>>
  PROVE  StepFits
<1>1. /\ \A i \in Jobs : Js(i)' = Js(i) /\ job'[i].attempt = job[i].attempt
      /\ ActiveAttempts' = ActiveAttempts /\ \A s \in Runs : Rs(s)' = Rs(s)
  BY DEF Js, Rs, ActiveAttempts
<1> QED BY <1>1, NothingMoves

\* The budget columns of a run and the ordinals of attempts are not statuses.
LEMMA ColumnsFit ==
  ASSUME EInv, IInv', NEW c \in claims,
         ReleaseSystemCollectionReservation(c) \/ ConsumeReplacementBudget(c)
  PROVE  StepFits
<1>1. \A i \in Jobs : Js(i)' = Js(i) /\ job'[i].attempt = job[i].attempt
  BY DEF Js, ReleaseSystemCollectionReservation, ConsumeReplacementBudget
<1>2. \A s \in Runs : Rs(s)' = Rs(s)
  BY Records DEF EInv, RunRecords, Rs, ReleaseSystemCollectionReservation,
     ConsumeReplacementBudget
<1>3. ActiveAttempts' \subseteq ActiveAttempts
  BY Records DEF EInv, AttemptRecords, ActiveAttempts,
     ReleaseSystemCollectionReservation, ConsumeReplacementBudget
<1> QED BY <1>1, <1>2, <1>3, NothingMoves

LEMMA ReserveExhaustedFits ==
  ASSUME EInv, IInv', NEW c \in claims, ReserveExhausted(c)
  PROVE  StepFits
<1> DEFINE r == RunOf(c.job)
<1>1. /\ r \in Runs /\ JobsOf(r) \subseteq Jobs /\ RunFits(r)
      /\ Rs(r) = "running"
      /\ run' = [run EXCEPT ![r].status = "incomplete"]
      /\ job' = [j \in Jobs |-> IF j \in Pending(r) THEN Unleased(job[j], "failed")
                                ELSE job[j]]
      /\ UNCHANGED attempt
  BY Records, JobsFacts DEF ReserveExhausted, EInv, Rs
<1> HIDE DEF r
<1>2. Rs(r)' = "incomplete" /\ \A s \in Runs : s # r => Rs(s)' = Rs(s)
  BY <1>1, Records DEF EInv, RunRecords, Rs
<1>3. ASSUME NEW j \in Jobs
      PROVE  /\ job'[j].attempt = job[j].attempt
             /\ j \notin Pending(r) => job'[j] = job[j]
             /\ j \in Pending(r) => /\ Js(j)' = "failed" /\ j \in JobsOf(r)
                                    /\ Js(j) \notin TerminalJob \cup {"absent"}
  <2>1. CASE j \in Pending(r)
    BY <1>1, <2>1, Records, UnleasedFacts DEF EInv, JobStatuses, Pending, PendingIn, Js
  <2>2. CASE j \notin Pending(r)
    BY <1>1, <2>2
  <2> QED BY <2>1, <2>2
<1>4. \A j \in Jobs : /\ Js(j)' = "succeeded" <=> Js(j) = "succeeded"
                      /\ Js(j)' = "absent" <=> Js(j) = "absent"
                      /\ SlotKept(j)
  BY <1>3 DEF TerminalJob, SlotKept, ProcessJob, Js
<1>5. RunFits(r)'
  <2>1. /\ ExecutesForRun(r)' /\ OrphansOfIncomplete(r)' /\ CancellingIsAsked(r)'
        /\ CancelledIsNotAsked(r)' /\ CompletedIsReviewed(r)'
    BY <1>2 DEF ExecutesForRun, OrphansOfIncomplete, CancellingIsAsked,
       CancelledIsNotAsked, CompletedIsReviewed
  <2>2. ReviewAfterMemos(r)'
    BY <1>1, <1>4, RunJobs DEF RunFits, ReviewAfterMemos
  <2> QED BY <2>1, <2>2 DEF RunFits
<1>6. RunPromised(r)
  <2>1. SameAccepted(r)
    BY <1>1, <1>4, RunJobs DEF SameAccepted
  <2>2. StatusMoves(r)
    BY <1>1, <1>2 DEF StatusMoves, Edges
  <2> QED BY <2>1, <2>2 DEF RunPromised
<1>7. SlotsKept
  BY <1>4 DEF SlotsKept
<1>8. \A j \in Jobs : j \notin JobsOf(r) =>
         Js(j)' = Js(j) /\ job'[j].attempt = job[j].attempt
  BY <1>3 DEF Js
<1>9. ActiveAttempts' = ActiveAttempts
  BY <1>1 DEF ActiveAttempts
<1> QED BY <1>1, <1>2, <1>5, <1>6, <1>7, <1>8, <1>9, OneRun

LEMMA LaunchFits ==
  ASSUME EInv, IInv', NEW c \in claims, Launch(c)
  PROVE  StepFits
<1> DEFINE j == c.job
<1>1. /\ j \in Jobs /\ job[j] \in JobRecords /\ RunOf(j) \in Runs
  BY Records DEF EInv
<1>2. /\ ~AtCapacity /\ Rs(RunOf(j)) = "running" /\ Js(j) = "leased"
  BY DEF Launch, CanReserve, FenceHolds, Rs, Js
<1>3. PICK o \in 1..MaxPhysicalLaunches, a \in AttemptIds :
        /\ IsFresh(a)
        /\ attempt' = [attempt EXCEPT ![a] =
             [status |-> "running", job |-> j, ordinal |-> o,
              replaces |-> IF Rewrites(c) THEN c.prior ELSE None]]
        /\ job' = [job EXCEPT ![j].status = "running", ![j].attempt = a]
  BY DEF Launch
<1>4. /\ Js(j)' = "running"
      /\ \A i \in Jobs : i # j =>
           Js(i)' = Js(i) /\ job'[i].attempt = job[i].attempt
  BY <1>1, <1>3, Records DEF EInv, JobRecords, Js
<1>5. \A s \in Runs : Rs(s)' = Rs(s)
  BY Records DEF EInv, RunRecords, Launch, Rs
<1>6. \A b \in ActiveAttempts' : b \in ActiveAttempts \/ attempt'[b].job = j
  BY <1>3, Records DEF EInv, ActiveAttempts
<1>7. ~Orphaned(j)'
  BY <1>4 DEF Orphaned
<1> HIDE DEF j
<1> QED BY <1>1, <1>2, <1>4, <1>5, <1>6, <1>7, OneJobMoves

LEMMA RejectForRewriteFits ==
  ASSUME EInv, IInv', NEW c \in claims, RejectForRewrite(c)
  PROVE  StepFits
<1> DEFINE j == c.job
<1>1. /\ j \in Jobs /\ job[j] \in JobRecords /\ RunOf(j) \in Runs
      /\ j \in JobsOf(RunOf(j))
  BY Records, JobsFacts DEF EInv
<1>2. /\ Js(j) = "running" /\ UNCHANGED run
  BY DEF RejectForRewrite, BindingActive, Js
<1>3. PICK o \in 1..MaxPhysicalLaunches, a \in AttemptIds :
        /\ IsFresh(a)
        /\ attempt' = [attempt EXCEPT
             ![c.current].status = "failed",
             ![a] = [status |-> "spawn-reserved", job |-> j, ordinal |-> o,
                     replaces |-> c.current]]
        /\ job' = [job EXCEPT ![j].status = "spawn-reserved", ![j].attempt = a]
  BY DEF RejectForRewrite
<1>4. /\ Js(j)' = "spawn-reserved"
      /\ \A i \in Jobs : i # j =>
           Js(i)' = Js(i) /\ job'[i].attempt = job[i].attempt
  BY <1>1, <1>3, Records DEF EInv, JobRecords, Js
<1>5. \A s \in Runs : Rs(s)' = Rs(s)
  BY <1>2 DEF Rs
<1>6. \A b \in ActiveAttempts' : b \in ActiveAttempts \/ attempt'[b].job = j
  <2>1. c.current \in AttemptIds
    BY DEF EInv, IInv, ClaimsNameTheirAttempts, RejectForRewrite, BindingActive, Launched
  <2>2. ASSUME NEW b \in AttemptIds, b # a, attempt'[b].status \in ActiveStatuses
        PROVE  b \in ActiveAttempts
    BY <1>3, <2>1, <2>2, Records DEF EInv, ActiveAttempts, ActiveStatuses, AttemptRecords
  <2>3. attempt'[a].job = j
    BY <1>3, <2>1, Records DEF EInv
  <2> QED BY <2>2, <2>3 DEF ActiveAttempts
<1>7. ~Orphaned(j)' /\ SlotKept(j)
  BY <1>2, <1>4 DEF Orphaned, SlotKept, ProcessJob
<1>8. Rs(RunOf(j)) \in {"running", "incomplete", "completed"}
  BY <1>1, <1>2 DEF EInv, RunFits, ExecutesForRun, ActiveStatuses
<1> HIDE DEF j
<1> QED BY <1>1, <1>2, <1>4, <1>5, <1>6, <1>7, <1>8, OneJobMoves

LEMMA MarkReplacementRunningFits ==
  ASSUME EInv, IInv', NEW c \in claims, MarkReplacementRunning(c)
  PROVE  StepFits
<1> DEFINE j == c.job
           a == c.current
           starts == job[j].attempt = a /\ job[j].status = "spawn-reserved"
           rec == [job[j] EXCEPT !.status = "running"]
<1>1. /\ j \in Jobs /\ job[j] \in JobRecords /\ RunOf(j) \in Runs
      /\ j \in JobsOf(RunOf(j)) /\ a \in AttemptIds
  BY Records, JobsFacts DEF EInv, IInv, ClaimsNameTheirAttempts,
     MarkReplacementRunning, Launched
<1>2. /\ attempt' = [attempt EXCEPT ![a].status =
                       IF @ = "spawn-reserved" THEN "running" ELSE @]
      /\ job' = [job EXCEPT ![j].status = IF starts THEN "running" ELSE @]
      /\ UNCHANGED run
  BY DEF MarkReplacementRunning
<1>3. ActiveAttempts' = ActiveAttempts
  <2> SUFFICES ASSUME NEW b \in AttemptIds
               PROVE  attempt'[b].status \in ActiveStatuses
                        <=> attempt[b].status \in ActiveStatuses
    BY DEF ActiveAttempts
  <2>1. CASE b = a
    BY <1>1, <1>2, <2>1, Records DEF EInv, AttemptRecords, ActiveStatuses
  <2>2. CASE b # a
    BY <1>1, <1>2, <2>2, Records DEF EInv
  <2> QED BY <2>1, <2>2
<1>4. \A s \in Runs : Rs(s)' = Rs(s)
  BY <1>2 DEF Rs
<1>5. CASE ~starts
  <2>1. job' = [job EXCEPT ![j].status = @]
    BY <1>2, <1>5
  <2>2. \A i \in Jobs : Js(i)' = Js(i) /\ job'[i].attempt = job[i].attempt
    BY <1>1, <2>1, Records DEF EInv, JobRecords, Js
  <2> QED BY <1>3, <1>4, <2>2, NothingMoves
<1>6. CASE starts
  <2>1. job' = [job EXCEPT ![j].status = "running"] /\ Js(j) = "spawn-reserved"
    BY <1>2, <1>6 DEF Js
  <2>2. job' = [job EXCEPT ![j] = rec]
    BY <2>1
  <2>3. rec.status = "running" /\ rec.attempt = job[j].attempt
    BY <1>1 DEF JobRecords
  <2>4. job'[j] = rec
    BY <1>1, <2>2, Records DEF EInv
  <2>5. rec \in JobRecords
    BY <1>1, <2>4 DEF IInv, TypeOK
  <2>6. Js(j) \in ActiveStatuses
    BY <2>1 DEF ActiveStatuses
  <2> HIDE DEF rec, starts, j
  <2> QED BY <1>1, <1>3, <1>4, <2>1, <2>2, <2>3, <2>5, <2>6, OneRecordMoves
<1> QED BY <1>5, <1>6

LEMMA RejectFinallyFits ==
  ASSUME EInv, IInv', NEW c \in claims, RejectFinally(c)
  PROVE  StepFits
<1> DEFINE j == c.job
           rec == Unleased(job[j], "failed")
<1>1. /\ j \in Jobs /\ job[j] \in JobRecords
      /\ rec \in JobRecords /\ rec.status = "failed"
      /\ rec.attempt = job[j].attempt
  BY Records, UnleasedFacts DEF EInv, JobStatuses
<1>2. /\ Js(j) = "running" /\ job[j].attempt = c.current /\ c.current \in AttemptIds
  <2>1. /\ c.current \in AttemptIds /\ attempt[c.current].job = j
        /\ attempt[c.current].status = "running" /\ Js(j) = "running"
    BY DEF EInv, IInv, ClaimsNameTheirAttempts, RejectFinally, BindingActive,
       Launched, Js
  <2>2. c.current \in ActiveAttempts
    BY <2>1 DEF ActiveAttempts, ActiveStatuses
  <2> QED BY <2>1, <2>2 DEF EInv, IInv, ActiveIsCurrent
<1>3. /\ job' = [job EXCEPT ![j] = rec]
      /\ attempt' = [attempt EXCEPT ![c.current].status = "failed"]
      /\ UNCHANGED run
  BY <1>2 DEF RejectFinally
<1>4. ActiveAttempts' \subseteq ActiveAttempts /\ c.current \notin ActiveAttempts'
  BY <1>2, <1>3, Records DEF EInv, ActiveAttempts, ActiveStatuses, AttemptRecords
<1>5. \A s \in Runs : Rs(s)' = Rs(s)
  BY <1>3 DEF Rs
<1>6. "failed" \notin ProcessJob
  BY DEF ProcessJob
<1> HIDE DEF rec, j
<1> QED BY <1>1, <1>2, <1>3, <1>4, <1>5, <1>6, OneRecordMoves

\* What a running job says of its run: it still may be accepted.
LEMMA RunningJob ==
  ASSUME EInv, NEW j \in Jobs, Js(j) = "running", KeyOf(j) \in Outputs
  PROVE  Rs(RunOf(j)) \in {"running", "incomplete"}
<1> DEFINE r == RunOf(j)
<1>1. r \in Runs /\ j \in JobsOf(r) /\ j = <<r, KeyOf(j)>> /\ RunFits(r)
  BY JobsFacts DEF EInv, JobsOf, KeyOf, RunOf
<1>2. Rs(r) \in {"running", "incomplete", "completed"}
  BY <1>1 DEF RunFits, ExecutesForRun, ActiveStatuses
<1>3. ASSUME Rs(r) = "completed"
      PROVE  FALSE
  <2>1. Js(<<r, ReviewKey>>) = "succeeded"
    BY <1>1, <1>3 DEF RunFits, CompletedIsReviewed
  <2>2. \A k \in MemoKeys : Js(<<r, k>>) = "succeeded"
    BY <1>1, <2>1 DEF RunFits, ReviewAfterMemos
  <2> QED BY <1>1, <2>1, <2>2 DEF Outputs
<1> QED BY <1>2, <1>3

LEMMA CommitAcceptedOutputFits ==
  ASSUME EInv, IInv', NEW c \in claims, CommitAcceptedOutput(c)
  PROVE  StepFits
<1> DEFINE j == c.job
           r == RunOf(j)
           k == KeyOf(j)
           rec == Unleased(job[j], "succeeded")
<1>1. /\ j \in Jobs /\ job[j] \in JobRecords /\ r \in Runs /\ j \in JobsOf(r)
      /\ j = <<r, k>> /\ k \in Keys /\ JobsOf(r) \subseteq Jobs /\ RunFits(r)
  BY Records, JobsFacts DEF EInv, Jobs, KeyOf, RunOf
<1>2. /\ Js(j) = "running" /\ k # CollectionKey
      /\ job' = [job EXCEPT ![j] = rec]
      /\ attempt' = [attempt EXCEPT ![c.current].status = "succeeded"]
      /\ UNCHANGED run
  BY DEF CommitAcceptedOutput, BindingActive, Js
<1>3. k \in Outputs
  BY <1>1, <1>2 DEF Keys, Outputs
<1>4. Rs(r) \in {"running", "incomplete"}
  BY <1>1, <1>2, <1>3, RunningJob
<1>5. rec.status = "succeeded" /\ rec.attempt = job[j].attempt
  BY <1>1, UnleasedFacts DEF JobStatuses
<1> HIDE DEF rec, j, r, k
<1>6. /\ Js(j)' = "succeeded" /\ job'[j].attempt = job[j].attempt
      /\ \A i \in Jobs : i # j => job'[i] = job[i]
  BY <1>1, <1>2, <1>5, Records DEF EInv, Js
<1>7. \A i \in Jobs : i # j => Js(i)' = Js(i) /\ job'[i].attempt = job[i].attempt
  BY <1>6 DEF Js
<1>8. ActiveAttempts' \subseteq ActiveAttempts
  BY <1>2, Records DEF EInv, ActiveAttempts, ActiveStatuses, AttemptRecords
<1>9. \A s \in Runs : Rs(s)' = Rs(s)
  BY <1>2 DEF Rs
<1>10. RunFits(r)'
  <2>1. ExecutesForRun(r)' /\ CancellingIsAsked(r)' /\ CancelledIsNotAsked(r)'
        /\ CompletedIsReviewed(r)'
    BY <1>1, <1>4, <1>9 DEF ExecutesForRun, CancellingIsAsked,
       CancelledIsNotAsked, CompletedIsReviewed, RunFits, Js, ActiveStatuses
  <2>2. OrphansOfIncomplete(r)'
    <3> SUFFICES ASSUME NEW i \in JobsOf(r), Orphaned(i)'
                 PROVE  Rs(r)' = "incomplete"
      BY DEF OrphansOfIncomplete
    <3>1. i # j /\ i \in Jobs
      BY <1>1, <1>6 DEF Orphaned
    <3>2. Orphaned(i)
      BY <1>7, <1>8, <3>1 DEF Orphaned
    <3> QED BY <1>1, <1>9, <3>2 DEF RunFits, OrphansOfIncomplete
  <2>3. ReviewAfterMemos(r)'
    <3> SUFFICES ASSUME Js(<<r, ReviewKey>>)' # "absent", NEW m \in MemoKeys
                 PROVE  Js(<<r, m>>)' = "succeeded"
      BY DEF ReviewAfterMemos
    <3>1. <<r, ReviewKey>> \in Jobs /\ <<r, m>> \in Jobs
      BY <1>1, RunJobs
    <3>2. Js(<<r, ReviewKey>>) # "absent"
      BY <1>2, <1>7, <3>1
    <3>3. Js(<<r, m>>) = "succeeded"
      BY <1>1, <3>2 DEF RunFits, ReviewAfterMemos
    <3> QED BY <1>6, <1>7, <3>1, <3>3
  <2> QED BY <2>1, <2>2, <2>3 DEF RunFits
<1>11. AcceptsOne(r)
  <2>1. /\ k \in Outputs /\ Js(<<r, k>>) # "succeeded" /\ Js(<<r, k>>)' = "succeeded"
    BY <1>1, <1>2, <1>3, <1>6
  <2>2. \A m \in Outputs : m # k =>
          (Js(<<r, m>>)' = "succeeded" <=> Js(<<r, m>>) = "succeeded")
    <3> SUFFICES ASSUME NEW m \in Outputs, m # k
                 PROVE  Js(<<r, m>>)' = Js(<<r, m>>)
      OBVIOUS
    <3>1. <<r, m>> \in Jobs /\ <<r, m>> # j
      BY <1>1, RunJobs
    <3> QED BY <1>7, <3>1
  <2>3. k = ReviewKey => \A m \in MemoKeys : Js(<<r, m>>) = "succeeded"
    BY <1>1, <1>2 DEF RunFits, ReviewAfterMemos
  <2> QED BY <1>1, <1>4, <1>9, <2>1, <2>2, <2>3 DEF AcceptsOne
<1>12. SlotsKept
  BY <1>6, <1>7 DEF SlotsKept, SlotKept, ProcessJob
<1>13. /\ \A i \in Jobs : i \notin JobsOf(r) =>
            Js(i)' = Js(i) /\ job'[i].attempt = job[i].attempt
       /\ \A s \in Runs : s # r => Rs(s)' = Rs(s)
       /\ RunPromised(r)
  BY <1>1, <1>7, <1>9, <1>11 DEF RunPromised
<1> QED BY <1>1, <1>8, <1>10, <1>12, <1>13, OneRun

\* A job of a run ends, accepted only when it is no output, and its run may end
\* with it: the engine's commits.
LEMMA EngineCommits ==
  ASSUME EInv, IInv', NEW j \in Jobs, NEW rec \in JobRecords, NEW r \in Runs,
         r = RunOf(j), job' = [job EXCEPT ![j] = rec],
         rec.attempt = job[j].attempt, rec.attempt \notin ActiveAttempts',
         Js(j) \in {"running", "cancel-requested"},
         rec.status \in {"succeeded", "failed", "cancelled", "retry-wait"},
         rec.status = "succeeded" => KeyOf(j) = CollectionKey,
         ActiveAttempts' \subseteq ActiveAttempts,
         \A s \in Runs : s # r => Rs(s)' = Rs(s),
         \/ Rs(r)' = Rs(r) /\ Rs(r) # "cancelling"
         \/ /\ Rs(r) = "running" /\ Rs(r)' \in {"failed", "incomplete"}
            /\ \A i \in JobsOf(r) : Js(i)' \notin ActiveStatuses
         \/ Rs(r) = "cancelling" /\ Rs(r)' = CancelledWhenDone(r, job')
  PROVE  StepFits
<1>1. /\ job[j] \in JobRecords /\ j \in JobsOf(r) /\ JobsOf(r) \subseteq Jobs
      /\ j = <<r, KeyOf(j)>> /\ RunFits(r)
  BY Records, JobsFacts DEF EInv, Jobs, KeyOf, RunOf
<1>2. /\ Js(j)' = rec.status /\ job'[j].attempt = job[j].attempt
      /\ \A i \in Jobs : i # j => job'[i] = job[i]
  BY Records DEF EInv, Js
<1>3. \A i \in Jobs : i # j => Js(i)' = Js(i) /\ job'[i].attempt = job[i].attempt
  BY <1>2 DEF Js
<1>4. ~Orphaned(j)'
  BY <1>2 DEF Orphaned
<1>5. \/ Rs(r)' = Rs(r)
      \/ Rs(r) = "running" /\ Rs(r)' \in {"failed", "incomplete"}
      \/ Rs(r) = "cancelling" /\ Rs(r)' = "cancelled"
  BY DEF CancelledWhenDone, Rs
<1>6. \A k \in Outputs : /\ Js(<<r, k>>)' = "succeeded" <=> Js(<<r, k>>) = "succeeded"
                         /\ Js(<<r, k>>)' = "absent" <=> Js(<<r, k>>) = "absent"
  <2> SUFFICES ASSUME NEW k \in Outputs
               PROVE  /\ Js(<<r, k>>)' = "succeeded" <=> Js(<<r, k>>) = "succeeded"
                      /\ Js(<<r, k>>)' = "absent" <=> Js(<<r, k>>) = "absent"
    OBVIOUS
  <2>1. <<r, k>> \in Jobs /\ k # CollectionKey
    BY <1>1, RunJobs
  <2>2. CASE <<r, k>> = j
    <3>1. rec.status # "succeeded"
      BY <1>1, <2>1, <2>2
    <3> QED BY <1>2, <2>2, <3>1
  <2>3. CASE <<r, k>> # j
    BY <1>3, <2>1, <2>3
  <2> QED BY <2>2, <2>3
<1>7. RunFits(r)'
  <2>1. ExecutesForRun(r)'
    <3> SUFFICES ASSUME NEW i \in JobsOf(r), Js(i)' \in ActiveStatuses
                 PROVE  Rs(r)' \in {"running", "incomplete", "completed"}
      BY DEF ExecutesForRun
    <3>1. i # j /\ i \in Jobs
      BY <1>1, <1>2 DEF ActiveStatuses
    <3>2. Js(i) \in ActiveStatuses
      BY <1>3, <3>1
    <3>3. Rs(r) \in {"running", "incomplete", "completed"}
      BY <1>1, <3>2 DEF RunFits, ExecutesForRun
    <3> QED BY <1>5, <3>3
  <2>2. OrphansOfIncomplete(r)'
    <3> SUFFICES ASSUME NEW i \in JobsOf(r), Orphaned(i)'
                 PROVE  Rs(r)' = "incomplete"
      BY DEF OrphansOfIncomplete
    <3>1. i # j /\ i \in Jobs
      BY <1>1, <1>4
    <3>2. Orphaned(i)
      BY <1>3, <3>1 DEF Orphaned
    <3>3. Rs(r) = "incomplete"
      BY <1>1, <3>2 DEF RunFits, OrphansOfIncomplete
    <3> QED BY <1>5, <3>3
  <2>3. CancellingIsAsked(r)'
    <3> SUFFICES ASSUME Rs(r)' = "cancelling"
                 PROVE  \E i \in JobsOf(r) : Js(i)' = "cancel-requested"
      BY DEF CancellingIsAsked
    <3>1. Rs(r) = "cancelling" /\ Rs(r)' = CancelledWhenDone(r, job')
      BY <1>5
    <3> QED BY <3>1 DEF CancelledWhenDone, Rs, Js
  <2>4. CancelledIsNotAsked(r)'
    <3> SUFFICES ASSUME Rs(r)' \in {"cancelling", "cancelled"}, NEW i \in JobsOf(r)
                 PROVE  Js(i)' \notin {"queued", "leased"}
      BY DEF CancelledIsNotAsked
    <3>1. Rs(r) \in {"cancelling", "cancelled"}
      BY <1>5
    <3>2. Js(i) \notin {"queued", "leased"}
      BY <1>1, <3>1 DEF RunFits, CancelledIsNotAsked
    <3> QED BY <1>1, <1>2, <1>3, <3>2
  <2>5. ReviewAfterMemos(r)'
    BY <1>1, <1>6, RunJobs DEF RunFits, ReviewAfterMemos
  <2>6. CompletedIsReviewed(r)'
    BY <1>1, <1>5, <1>6, RunJobs DEF RunFits, CompletedIsReviewed
  <2> QED BY <2>1, <2>2, <2>3, <2>4, <2>5, <2>6 DEF RunFits
<1>8. RunPromised(r)
  <2>1. SameAccepted(r)
    BY <1>6 DEF SameAccepted
  <2>2. StatusMoves(r)
    BY <1>5 DEF StatusMoves, Edges
  <2> QED BY <2>1, <2>2 DEF RunPromised
<1>9. SlotsKept
  BY <1>2, <1>3 DEF SlotsKept, SlotKept, ProcessJob
<1>10. \A i \in Jobs : i \notin JobsOf(r) =>
          Js(i)' = Js(i) /\ job'[i].attempt = job[i].attempt
  BY <1>1, <1>3
<1> QED BY <1>7, <1>8, <1>9, <1>10, OneRun

LEMMA CommitRequestedCancellationFits ==
  ASSUME EInv, IInv', NEW c \in claims, CommitRequestedCancellation(c)
  PROVE  StepFits
<1> DEFINE j == c.job
           r == RunOf(j)
           rec == Unleased(job[j], "cancelled")
           to == CancelledWhenDone(r, job')
<1>1. /\ j \in Jobs /\ job[j] \in JobRecords /\ r \in Runs
      /\ rec \in JobRecords /\ rec.status = "cancelled"
      /\ rec.attempt = job[j].attempt
  BY Records, UnleasedFacts DEF EInv, JobStatuses
<1>2. /\ Js(j) = "cancel-requested" /\ job[j].attempt = c.attempt
      /\ job' = [job EXCEPT ![j] = rec]
      /\ run' = [run EXCEPT ![r].status = to]
  BY DEF CommitRequestedCancellation, CancelCommits, Js
<1>3. attempt' = [attempt EXCEPT ![c.attempt].status =
                    IF @ \in ActiveStatuses THEN "cancelled" ELSE @]
  BY DEF CommitRequestedCancellation
<1>4. c.attempt \in AttemptIds
  BY <1>1, <1>2, ExecutingHasAttempt DEF EInv, ProcessJob
<1>5. ActiveAttempts' \subseteq ActiveAttempts /\ c.attempt \notin ActiveAttempts'
  BY <1>3, <1>4, Records DEF EInv, ActiveAttempts, ActiveStatuses, AttemptRecords
<1>6. Rs(r) = "cancelling"
  BY <1>1, <1>2 DEF EInv, IInv, CancelOnlyWhileCancelling, Js, Rs
<1> HIDE DEF rec, j, r, to
<1>7. Rs(r)' = to /\ \A s \in Runs : s # r => Rs(s)' = Rs(s)
  BY <1>1, <1>2, Records DEF EInv, RunRecords, Rs
<1>8. Rs(r)' = CancelledWhenDone(r, job') /\ r = RunOf(j)
  BY <1>7 DEF to, r
<1> QED BY <1>1, <1>2, <1>5, <1>6, <1>7, <1>8, EngineCommits

LEMMA CommitAttemptFits ==
  ASSUME EInv, IInv', NEW c \in claims, NEW outcome \in Outcomes(c),
         CommitAttempt(c, outcome)
  PROVE  StepFits
<1> DEFINE j == c.job
           r == RunOf(j)
           status == JobStatusAfter(outcome)
           retried == [job[j] EXCEPT !.class =
                         IF status = "retry-wait" THEN outcome ELSE @]
           rec == Unleased(retried, status)
           permanent == run[r].permanent \/ outcome = "permanent"
           to == IF ExhaustedIn(job', r) THEN ExhaustedStatus(permanent)
                 ELSE run[r].status
<1>1. /\ j \in Jobs /\ job[j] \in JobRecords /\ r \in Runs /\ j \in JobsOf(r)
      /\ JobsOf(r) \subseteq Jobs /\ RunFits(r)
  BY Records, JobsFacts DEF EInv
<1>2. /\ job' = [job EXCEPT ![j] = rec]
      /\ run' = [run EXCEPT ![r].permanent = permanent, ![r].status = to]
      /\ Js(j) = "running" /\ job[j].attempt = c.attempt
  BY DEF CommitAttempt, CommitFenceHolds, Js
<1>3. attempt' = [attempt EXCEPT ![c.attempt].status =
          IF @ # "running" THEN @
          ELSE IF outcome = "accepted" THEN "succeeded" ELSE "failed"]
  BY DEF CommitAttempt
<1>4. outcome \in {"accepted", "transient", "repair", "permanent", "incomplete"}
      /\ (outcome = "accepted" => c.phase = "released")
  BY DEF Outcomes
<1>5. /\ status \in {"succeeded", "failed", "retry-wait"}
      /\ status = "succeeded" => KeyOf(j) = CollectionKey
      /\ status = "retry-wait" => outcome \in Classes
  BY <1>4 DEF JobStatusAfter, EInv, CollectionsCollect, Classes
<1>6. retried \in JobRecords /\ retried.attempt = job[j].attempt
  <2> DEFINE class == IF status = "retry-wait" THEN outcome ELSE job[j].class
  <2>1. class \in Classes
    BY <1>1, <1>5 DEF JobRecords
  <2>2. retried = [job[j] EXCEPT !.class = class]
    OBVIOUS
  <2> HIDE DEF class
  <2> QED BY <1>1, <2>1, <2>2 DEF JobRecords
<1>7. rec \in JobRecords /\ rec.status = status /\ rec.attempt = job[j].attempt
  <2>1. status \in JobStatuses
    BY <1>5 DEF JobStatuses
  <2> HIDE DEF status, retried
  <2> QED BY <1>6, <2>1, UnleasedFacts
<1>8. c.attempt \in AttemptIds /\ attempt[c.attempt].status = "running"
  BY <1>1, <1>2, ExecutingHasAttempt DEF EInv, IInv, ExecutingIsActive, ProcessJob, Js
<1>9. ActiveAttempts' \subseteq ActiveAttempts /\ c.attempt \notin ActiveAttempts'
  BY <1>3, <1>8, Records DEF EInv, ActiveAttempts, ActiveStatuses, AttemptRecords
<1>10. to = Rs(r) \/ /\ Rs(r) = "running" /\ to \in {"failed", "incomplete"}
                     /\ PendingIn(job', r) = {}
  BY DEF ExhaustedIn, ExhaustedStatus, Rs
<1>11. Rs(r) # "cancelling"
  BY <1>1, <1>2 DEF RunFits, ExecutesForRun, ActiveStatuses
<1> HIDE DEF rec, j, r, to, status, retried, permanent
<1>12. Rs(r)' = to /\ \A s \in Runs : s # r => Rs(s)' = Rs(s)
  BY <1>1, <1>2, Records DEF EInv, RunRecords, Rs
<1>13. PendingIn(job', r) = {} => \A i \in JobsOf(r) : Js(i)' \notin ActiveStatuses
  BY DEF PendingIn, Js, ActiveStatuses, TerminalJob
<1>14. \/ Rs(r)' = Rs(r) /\ Rs(r) # "cancelling"
       \/ /\ Rs(r) = "running" /\ Rs(r)' \in {"failed", "incomplete"}
          /\ \A i \in JobsOf(r) : Js(i)' \notin ActiveStatuses
  BY <1>10, <1>11, <1>12, <1>13
<1>15. r = RunOf(j)
  BY DEF r
<1> QED BY <1>1, <1>2, <1>5, <1>7, <1>9, <1>12, <1>14, <1>15, EngineCommits

\* Recovery withdraws what its owner asked to cancel and requeues what was lost,
\* in every run at once; a run that still has something to report stays asked.
LEMMA RecoverExpiredFits ==
  ASSUME EInv, IInv', RecoverExpired
  PROVE  StepFits
<1> DEFINE runs == {r \in Runs : \E a \in ActiveAttempts :
                      attempt[a].job \in JobsOf(r) /\ CancelExpired(attempt[a].job)}
           withdrawn(j) == runs # {} /\ CancelExpired(j)
           cancelled == [j \in Jobs |-> IF withdrawn(j)
                           THEN Unleased(job[j], "cancelled") ELSE job[j]]
           lost(j) == /\ job[j].attempt # None
                      /\ attempt'[job[j].attempt].status = "unknown"
           waiting(j) == Unleased(cancelled[j], "retry-wait")
           requeued(j) == [waiting(j) EXCEPT !.class = "transient"]
<1>1. attempt' = [a \in AttemptIds |->
        IF a \notin ExpiredAttempts THEN attempt[a]
        ELSE [attempt[a] EXCEPT !.status =
                IF withdrawn(attempt[a].job) THEN "cancelled" ELSE "unknown"]]
  BY DEF RecoverExpired
<1>2. job' = [j \in Jobs |-> IF lost(j) THEN requeued(j) ELSE cancelled[j]]
  BY <1>1 DEF RecoverExpired
<1>3. run' = [r \in Runs |-> [run[r] EXCEPT !.status =
                IF r \in runs THEN CancelledWhenDone(r, cancelled) ELSE run[r].status]]
  BY DEF RecoverExpired
<1>4. IInv
  BY DEF EInv
<1>5. ASSUME NEW j \in Jobs
      PROVE  /\ cancelled[j] \in JobRecords
             /\ cancelled[j].attempt = job[j].attempt
             /\ withdrawn(j) => cancelled[j].status = "cancelled"
             /\ ~withdrawn(j) => cancelled[j] = job[j]
  <2>1. CASE withdrawn(j)
    BY <1>4, <2>1, Records, UnleasedFacts DEF JobStatuses
  <2>2. CASE ~withdrawn(j)
    BY <1>4, <2>2, Records
  <2> QED BY <2>1, <2>2
<1>6. ASSUME NEW j \in Jobs
      PROVE  requeued(j).attempt = job[j].attempt /\ requeued(j).status = "retry-wait"
  <2>1. /\ waiting(j) \in JobRecords
        /\ waiting(j).attempt = job[j].attempt
        /\ waiting(j).status = "retry-wait"
    <3> HIDE DEF cancelled
    <3> QED BY <1>5, UnleasedFacts DEF JobStatuses
  <2> HIDE DEF waiting
  <2> QED BY <2>1 DEF JobRecords, Classes
<1> HIDE DEF cancelled, requeued
<1>7. ASSUME NEW a \in AttemptIds
      PROVE  attempt'[a].status =
               IF a \notin ExpiredAttempts THEN attempt[a].status
               ELSE IF withdrawn(attempt[a].job) THEN "cancelled" ELSE "unknown"
  <2> HIDE DEF withdrawn
  <2> QED BY <1>1, <1>4, Records DEF AttemptRecords
<1>8. ASSUME NEW j \in Jobs
      PROVE  /\ job'[j].attempt = job[j].attempt
             /\ lost(j) => Js(j)' = "retry-wait"
             /\ ~lost(j) /\ withdrawn(j) => Js(j)' = "cancelled"
             /\ ~lost(j) /\ ~withdrawn(j) => Js(j)' = Js(j)
  BY <1>2, <1>5, <1>6 DEF Js
<1>9. ActiveAttempts' \subseteq ActiveAttempts
  BY <1>7 DEF ActiveAttempts, ActiveStatuses
<1>10. ASSUME NEW j \in Jobs
       PROVE  /\ withdrawn(j) => Js(j) = "cancel-requested"
              /\ lost(j) => Js(j) \notin {"succeeded", "absent", "cancel-requested"}
              /\ CancelExpired(j) => withdrawn(j) /\ RunOf(j) \in runs
  <2> DEFINE a == job[j].attempt
  <2>1. a # None => a \in AttemptIds /\ attempt[a].job = j /\ Exists(a)
    BY <1>4, Records DEF IInv, PointersResolve, JobRecords
  <2>2. Js(j) = "cancel-requested" =>
          /\ a \in ActiveAttempts /\ a \in AttemptIds /\ attempt[a].job = j
          /\ Rs(RunOf(j)) = "cancelling"
    BY <1>4, ExecutingHasAttempt DEF IInv, CancelOnlyWhileCancelling, ProcessJob, Js, Rs
  <2>3. CancelExpired(j) => withdrawn(j) /\ RunOf(j) \in runs
    BY <2>2, JobsFacts DEF CancelExpired, Js
  <2>4. lost(j) => Js(j) # "succeeded"
    BY <1>4, <1>7, <2>1 DEF IInv, AcceptedOnce, Js, ExpiredAttempts, ActiveAttempts,
       ActiveStatuses
  <2>5. lost(j) => Js(j) # "absent"
    BY <1>4, <2>1 DEF IInv, AttemptsHaveJobs, Js
  <2>6. ASSUME lost(j), Js(j) = "cancel-requested"
        PROVE  FALSE
    <3>1. a \in ExpiredAttempts /\ ~withdrawn(j)
      BY <1>7, <2>2, <2>6 DEF ActiveAttempts, ActiveStatuses
    <3>2. CancelExpired(j)
      BY <2>2, <2>6, <3>1 DEF CancelExpired, ExpiredAttempts, Js, Rs
    <3> QED BY <2>3, <3>1, <3>2
  <2>7. withdrawn(j) => Js(j) = "cancel-requested"
    BY DEF CancelExpired, Js
  <2> QED BY <2>3, <2>4, <2>5, <2>6, <2>7
<1>11. ASSUME NEW r \in Runs
       PROVE  /\ r \in runs => Rs(r)' = CancelledWhenDone(r, cancelled)
              /\ r \notin runs => Rs(r)' = Rs(r)
  <2> DEFINE status == IF r \in runs THEN CancelledWhenDone(r, cancelled)
                       ELSE run[r].status
  <2>1. run'[r] = [run[r] EXCEPT !.status = status]
    BY <1>3
  <2>2. run'[r].status = status
    <3> HIDE DEF status
    <3> QED BY <1>4, <2>1, Records DEF RunRecords
  <2> QED BY <2>2 DEF Rs
<1>12. \A j \in Jobs :
         /\ Js(j)' = "succeeded" <=> Js(j) = "succeeded"
         /\ Js(j)' = "absent" <=> Js(j) = "absent"
         /\ Js(j)' \notin {"retry-wait", "cancelled"} => Js(j)' = Js(j)
  <2> HIDE DEF withdrawn, lost
  <2> QED BY <1>8, <1>10
<1>13. ASSUME NEW r \in Runs
       PROVE  \/ Rs(r)' = Rs(r)
              \/ Rs(r) = "cancelling" /\ Rs(r)' = "cancelled"
  BY <1>11 DEF CancelledWhenDone, Rs
<1>14. ASSUME NEW r \in Runs
       PROVE  CancellingIsAsked(r)'
  <2> SUFFICES ASSUME Rs(r)' = "cancelling"
               PROVE  \E j \in JobsOf(r) : Js(j)' = "cancel-requested"
    BY DEF CancellingIsAsked
  <2>1. Rs(r) = "cancelling"
    BY <1>13
  <2>2. PICK j \in JobsOf(r) : Js(j) = "cancel-requested" /\ ~withdrawn(j)
    <3>1. CASE r \in runs
      <4>1. PICK j \in JobsOf(r) : cancelled[j].status = "cancel-requested"
        BY <1>11, <2>1, <3>1 DEF CancelledWhenDone, Rs
      <4>2. j \in Jobs
        BY JobsFacts
      <4>3. ~withdrawn(j)
        <5> HIDE DEF withdrawn
        <5> QED BY <1>5, <4>1, <4>2
      <4> QED BY <1>5, <4>1, <4>2, <4>3 DEF Js
    <3>2. CASE r \notin runs
      <4>1. PICK j \in JobsOf(r) : Js(j) = "cancel-requested"
        BY <2>1 DEF EInv, RunFits, CancellingIsAsked
      <4>2. j \in Jobs /\ RunOf(j) = r
        BY JobsFacts
      <4>3. ~CancelExpired(j)
        BY <1>10, <3>2, <4>2
      <4> QED BY <4>1, <4>3
    <3> QED BY <3>1, <3>2
  <2>3. j \in Jobs
    BY JobsFacts
  <2> HIDE DEF withdrawn, lost
  <2>4. ~lost(j)
    BY <1>10, <2>2, <2>3
  <2> QED BY <1>8, <2>2, <2>3, <2>4
<1> HIDE DEF runs, withdrawn, lost
<1>15. ASSUME NEW r \in Runs
       PROVE  RunFits(r)' /\ RunPromised(r)
  <2>1. RunFits(r) /\ JobsOf(r) \subseteq Jobs
    BY JobsFacts DEF EInv
  <2>2. ExecutesForRun(r)'
    <3> SUFFICES ASSUME NEW j \in JobsOf(r), Js(j)' \in ActiveStatuses
                 PROVE  Rs(r)' \in {"running", "incomplete", "completed"}
      BY DEF ExecutesForRun
    <3>1. Js(j) \in ActiveStatuses
      BY <1>12, <2>1 DEF ActiveStatuses
    <3>2. Rs(r) \in {"running", "incomplete", "completed"}
      BY <2>1, <3>1 DEF RunFits, ExecutesForRun
    <3> QED BY <1>13, <3>2
  <2>3. OrphansOfIncomplete(r)'
    <3> SUFFICES ASSUME NEW j \in JobsOf(r), Orphaned(j)'
                 PROVE  Rs(r)' = "incomplete"
      BY DEF OrphansOfIncomplete
    <3>1. Orphaned(j)
      BY <1>8, <1>9, <1>12, <2>1 DEF Orphaned
    <3>2. Rs(r) = "incomplete"
      BY <2>1, <3>1 DEF RunFits, OrphansOfIncomplete
    <3> QED BY <1>13, <3>2
  <2>4. CancelledIsNotAsked(r)'
    <3> SUFFICES ASSUME Rs(r)' \in {"cancelling", "cancelled"}, NEW j \in JobsOf(r)
                 PROVE  Js(j)' \notin {"queued", "leased"}
      BY DEF CancelledIsNotAsked
    <3>1. Rs(r) \in {"cancelling", "cancelled"}
      BY <1>13
    <3>2. Js(j) \notin {"queued", "leased"}
      BY <2>1, <3>1 DEF RunFits, CancelledIsNotAsked
    <3> QED BY <1>12, <2>1, <3>2
  <2>5. ReviewAfterMemos(r)'
    BY <1>12, <2>1, RunJobs DEF RunFits, ReviewAfterMemos
  <2>6. CompletedIsReviewed(r)'
    BY <1>12, <1>13, <2>1, RunJobs DEF RunFits, CompletedIsReviewed
  <2>7. SameAccepted(r)
    BY <1>12, <2>1, RunJobs DEF SameAccepted
  <2>8. StatusMoves(r)
    BY <1>13 DEF StatusMoves, Edges
  <2> QED BY <1>14, <2>2, <2>3, <2>4, <2>5, <2>6, <2>7, <2>8 DEF RunFits, RunPromised
<1>16. SlotsKept
  BY <1>12 DEF SlotsKept, SlotKept, ProcessJob
<1> QED BY <1>15, <1>16 DEF StepFits

-----------------------------------------------------------------------------
(* Every step. *)

Collecting == {"prepared", "staged", "released"}

LEMMA CollectionsStay ==
  ASSUME EInv, IInv', [Next]_vars
  PROVE  CollectionsCollect'
<1> SUFFICES ASSUME NEW e \in claims', e.phase \in Collecting
             PROVE  e \in claims \/ KeyOf(e.job) = CollectionKey
  BY DEF EInv, CollectionsCollect, Collecting, KeyOf
<1>1. ASSUME NEW c \in claims, NEW phase \in Phases, Advance(c, phase)
      PROVE  \/ e \in claims
             \/ e.phase = phase /\ e.job = c.job
  <2>1. c \in Claims
    BY DEF EInv, IInv, TypeOK
  <2> QED BY <1>1, <2>1 DEF Advance, Claims
<1>2. ASSUME NEW r \in Runs,
             \/ Create(r) \/ CancelResearchRun(r) \/ RetryResearchRun(r)
             \/ ActivateNextRun(r) \/ StageReview(r)
             \/ PublishReport(r) \/ TerminalizeWorkflowFailure(r)
      PROVE  e \in claims
  BY <1>2 DEF Create, CancelResearchRun, RetryResearchRun, ActivateNextRun,
     StageReview, PublishReport, TerminalizeWorkflowFailure
<1>3. ASSUME NEW w \in Workers, NEW j \in Jobs, Claim(w, j)
      PROVE  e \in claims
  BY <1>3 DEF Claim, Collecting
<1>4. ASSUME NEW c \in claims, Poll(c)
      PROVE  e \in claims
  <2>1. CASE ReserveAtCapacity(c)
    <3>1. "releasing" \in Phases
      BY DEF Phases
    <3> QED BY <1>1, <2>1, <3>1 DEF ReserveAtCapacity, Collecting
  <2>2. CASE Launch(c)
    <3>1. c \in Claims
      BY DEF EInv, IInv, TypeOK
    <3>2. PICK a \in AttemptIds : claims' = (claims \ {c}) \cup
            {[c EXCEPT !.phase = "running", !.attempt = a, !.current = a]}
      BY <2>2 DEF Launch
    <3>3. [c EXCEPT !.phase = "running", !.attempt = a, !.current = a].phase
            = "running"
      BY <3>1 DEF Claims
    <3> QED BY <3>2, <3>3 DEF Collecting
  <2> QED BY <1>4, <2>1, <2>2 DEF Poll, ReserveDeclined, ReserveExhausted,
          ReserveThrows, Release, Drop
<1>5. ASSUME NEW c \in claims, Handle(c)
      PROVE  e \in claims \/ KeyOf(e.job) = CollectionKey
  <2>1. CASE \/ PersistJobs(c) \/ StageSpecialists(c)
             \/ ReleaseSystemCollectionReservation(c)
    <3>1. /\ KeyOf(c.job) = CollectionKey
          /\ \E phase \in Phases : Advance(c, phase)
      BY <2>1 DEF PersistJobs, StageSpecialists, Phases,
         ReleaseSystemCollectionReservation, Collects
    <3> QED BY <1>1, <3>1
  <2>2. CASE RejectForRewrite(c)
    <3>1. c \in Claims
      BY DEF EInv, IInv, TypeOK
    <3>2. PICK a \in AttemptIds : claims' = (claims \ {c}) \cup
            {[c EXCEPT !.phase = "rejected", !.current = a]}
      BY <2>2 DEF RejectForRewrite
    <3>3. [c EXCEPT !.phase = "rejected", !.current = a].phase = "rejected"
      BY <3>1 DEF Claims
    <3> QED BY <3>2, <3>3 DEF Collecting
  <2>3. CASE ConsumeReplacementBudget(c) \/ MarkReplacementRunning(c)
    <3>1. \/ Drop(c)
          \/ \E phase \in Phases \ Collecting : Advance(c, phase)
      BY <2>3 DEF ConsumeReplacementBudget, MarkReplacementRunning, Phases,
         Collecting
    <3> QED BY <1>1, <3>1 DEF Drop
  <2>4. CASE CommitAcceptedOutput(c) \/ RejectFinally(c)
    BY <2>4 DEF CommitAcceptedOutput, RejectFinally, Drop
  <2> QED BY <1>5, <2>1, <2>2, <2>3, <2>4 DEF Handle
<1>6. ASSUME NEW c \in claims, Commit(c) \/ Heartbeat(c)
      PROVE  e \in claims
  BY <1>6 DEF Commit, CommitRequestedCancellation, CommitAttempt, CommitStale,
     Drop, Heartbeat
<1>7. CASE RecoverExpired
  BY <1>7 DEF RecoverExpired
<1>8. ASSUME NEW w \in Workers, Crash(w) \/ Shutdown(w) \/ Restart(w)
      PROVE  e \in claims
  BY <1>8 DEF Crash, Shutdown, Restart
<1>9. ASSUME NEW j \in Jobs, LeaseTick(j)
      PROVE  e \in claims
  BY <1>9 DEF LeaseTick
<1>10. CASE UNCHANGED vars
  BY <1>10 DEF vars
<1> QED BY <1>2, <1>3, <1>4, <1>5, <1>6, <1>7, <1>8, <1>9, <1>10 DEF Next

LEMMA EveryStepFits ==
  ASSUME EInv, [Next]_vars
  PROVE  StepFits
<1>1. IInv'
  BY NextKeeps DEF EInv
<1>2. ASSUME NEW r \in Runs,
             \/ Create(r) \/ CancelResearchRun(r) \/ RetryResearchRun(r)
             \/ ActivateNextRun(r) \/ StageReview(r)
             \/ PublishReport(r) \/ TerminalizeWorkflowFailure(r)
      PROVE  StepFits
  <2>1. CASE Create(r)
    BY <1>1, <2>1, CreateFits
  <2>2. CASE CancelResearchRun(r)
    BY <1>1, <2>2, CancelFits
  <2>3. CASE RetryResearchRun(r)
    BY <1>1, <2>3, RetryFits
  <2>4. CASE ActivateNextRun(r)
    BY <1>1, <2>4, ActivateFits
  <2>5. CASE StageReview(r)
    BY <1>1, <2>5, StageReviewFits
  <2>6. CASE PublishReport(r)
    BY <1>1, <2>6, PublishFits
  <2>7. CASE TerminalizeWorkflowFailure(r)
    BY <1>1, <2>7, TerminalizeFits
  <2> QED BY <1>2, <2>1, <2>2, <2>3, <2>4, <2>5, <2>6, <2>7
<1>3. ASSUME NEW w \in Workers, NEW j \in Jobs, Claim(w, j)
      PROVE  StepFits
  BY <1>1, <1>3, ClaimFits
<1>4. ASSUME NEW c \in claims, Poll(c)
      PROVE  StepFits
  <2>1. CASE ReserveAtCapacity(c) \/ ReserveDeclined(c) \/ ReserveThrows(c)
    <3>1. UNCHANGED <<run, job, attempt>>
      BY <2>1 DEF ReserveAtCapacity, ReserveDeclined, ReserveThrows
    <3> QED BY <1>1, <3>1, TablesFits
  <2>2. CASE ReserveExhausted(c)
    BY <1>1, <2>2, ReserveExhaustedFits
  <2>3. CASE Launch(c)
    BY <1>1, <2>3, LaunchFits
  <2>4. CASE Release(c)
    BY <1>1, <2>4, ReleaseFits
  <2> QED BY <1>4, <2>1, <2>2, <2>3, <2>4 DEF Poll
<1>5. ASSUME NEW c \in claims, Handle(c)
      PROVE  StepFits
  <2>1. CASE PersistJobs(c)
    BY <1>1, <2>1, TablesFits DEF PersistJobs
  <2>2. CASE StageSpecialists(c)
    BY <1>1, <2>2, StageSpecialistsFits
  <2>3. CASE ReleaseSystemCollectionReservation(c) \/ ConsumeReplacementBudget(c)
    BY <1>1, <2>3, ColumnsFit
  <2>4. CASE CommitAcceptedOutput(c)
    BY <1>1, <2>4, CommitAcceptedOutputFits
  <2>5. CASE RejectFinally(c)
    BY <1>1, <2>5, RejectFinallyFits
  <2>6. CASE RejectForRewrite(c)
    BY <1>1, <2>6, RejectForRewriteFits
  <2>7. CASE MarkReplacementRunning(c)
    BY <1>1, <2>7, MarkReplacementRunningFits
  <2> QED BY <1>5, <2>1, <2>2, <2>3, <2>4, <2>5, <2>6, <2>7 DEF Handle
<1>6. ASSUME NEW c \in claims, Commit(c)
      PROVE  StepFits
  <2>1. CASE CommitRequestedCancellation(c)
    BY <1>1, <2>1, CommitRequestedCancellationFits
  <2>2. ASSUME NEW outcome \in Outcomes(c), CommitAttempt(c, outcome)
        PROVE  StepFits
    BY <1>1, <2>2, CommitAttemptFits
  <2>3. CASE CommitStale(c)
    BY <1>1, <2>3, TablesFits DEF CommitStale
  <2> QED BY <1>6, <2>1, <2>2, <2>3 DEF Commit
<1>7. ASSUME NEW c \in claims, Heartbeat(c)
      PROVE  StepFits
  <2>1. c.job \in Jobs
    BY Records DEF EInv
  <2> QED BY <1>1, <1>7, <2>1, LeaseFits DEF Heartbeat
<1>8. CASE RecoverExpired
  BY <1>1, <1>8, RecoverExpiredFits
<1>9. ASSUME NEW w \in Workers, Crash(w) \/ Shutdown(w) \/ Restart(w)
      PROVE  StepFits
  <2>1. UNCHANGED <<run, job, attempt>>
    BY <1>9 DEF Crash, Shutdown, Restart
  <2> QED BY <1>1, <2>1, TablesFits
<1>10. ASSUME NEW j \in Jobs, LeaseTick(j)
       PROVE  StepFits
  <2>1. /\ job' = [job EXCEPT ![j].lease = job[j].lease - 1]
        /\ UNCHANGED <<run, attempt>>
    BY <1>10 DEF LeaseTick
  <2> QED BY <1>1, <2>1, LeaseFits
<1>11. CASE UNCHANGED vars
  <2>1. UNCHANGED <<run, job, attempt>>
    BY <1>11 DEF vars
  <2> QED BY <1>1, <2>1, TablesFits
<1> QED BY <1>2, <1>3, <1>4, <1>5, <1>6, <1>7, <1>8, <1>9, <1>10, <1>11 DEF Next

LEMMA NextFits ==
  ASSUME EInv, [Next]_vars
  PROVE  EInv' /\ StepFits
<1>1. IInv'
  BY NextKeeps DEF EInv
<1>2. StepFits
  BY EveryStepFits
<1>3. CollectionsCollect'
  BY <1>1, CollectionsStay
<1> QED BY <1>1, <1>2, <1>3 DEF EInv, StepFits

LEMMA InitFits == Init => EInv
<1> SUFFICES ASSUME Init PROVE EInv
  OBVIOUS
<1>1. ASSUME NEW r \in Runs
      PROVE  RunFits(r)
  <2>1. Rs(r) = "absent" /\ \A j \in JobsOf(r) : Js(j) = "absent"
    BY JobsFacts DEF Init, AbsentJob, Rs, Js
  <2>2. \A k \in Outputs : Js(<<r, k>>) = "absent"
    BY <2>1, RunJobs
  <2> QED BY <2>1, <2>2 DEF RunFits, ExecutesForRun, OrphansOfIncomplete,
          CancellingIsAsked, CancelledIsNotAsked, ReviewAfterMemos,
          CompletedIsReviewed, Orphaned, ActiveStatuses, Outputs
<1>2. CollectionsCollect
  BY DEF Init, CollectionsCollect
<1> QED BY <1>1, <1>2, InitEstablishes DEF EInv

\* Runs and their jobs agree in every reachable state: EInv is inductive.
THEOREM RunsAndJobsAgree == Spec => []EInv
<1>1. EInv /\ [Next]_vars => EInv'
  BY NextFits
<1> QED BY InitFits, <1>1, PTL DEF Spec

-----------------------------------------------------------------------------
(* A clean cancellation. *)

LEMMA EInvImpliesClean == EInv => CancellationIsClean
<1> SUFFICES ASSUME EInv, NEW r \in Runs
             PROVE  /\ Rs(r) = "cancelled" =>
                         \A j \in JobsOf(r) : Js(j) \notin ProcessJob \cup {"queued"}
                    /\ Rs(r) = "cancelled" =>
                         \A a \in ActiveAttempts : attempt[a].job \notin JobsOf(r)
                    /\ Rs(r) = "cancelling" =>
                         \E j \in JobsOf(r) : Js(j) = "cancel-requested"
  BY DEF CancellationIsClean, Js, Rs
<1>1. RunFits(r) /\ JobsOf(r) \subseteq Jobs
  BY JobsFacts DEF EInv
<1>2. ASSUME Rs(r) = "cancelled", NEW j \in JobsOf(r)
      PROVE  Js(j) \notin ProcessJob \cup {"queued"}
  <2>1. Js(j) \notin ActiveStatuses /\ Js(j) # "queued"
    BY <1>1, <1>2 DEF RunFits, ExecutesForRun, CancelledIsNotAsked
  <2>2. j \in Jobs /\ RunOf(j) = r
    BY JobsFacts
  <2>3. Js(j) # "cancel-requested"
    BY <1>2, <2>2 DEF EInv, IInv, CancelOnlyWhileCancelling, Js, Rs
  <2> QED BY <2>1, <2>3 DEF ProcessJob, ActiveStatuses
<1>3. ASSUME Rs(r) = "cancelled", NEW a \in ActiveAttempts,
             attempt[a].job \in JobsOf(r)
      PROVE  FALSE
  BY <1>2, <1>3, ActiveOfRun DEF ProcessJob, ActiveStatuses
<1>4. Rs(r) = "cancelling" => \E j \in JobsOf(r) : Js(j) = "cancel-requested"
  BY <1>1 DEF RunFits, CancellingIsAsked
<1> QED BY <1>2, <1>3, <1>4

\* A cancelled run has nothing at work, and one that is being cancelled has a
\* job left that will report it, whatever recovery, takeover and late
\* reservations do (requestResearchRunCancellation, recoverCancelledRuns).
THEOREM CancellationIsCleanAlways == Spec => []CancellationIsClean
BY RunsAndJobsAgree, EInvImpliesClean, PTL

-----------------------------------------------------------------------------
(* The contract. *)

LEMMA InitIsContract == Init => Contract!Init
<1> SUFFICES ASSUME Init PROVE Contract!Init
  OBVIOUS
<1>1. \A r \in Runs : run[r].status = "absent"
  BY DEF Init
<1>2. \A r \in Runs : {k \in MemoKeys \cup {ReviewKey} :
                         job[<<r, k>>].status = "succeeded"} = {}
  <2> SUFFICES ASSUME NEW r \in Runs, NEW k \in Outputs
               PROVE  job[<<r, k>>].status # "succeeded"
    BY DEF Outputs
  <2>1. <<r, k>> \in Jobs
    BY RunJobs
  <2> QED BY <2>1 DEF Init, AbsentJob
<1> QED BY <1>1, <1>2 DEF Contract!Init

LEMMA PromisedIsContract ==
  ASSUME \A r \in Runs : RunPromised(r)
  PROVE  Contract!Next
<1> DEFINE status == [r \in Runs |-> run[r].status]
           accepted == [r \in Runs |-> {k \in MemoKeys \cup {ReviewKey} :
                                          job[<<r, k>>].status = "succeeded"}]
<1>1. /\ DOMAIN status' = Runs /\ DOMAIN accepted' = Runs
      /\ \A r \in Runs :
           /\ status[r] = Rs(r) /\ status'[r] = Rs(r)'
           /\ accepted[r] = {k \in Outputs : Js(<<r, k>>) = "succeeded"}
           /\ accepted'[r] = {k \in Outputs : Js(<<r, k>>)' = "succeeded"}
  BY DEF Rs, Js, Outputs
<1> SUFFICES ASSUME NEW r \in Runs
             PROVE  \/ Contract!Submit(r) \/ Contract!Start(r) \/ Contract!Stop(r)
                    \/ Contract!Cancel(r) \/ Contract!Resume(r)
                    \/ Contract!Accept(r) \/ Contract!Publish(r)
                    \/ Contract!Idle(r)
  BY <1>1 DEF Contract!Next
<1>2. CASE SameAccepted(r) /\ StatusMoves(r)
  <2>1. accepted'[r] = accepted[r]
    BY <1>1, <1>2 DEF SameAccepted
  <2>2. (\A k \in Outputs : Js(<<r, k>>) = "succeeded") => accepted[r] = Outputs
    BY <1>1
  <2>3. \/ status'[r] = status[r]
        \/ <<status[r], status'[r]>> \in Edges
        \/ status[r] = "queued" /\ status'[r] = "running"
        \/ /\ status[r] = "running" /\ status'[r] = "completed"
           /\ accepted[r] = Outputs
    <3> HIDE DEF accepted, status
    <3> QED BY <1>1, <1>2, <2>2 DEF StatusMoves, Starts, Completes
  <2> QED BY <2>1, <2>3 DEF Edges, status, accepted, Outputs, Contract!Submit,
          Contract!Start, Contract!Stop, Contract!Cancel, Contract!Resume,
          Contract!Publish, Contract!Idle, Contract!Moves, Contract!Keeps
<1>3. CASE AcceptsOne(r)
  <2>1. PICK k \in Outputs :
          /\ Js(<<r, k>>) # "succeeded" /\ Js(<<r, k>>)' = "succeeded"
          /\ \A m \in Outputs : m # k =>
               (Js(<<r, m>>)' = "succeeded" <=> Js(<<r, m>>) = "succeeded")
          /\ k = ReviewKey => \A m \in MemoKeys : Js(<<r, m>>) = "succeeded"
    BY <1>3 DEF AcceptsOne
  <2>2. k \in Outputs \ accepted[r]
    BY <1>1, <2>1
  <2>3. accepted'[r] = accepted[r] \cup {k}
    BY <1>1, <2>1
  <2>4. k = ReviewKey => accepted[r] = Outputs \ {ReviewKey}
    BY <1>1, <2>1 DEF Outputs
  <2>5. status'[r] = status[r] /\ status[r] \in {"running", "incomplete"}
    BY <1>1, <1>3 DEF AcceptsOne
  <2> QED BY <2>2, <2>3, <2>4, <2>5 DEF Contract!Accept, status, accepted, Outputs
<1> QED BY <1>2, <1>3 DEF RunPromised

\* Every step of workers, recovery and commands is a step of the contract the
\* owner sees: accepted outputs survive, nothing is accepted once a
\* cancellation began, and a report is published from a complete set.
THEOREM EngineKeepsTheContract == Spec => KeepsContract
<1>1. Init => Contract!Init
  BY InitIsContract
<1>2. EInv /\ [Next]_vars => EInv' /\ Contract!Next
  BY NextFits, PromisedIsContract DEF StepFits
<1> QED BY InitFits, <1>1, <1>2, PTL DEF Spec, KeepsContract, Contract!Spec

-----------------------------------------------------------------------------
(* What an account sees of its runs. *)

View == INSTANCE RunView
Seen(r) == View!SeenAs(run[r].status)
\* A run is created, or makes one of the moves that the account allows for.
SeenToMove(r) == \/ Seen(r)' = Seen(r)
                 \/ Seen(r) = "none" /\ Seen(r)' = "active"
                 \/ View!MayMove(Seen(r), Seen(r)')
AccountsSeeTheirMoves == /\ \A r \in Runs : Seen(r) = "none"
                         /\ [][\A r \in Runs : SeenToMove(r)]_vars

LEMMA PromisedIsSeen ==
  ASSUME NEW r \in Runs, RunPromised(r)
  PROVE  SeenToMove(r)
<1>1. \/ Rs(r)' = Rs(r) \/ <<Rs(r), Rs(r)'>> \in Edges
      \/ <<Rs(r), Rs(r)'>> \in {<<"queued", "running">>, <<"running", "completed">>}
  BY DEF RunPromised, StatusMoves, Starts, Completes, AcceptsOne
<1>2. Seen(r) = View!SeenAs(Rs(r)) /\ Seen(r)' = View!SeenAs(Rs(r)')
  BY DEF Seen, Rs
<1>3. \A from, to :
        \/ from = to \/ <<from, to>> \in Edges
        \/ <<from, to>> \in {<<"queued", "running">>, <<"running", "completed">>}
        => \/ View!SeenAs(to) = View!SeenAs(from)
           \/ View!SeenAs(from) = "none" /\ View!SeenAs(to) = "active"
           \/ View!MayMove(View!SeenAs(from), View!SeenAs(to))
  BY DEF Edges, View!SeenAs, View!MayMove, View!Ended
<1> HIDE DEF Seen
<1> QED BY <1>1, <1>2, <1>3 DEF SeenToMove

\* The moves of a run that AccountCredits leaves to its environment are all that
\* the engine makes: whatever workers, recovery and commands do, an account sees
\* a run end as success, failure or cancellation, and only a failure taken back.
THEOREM EngineMovesAsSeen == Spec => AccountsSeeTheirMoves
<1>1. Init => \A r \in Runs : Seen(r) = "none"
  BY DEF Init, Seen, View!SeenAs
<1>2. EInv /\ [Next]_vars => EInv' /\ \A r \in Runs : SeenToMove(r)
  BY NextFits, PromisedIsSeen DEF StepFits
<1> QED BY InitFits, <1>1, <1>2, PTL DEF Spec, AccountsSeeTheirMoves

-----------------------------------------------------------------------------
(* The limits on processes and runs. *)

Slots == {j \in Jobs : job[j].status \in ProcessJob}
WithinLimits == /\ IsFiniteSet(Slots) /\ Cardinality(Slots) <= GlobalCodexProcesses
                /\ IsFiniteSet(ActiveRuns) /\ Cardinality(ActiveRuns) <= RunCapacity

\* A set that loses elements, or gains one while there is room.
LEMMA RoomForOne ==
  ASSUME NEW S, IsFiniteSet(S), NEW x, NEW T \in SUBSET (S \cup {x}),
         NEW limit \in Nat, Cardinality(S) < limit
  PROVE  IsFiniteSet(T) /\ Cardinality(T) <= limit
<1> DEFINE U == S \cup {x}
<1>1. Cardinality(S) \in Nat
  BY FS_CardinalityType
<1>2. /\ IsFiniteSet(U)
      /\ Cardinality(U) = IF x \in S THEN Cardinality(S) ELSE Cardinality(S) + 1
  BY FS_AddElement
<1> HIDE DEF U
<1>3. T \in SUBSET U
  BY DEF U
<1>4. /\ IsFiniteSet(T) /\ Cardinality(T) <= Cardinality(U)
      /\ Cardinality(T) \in Nat
  BY <1>2, <1>3, FS_Subset, FS_CardinalityType
<1> QED BY <1>1, <1>2, <1>4

LEMMA Fewer ==
  ASSUME NEW S, IsFiniteSet(S), NEW T \in SUBSET S,
         NEW limit \in Nat, Cardinality(S) <= limit
  PROVE  IsFiniteSet(T) /\ Cardinality(T) <= limit
<1>1. /\ IsFiniteSet(T) /\ Cardinality(T) <= Cardinality(S)
      /\ Cardinality(T) \in Nat /\ Cardinality(S) \in Nat
  BY FS_Subset, FS_CardinalityType
<1> QED BY <1>1

LEMMA LimitsKept ==
  ASSUME EInv, WithinLimits, StepFits
  PROVE  WithinLimits'
<1>1. GlobalCodexProcesses \in Nat /\ RunCapacity \in Nat
  BY BoundsAreNatural
<1>2. IsFiniteSet(Slots)' /\ (Cardinality(Slots) <= GlobalCodexProcesses)'
  <2>1. CASE \A j \in Jobs : SlotKept(j)
    <3>1. Slots' \in SUBSET Slots
      BY <2>1 DEF Slots, SlotKept, Js
    <3> QED BY <1>1, <3>1, Fewer DEF WithinLimits
  <2>2. CASE ~AtCapacity /\ \E j \in Jobs : \A i \in Jobs : i # j => SlotKept(i)
    <3>1. PICK j \in Jobs : \A i \in Jobs : i # j => SlotKept(i)
      BY <2>2
    <3>2. Slots' \in SUBSET (Slots \cup {j})
      BY <3>1 DEF Slots, SlotKept, Js
    <3>3. Cardinality(Slots) < GlobalCodexProcesses
      <4>1. Cardinality(Slots) \in Nat
        BY FS_CardinalityType DEF WithinLimits
      <4>2. ~(Cardinality(Slots) >= GlobalCodexProcesses)
        BY <2>2 DEF AtCapacity, Slots
      <4> HIDE DEF Slots
      <4> QED BY <1>1, <4>1, <4>2
    <3> QED BY <1>1, <3>2, <3>3, RoomForOne DEF WithinLimits
  <2> QED BY <2>1, <2>2 DEF StepFits, SlotsKept
<1>3. IsFiniteSet(ActiveRuns)' /\ (Cardinality(ActiveRuns) <= RunCapacity)'
  <2>1. CASE \E r \in Runs : Starts(r)
    <3>1. PICK r \in Runs : Starts(r)
      BY <2>1
    <3>2. ActiveRuns' \in SUBSET (ActiveRuns \cup {r})
      BY <3>1 DEF Starts, ActiveRuns, Rs
    <3>3. Cardinality(ActiveRuns) < RunCapacity
      BY <3>1 DEF Starts, RunSlotFree
    <3> QED BY <1>1, <3>2, <3>3, RoomForOne DEF WithinLimits
  <2>2. CASE \A r \in Runs : ~Starts(r)
    <3>1. ASSUME NEW r \in Runs, Rs(r)' \in {"running", "cancelling"}
          PROVE  Rs(r) \in {"running", "cancelling"}
      <4>1. \/ Rs(r)' = Rs(r)
            \/ <<Rs(r), Rs(r)'>> \in Edges
            \/ Rs(r)' = "completed"
        BY <2>2 DEF StepFits, RunPromised, AcceptsOne, StatusMoves, Completes
      <4> QED BY <3>1, <4>1 DEF Edges
    <3>2. ActiveRuns' \in SUBSET ActiveRuns
      BY <3>1 DEF ActiveRuns, Rs
    <3> QED BY <1>1, <3>2, Fewer DEF WithinLimits
  <2> QED BY <2>1, <2>2
<1> QED BY <1>2, <1>3 DEF WithinLimits

LEMMA InitWithinLimits == Init => WithinLimits
<1> SUFFICES ASSUME Init PROVE WithinLimits
  OBVIOUS
<1>1. Slots = {}
  BY DEF Init, Slots, AbsentJob, ProcessJob
<1>2. ActiveRuns = {}
  BY DEF Init, ActiveRuns
<1>3. 0 <= GlobalCodexProcesses /\ 0 <= RunCapacity
  BY BoundsAreNatural
<1> QED BY <1>1, <1>2, <1>3, FS_EmptySet DEF WithinLimits

\* Never more than GlobalCodexProcesses executing processes nor RunCapacity
\* executing runs, however claims, launches, rewrites and recovery interleave.
THEOREM CapacityAlways == Spec => []Capacity
<1>1. EInv /\ WithinLimits /\ [Next]_vars => EInv' /\ WithinLimits'
  BY NextFits, LimitsKept
<1>2. WithinLimits => Capacity
  BY DEF WithinLimits, Capacity, Slots
<1> QED BY InitFits, InitWithinLimits, <1>1, <1>2, PTL DEF Spec

-----------------------------------------------------------------------------
(* The invariant behind the limits on launches and the ledger of calls. *)

\* Attempts are born in the order of their ids.
BirthsInOrder ==
  \A a, b \in AttemptIds : a < b /\ Exists(b) => Exists(a)
UnbornIsBlank ==
  \A a \in AttemptIds :
    ~Exists(a) => attempt[a].replaces = None /\ attempt[a].ordinal = 0
\* A job names the last attempt born for it.
PointerIsLatest ==
  \A a \in AttemptIds : Exists(a) => a <= job[attempt[a].job].attempt
ReplacesEarlier ==
  \A a \in AttemptIds : LET p == attempt[a].replaces IN
    p # None => p \in AttemptIds /\ p < a /\ attempt[p].job = attempt[a].job
ReplacedOnce ==
  \A a, b \in AttemptIds :
    attempt[a].replaces # None /\ attempt[a].replaces = attempt[b].replaces => a = b
OrdinalsDiffer ==
  \A r \in Runs : \A a, b \in Burned(r) :
    attempt[a].ordinal = attempt[b].ordinal => a = b
OrdinalsWithin ==
  \A a \in AttemptIds : attempt[a].ordinal <= MaxPhysicalLaunches
ReplacementsWithin ==
  \A r \in Runs : Cardinality(Replacements(r)) <= MaxRequiredReplacements
LogicalWithin ==
  \A j \in Jobs : LogicalAttempts(j) <= MaxAttemptsPerLogicalArtifact
HistoryInv == /\ BirthsInOrder
              /\ UnbornIsBlank
              /\ PointerIsLatest
              /\ ReplacesEarlier
              /\ ReplacedOnce
              /\ OrdinalsDiffer
              /\ OrdinalsWithin
              /\ ReplacementsWithin
              /\ LogicalWithin

\* While its lease is the job's, a claim knows the job's attempt and class.
ClaimIsCurrent(c) ==
  /\ job[c.job].status # "absent"
  /\ c.token <= job[c.job].token
  /\ (c.phase = "claimed" /\ job[c.job].status = "leased"
      /\ c.token = job[c.job].token)
     => c.prior = job[c.job].attempt /\ c.class = job[c.job].class
ClassMeansTried ==
  \A j \in Jobs : job[j].class # "none" => job[j].attempt # None
MemoryInv == /\ \A c \in claims : ClaimIsCurrent(c)
             /\ ClassMeansTried

\* Collections that gave nothing back yet, and rewrites not charged yet.
Unreturned(r) == {c \in claims : RunOf(c.job) = r /\ c.phase \in {"prepared", "staged"}}
Uncharged(r) == {c \in claims : RunOf(c.job) = r /\ c.phase = "rejected"}
BaseBalances(r) ==
  /\ IsFiniteSet(Launches(r))
  /\ run[r].base + Cardinality(Launches(r))
       = MandatoryFirstAttempts + Cardinality(Refunded(r))
ReturnedOnce(r) ==
  /\ Cardinality(Refunded(r)) <= 1
  /\ r \notin prepared => Unreturned(r) = {} /\ Refunded(r) = {}
  /\ Unreturned(r) # {} => Refunded(r) = {}
  /\ \A c, d \in Unreturned(r) : c = d
RewritesAreCharged(r) ==
  /\ IsFiniteSet(Uncharged(r))
  /\ MaxRequiredReplacements - run[r].repl + Cardinality(Uncharged(r))
       <= Cardinality(Replacements(r))
LedgerInv == \A r \in Runs :
  BaseBalances(r) /\ ReturnedOnce(r) /\ RewritesAreCharged(r)

\* Less is owed when fewer claims owe.
LEMMA FewerOwe ==
  ASSUME NEW S, IsFiniteSet(S), NEW T \in SUBSET S, NEW n \in Nat, NEW m \in Nat,
         NEW limit \in Nat, limit - n + Cardinality(S) <= m
  PROVE  IsFiniteSet(T) /\ limit - n + Cardinality(T) <= m
<1>1. /\ IsFiniteSet(T) /\ Cardinality(T) <= Cardinality(S)
      /\ Cardinality(T) \in Nat /\ Cardinality(S) \in Nat
  BY FS_Subset, FS_CardinalityType
<1> QED BY <1>1

\* Sets of attempts are finite.
LEMMA AttemptsAreFinite ==
  /\ IsFiniteSet(AttemptIds)
  /\ \A S \in SUBSET AttemptIds : IsFiniteSet(S) /\ Cardinality(S) \in Nat
<1>1. IsFiniteSet(AttemptIds)
  BY FS_Interval, BoundsAreNatural DEF AttemptIds
<1> QED BY <1>1, FS_Subset, FS_CardinalityType

-----------------------------------------------------------------------------
(* Frames: a step that neither launches nor charges. *)

AttemptKept(a) == /\ attempt'[a].job = attempt[a].job
                  /\ attempt'[a].replaces = attempt[a].replaces
                  /\ attempt'[a].ordinal = attempt[a].ordinal
                  /\ attempt'[a].status = "unborn" <=> attempt[a].status = "unborn"
HistoryKept == /\ \A a \in AttemptIds : AttemptKept(a)
               /\ \A j \in Jobs : job'[j].attempt = job[j].attempt
ColumnsKept == \A r \in Runs : run'[r].base = run[r].base /\ run'[r].repl = run[r].repl
\* The job keeps its claim and what it tells the next one, or is inserted.
JobStays(j) ==
  /\ job[j].status # "absent" => job'[j].status # "absent"
  /\ \/ job[j].status = "absent" /\ job'[j].class = "none" /\ job'[j].status # "leased"
     \/ /\ job'[j].token = job[j].token
        /\ job'[j].class # "none" => job[j].class # "none" \/ job[j].attempt # None
        /\ job'[j].status = "leased" =>
             job[j].status = "leased" /\ job'[j].class = job[j].class
JobsStay == \A j \in Jobs : JobStays(j)
\* A claim was there already, or has moved on to a phase outside these.
Follows(e, phases) ==
  \/ e \in claims
  \/ e.phase \notin phases /\ \E d \in claims : d.job = e.job /\ d.token = e.token
ClaimsFollow(phases) == \A e \in claims' : Follows(e, phases)
Owing == {"prepared", "staged", "rejected"}
Quiet == /\ HistoryKept
         /\ ColumnsKept
         /\ JobsStay
         /\ ClaimsFollow({"claimed"} \cup Owing)
         /\ UNCHANGED prepared

LEMMA SetsOfAttempts ==
  ASSUME \A a \in AttemptIds : AttemptKept(a)
  PROVE  /\ \A r \in Runs : /\ AttemptsOf(r)' = AttemptsOf(r)
                            /\ Burned(r)' = Burned(r)
                            /\ Replacements(r)' = Replacements(r)
                            /\ Refunded(r)' = Refunded(r)
         /\ \A j \in Jobs : LogicalAttempts(j)' = LogicalAttempts(j)
<1>1. ASSUME NEW r \in Runs
      PROVE  AttemptsOf(r)' = AttemptsOf(r)
  BY DEF AttemptKept, AttemptsOf
<1>2. ASSUME NEW r \in Runs
      PROVE  /\ Burned(r)' = Burned(r) /\ Replacements(r)' = Replacements(r)
             /\ Refunded(r)' = Refunded(r)
  <2>1. AttemptsOf(r)' = AttemptsOf(r) /\ AttemptsOf(r) \subseteq AttemptIds
    BY <1>1 DEF AttemptsOf
  <2> QED BY <2>1 DEF AttemptKept, Burned, Replacements, Refunded
<1>3. ASSUME NEW j \in Jobs
      PROVE  LogicalAttempts(j)' = LogicalAttempts(j)
  <2>1. {a \in AttemptIds : attempt'[a].job = j /\ attempt'[a].replaces # None}
          = {a \in AttemptIds : attempt[a].job = j /\ attempt[a].replaces # None}
    BY DEF AttemptKept
  <2> QED BY <2>1 DEF LogicalAttempts
<1> QED BY <1>1, <1>2, <1>3

LEMMA HistoryStays ==
  ASSUME EInv, HistoryInv, HistoryKept
  PROVE  HistoryInv'
<1>1. \A a \in AttemptIds : AttemptKept(a) /\ (Exists(a)' <=> Exists(a))
  BY DEF HistoryKept, AttemptKept, Exists
<1>2. BirthsInOrder' /\ UnbornIsBlank'
  BY <1>1 DEF HistoryInv, BirthsInOrder, UnbornIsBlank, AttemptKept
<1>3. PointerIsLatest'
  <2> SUFFICES ASSUME NEW a \in AttemptIds, Exists(a)'
               PROVE  a <= job'[attempt'[a].job].attempt
    BY DEF PointerIsLatest
  <2>1. attempt[a].job \in Jobs /\ attempt'[a].job = attempt[a].job
    BY <1>1 DEF EInv, IInv, AttemptsHaveJobs, AttemptKept
  <2> QED BY <1>1, <2>1 DEF HistoryInv, PointerIsLatest, HistoryKept
<1>4. ReplacesEarlier' /\ ReplacedOnce' /\ OrdinalsWithin'
  BY <1>1 DEF HistoryInv, ReplacesEarlier, ReplacedOnce, OrdinalsWithin, AttemptKept
<1>5. OrdinalsDiffer'
  <2> SUFFICES ASSUME NEW r \in Runs, NEW a \in Burned(r), NEW b \in Burned(r),
                      attempt'[a].ordinal = attempt'[b].ordinal
               PROVE  a = b
    BY <1>1, SetsOfAttempts DEF OrdinalsDiffer
  <2>1. a \in AttemptIds /\ b \in AttemptIds
    BY DEF Burned, AttemptsOf
  <2> QED BY <1>1, <2>1 DEF HistoryInv, OrdinalsDiffer, AttemptKept
<1>6. ReplacementsWithin' /\ LogicalWithin'
  BY <1>1, SetsOfAttempts DEF HistoryInv, ReplacementsWithin, LogicalWithin
<1> QED BY <1>2, <1>3, <1>4, <1>5, <1>6 DEF HistoryInv

\* Jobs that stay keep what claims know of them.
LEMMA MemoryStays ==
  ASSUME EInv, MemoryInv, JobsStay, ClaimsFollow({"claimed"}),
         \A j \in Jobs :
           \/ job'[j].attempt = job[j].attempt
           \/ job'[j].attempt # None /\ job'[j].status # "leased"
  PROVE  MemoryInv'
<1>1. ASSUME NEW e \in claims'
      PROVE  ClaimIsCurrent(e)'
  <2>1. PICK d \in claims : /\ d.job = e.job /\ d.token = e.token
                            /\ e.phase = "claimed" => d = e
    BY DEF ClaimsFollow, Follows
  <2>2. /\ d.job \in Jobs /\ job[d.job].status # "absent"
        /\ d.token <= job[d.job].token
    BY Records DEF MemoryInv, ClaimIsCurrent, EInv
  <2>3. /\ job'[d.job].status # "absent" /\ job'[d.job].token = job[d.job].token
        /\ job'[d.job].status = "leased" =>
             /\ job[d.job].status = "leased"
             /\ job'[d.job].class = job[d.job].class
             /\ job'[d.job].attempt = job[d.job].attempt
    <3>1. JobStays(d.job) /\ \/ job'[d.job].attempt = job[d.job].attempt
                             \/ job'[d.job].status # "leased"
      BY <2>2 DEF JobsStay
    <3> QED BY <2>2, <3>1 DEF JobStays
  <2> QED BY <2>1, <2>2, <2>3 DEF MemoryInv, ClaimIsCurrent
<1>2. ClassMeansTried'
  BY DEF MemoryInv, ClassMeansTried, JobsStay, JobStays
<1> QED BY <1>1, <1>2 DEF MemoryInv

LEMMA LedgerStays ==
  ASSUME EInv, LedgerInv, HistoryKept, ColumnsKept, UNCHANGED prepared,
         \A e \in claims' : e.phase \in Owing => e \in claims
  PROVE  LedgerInv'
<1> SUFFICES ASSUME NEW r \in Runs
             PROVE  BaseBalances(r)' /\ ReturnedOnce(r)' /\ RewritesAreCharged(r)'
  BY DEF LedgerInv
<1>1. Refunded(r)' = Refunded(r) /\ Replacements(r)' = Replacements(r)
  BY SetsOfAttempts DEF HistoryKept
<1>2. Launches(r)' = Launches(r)
  BY JobsFacts DEF HistoryKept, Launches
<1>3. Unreturned(r)' \subseteq Unreturned(r) /\ Uncharged(r)' \subseteq Uncharged(r)
  BY DEF Owing, Unreturned, Uncharged
<1>4. run'[r].base = run[r].base /\ run'[r].repl = run[r].repl
  BY DEF ColumnsKept
<1>5. BaseBalances(r) /\ ReturnedOnce(r) /\ RewritesAreCharged(r)
  BY DEF LedgerInv
<1>6. BaseBalances(r)'
  BY <1>1, <1>2, <1>4, <1>5 DEF BaseBalances
<1>7. ReturnedOnce(r)'
  BY <1>1, <1>3, <1>5 DEF ReturnedOnce
<1>9. /\ run[r].repl \in Nat /\ Cardinality(Replacements(r)) \in Nat
      /\ MaxRequiredReplacements \in Nat
  <2>1. Replacements(r) \in SUBSET AttemptIds
    BY DEF Replacements, AttemptsOf
  <2> QED BY <2>1, AttemptsAreFinite, Records, BoundsAreNatural DEF EInv, RunRecords
<1>8. RewritesAreCharged(r)'
  BY <1>1, <1>3, <1>4, <1>5, <1>9, FewerOwe DEF RewritesAreCharged
<1> QED BY <1>6, <1>7, <1>8

\* A job that is written stays, unless it is claimed.
LEMMA UnleasedStays ==
  ASSUME EInv, NEW j \in Jobs, NEW s \in JobStatuses \ {"absent", "leased"},
         job'[j] = Unleased(job[j], s)
  PROVE  JobStays(j) /\ job'[j].attempt = job[j].attempt
  BY Records, UnleasedFacts DEF EInv, JobStays

LEMMA StatusStays ==
  ASSUME EInv, NEW j \in Jobs, NEW s \in JobStatuses \ {"absent", "leased"},
         job'[j] = [job[j] EXCEPT !.status = s]
  PROVE  JobStays(j) /\ job'[j].attempt = job[j].attempt
  BY Records DEF EInv, JobStays, JobRecords

LEMMA SameStays ==
  ASSUME NEW j \in Jobs, job'[j] = job[j]
  PROVE  JobStays(j) /\ job'[j].attempt = job[j].attempt
  BY DEF JobStays

\* Of an attempt only the status is written.
LEMMA StatusKept ==
  ASSUME EInv, NEW a \in AttemptIds, NEW s,
         s = "unborn" <=> attempt[a].status = "unborn",
         attempt'[a] = [attempt[a] EXCEPT !.status = s]
  PROVE  AttemptKept(a)
  BY Records DEF EInv, AttemptKept, AttemptRecords

\* Of a run only the status, or that it failed for good, is written.
LEMMA ColumnsStay ==
  ASSUME EInv, NEW r \in Runs, NEW s, NEW p,
         \/ run' = [run EXCEPT ![r].status = s]
         \/ run' = [run EXCEPT ![r].permanent = p, ![r].status = s]
         \/ UNCHANGED run
  PROVE  ColumnsKept
  BY Records DEF EInv, ColumnsKept, RunRecords

LEMMA FewerFollow ==
  ASSUME claims' \subseteq claims, NEW phases
  PROVE  ClaimsFollow(phases)
  BY DEF ClaimsFollow, Follows

LEMMA AdvanceFollows ==
  ASSUME EInv, NEW c \in claims, NEW phases, NEW phase, phase \notin phases,
         Advance(c, phase)
  PROVE  ClaimsFollow(phases)
<1> DEFINE d == [c EXCEPT !.phase = phase]
<1>1. d.phase = phase /\ d.job = c.job /\ d.token = c.token
  BY Records DEF EInv, Claims
<1> QED BY <1>1 DEF Advance, ClaimsFollow, Follows

LEMMA TablesQuiet ==
  ASSUME UNCHANGED <<job, attempt, prepared>>, ColumnsKept,
         ClaimsFollow({"claimed"} \cup Owing)
  PROVE  Quiet
<1>1. HistoryKept
  BY DEF HistoryKept, AttemptKept
<1>2. JobsStay
  BY SameStays DEF JobsStay
<1> QED BY <1>1, <1>2 DEF Quiet

\* One job is written, and of attempts their status.
LEMMA OneJobQuiet ==
  ASSUME EInv, NEW j \in Jobs, JobStays(j), job'[j].attempt = job[j].attempt,
         \A i \in Jobs : i # j => job'[i] = job[i],
         \A a \in AttemptIds : AttemptKept(a), ColumnsKept,
         ClaimsFollow({"claimed"} \cup Owing), UNCHANGED prepared
  PROVE  Quiet
<1>1. JobsStay /\ \A i \in Jobs : job'[i].attempt = job[i].attempt
  BY SameStays DEF JobsStay
<1> QED BY <1>1 DEF Quiet, HistoryKept

LEMMA CommandsQuiet ==
  ASSUME EInv, NEW r \in Runs,
         \/ ActivateNextRun(r) \/ PublishReport(r) \/ TerminalizeWorkflowFailure(r)
  PROVE  Quiet
<1>1. ColumnsKept
  BY ColumnsStay DEF ActivateNextRun, PublishReport, TerminalizeWorkflowFailure
<1>2. UNCHANGED <<job, attempt, prepared, claims>>
  BY DEF ActivateNextRun, PublishReport, TerminalizeWorkflowFailure
<1> QED BY <1>1, <1>2, FewerFollow, TablesQuiet

LEMMA InsertQuiet ==
  ASSUME EInv, NEW r \in Runs, Create(r) \/ StageReview(r)
  PROVE  Quiet
<1>1. PICK j \in Jobs : job' = [job EXCEPT ![j].status = "queued"]
  BY JobsFacts DEF Create, StageReview, Keys
<1>2. JobStays(j) /\ job'[j].attempt = job[j].attempt
  <2>1. job'[j] = [job[j] EXCEPT !.status = "queued"]
    BY <1>1, Records DEF EInv
  <2> QED BY <2>1, StatusStays DEF JobStatuses
<1>3. \A i \in Jobs : i # j => job'[i] = job[i]
  BY <1>1, Records DEF EInv
<1>4. ColumnsKept
  BY ColumnsStay DEF Create, StageReview
<1>5. UNCHANGED <<attempt, prepared, claims>>
  BY DEF Create, StageReview
<1>6. \A a \in AttemptIds : AttemptKept(a)
  BY <1>5 DEF AttemptKept
<1> QED BY <1>2, <1>3, <1>4, <1>5, <1>6, FewerFollow, OneJobQuiet

LEMMA CancelQuiet ==
  ASSUME EInv, NEW r \in Runs, CancelResearchRun(r)
  PROVE  Quiet
<1>1. ColumnsKept /\ UNCHANGED <<attempt, prepared, claims>>
  BY ColumnsStay DEF CancelResearchRun
<1>2. ASSUME NEW j \in Jobs
      PROVE  JobStays(j) /\ job'[j].attempt = job[j].attempt
  <2>1. \/ job'[j] = job[j]
        \/ job'[j] = Unleased(job[j], "cancelled")
        \/ job'[j] = [job[j] EXCEPT !.status = "cancel-requested"]
    BY DEF CancelResearchRun
  <2> QED BY <2>1, SameStays, UnleasedStays, StatusStays DEF JobStatuses
<1>3. HistoryKept /\ JobsStay
  BY <1>1, <1>2 DEF HistoryKept, AttemptKept, JobsStay
<1> QED BY <1>1, <1>3, FewerFollow DEF Quiet

LEMMA RetryQuiet ==
  ASSUME EInv, NEW r \in Runs, RetryResearchRun(r)
  PROVE  Quiet
<1>1. ColumnsKept /\ UNCHANGED <<prepared, claims>>
  BY ColumnsStay DEF RetryResearchRun
<1>2. ASSUME NEW j \in Jobs
      PROVE  JobStays(j) /\ job'[j].attempt = job[j].attempt
  <2> DEFINE w == Unleased(job[j], "retry-wait")
  <2>1. \/ job'[j] = job[j]
        \/ job'[j] = w
        \/ w.class # "none" /\ job'[j] = [w EXCEPT !.class = "transient"]
        \/ /\ job[j].status = "retry-wait" /\ job[j].class # "none"
           /\ job'[j] = [job[j] EXCEPT !.class = "transient"]
    BY DEF RetryResearchRun
  <2>2. /\ w \in JobRecords /\ w.status = "retry-wait" /\ w.token = job[j].token
        /\ w.attempt = job[j].attempt /\ w.class = job[j].class
    BY Records, UnleasedFacts DEF EInv, JobStatuses
  <2>3. job[j] \in JobRecords
    BY Records DEF EInv
  <2>4. CASE job'[j] = job[j]
    BY <2>4, SameStays
  <2>5. CASE job'[j] = w
    BY <2>5, UnleasedStays DEF JobStatuses
  <2> HIDE DEF w
  <2>6. CASE w.class # "none" /\ job'[j] = [w EXCEPT !.class = "transient"]
    BY <2>2, <2>6 DEF JobStays, JobRecords
  <2>7. CASE /\ job[j].status = "retry-wait" /\ job[j].class # "none"
             /\ job'[j] = [job[j] EXCEPT !.class = "transient"]
    BY <2>3, <2>7 DEF JobStays, JobRecords
  <2> QED BY <2>1, <2>4, <2>5, <2>6, <2>7
<1>3. ASSUME NEW a \in AttemptIds
      PROVE  AttemptKept(a)
  <2>1. \/ attempt'[a] = attempt[a]
        \/ /\ a \in ActiveAttempts
           /\ attempt'[a] = [attempt[a] EXCEPT !.status = "unknown"]
    BY DEF RetryResearchRun
  <2> QED BY <2>1, StatusKept DEF AttemptKept, ActiveAttempts, ActiveStatuses
<1>4. HistoryKept /\ JobsStay
  BY <1>2, <1>3 DEF HistoryKept, JobsStay
<1> QED BY <1>1, <1>4, FewerFollow DEF Quiet

LEMMA DeclineQuiet ==
  ASSUME EInv, NEW c \in claims,
         \/ ReserveAtCapacity(c) \/ ReserveDeclined(c) \/ ReserveThrows(c)
         \/ CommitStale(c)
  PROVE  Quiet
<1>1. UNCHANGED <<run, job, attempt, prepared>>
  BY DEF ReserveAtCapacity, ReserveDeclined, ReserveThrows, CommitStale
<1>2. ColumnsKept
  BY <1>1 DEF ColumnsKept
<1>3. Drop(c) \/ Advance(c, "releasing")
  BY DEF ReserveAtCapacity, ReserveDeclined, ReserveThrows, CommitStale
<1>4. ClaimsFollow({"claimed"} \cup Owing)
  <2>1. "releasing" \notin {"claimed"} \cup Owing
    BY DEF Owing
  <2>2. Drop(c) => claims' \subseteq claims
    BY DEF Drop
  <2> QED BY <1>3, <2>1, <2>2, AdvanceFollows, FewerFollow
<1> QED BY <1>1, <1>2, <1>4, TablesQuiet

LEMMA ReserveExhaustedQuiet ==
  ASSUME EInv, NEW c \in claims, ReserveExhausted(c)
  PROVE  Quiet
<1>1. ColumnsKept
  BY ColumnsStay, Records DEF ReserveExhausted, EInv
<1>2. UNCHANGED <<attempt, prepared>> /\ claims' \subseteq claims
  BY DEF ReserveExhausted, Drop
<1>3. ASSUME NEW j \in Jobs
      PROVE  JobStays(j) /\ job'[j].attempt = job[j].attempt
  <2>1. job'[j] = job[j] \/ job'[j] = Unleased(job[j], "failed")
    BY DEF ReserveExhausted
  <2> QED BY <2>1, SameStays, UnleasedStays DEF JobStatuses
<1>4. HistoryKept /\ JobsStay
  BY <1>2, <1>3 DEF HistoryKept, AttemptKept, JobsStay
<1> QED BY <1>1, <1>2, <1>4, FewerFollow DEF Quiet

LEMMA ReleaseQuiet ==
  ASSUME EInv, NEW c \in claims, Release(c)
  PROVE  Quiet
<1>1. UNCHANGED <<run, attempt, prepared>> /\ claims' \subseteq claims
  BY DEF Release, Drop
<1>2. ColumnsKept
  BY <1>1 DEF ColumnsKept
<1>3. ASSUME NEW j \in Jobs
      PROVE  JobStays(j) /\ job'[j].attempt = job[j].attempt
  <2>1. job'[j] = job[j] \/ job'[j] = Unleased(job[j], "queued")
    BY Records DEF Release, EInv
  <2> QED BY <2>1, SameStays, UnleasedStays DEF JobStatuses
<1>4. HistoryKept /\ JobsStay
  BY <1>1, <1>3 DEF HistoryKept, AttemptKept, JobsStay
<1> QED BY <1>1, <1>2, <1>4, FewerFollow DEF Quiet

\* A heartbeat and the passing of time write the lease alone.
LEMMA LeaseQuiet ==
  ASSUME EInv, NEW j \in Jobs, NEW n, job' = [job EXCEPT ![j].lease = n],
         UNCHANGED <<run, attempt, prepared, claims>>
  PROVE  Quiet
<1>1. ColumnsKept
  BY DEF ColumnsKept
<1>2. ASSUME NEW i \in Jobs
      PROVE  JobStays(i) /\ job'[i].attempt = job[i].attempt
  <2>1. job[i] \in JobRecords
    BY Records DEF EInv
  <2>2. /\ job'[i].status = job[i].status /\ job'[i].token = job[i].token
        /\ job'[i].class = job[i].class /\ job'[i].attempt = job[i].attempt
    BY <2>1, Records DEF EInv, JobRecords
  <2> QED BY <2>2 DEF JobStays
<1>3. HistoryKept /\ JobsStay
  BY <1>2 DEF HistoryKept, AttemptKept, JobsStay
<1> QED BY <1>1, <1>3, FewerFollow DEF Quiet

LEMMA CommitOutputQuiet ==
  ASSUME EInv, NEW c \in claims, CommitAcceptedOutput(c) \/ RejectFinally(c)
  PROVE  Quiet
<1>1. UNCHANGED <<run, prepared>> /\ claims' \subseteq claims
  BY DEF CommitAcceptedOutput, RejectFinally, Drop
<1>2. ColumnsKept
  BY <1>1 DEF ColumnsKept
<1>3. ASSUME NEW j \in Jobs
      PROVE  JobStays(j) /\ job'[j].attempt = job[j].attempt
  <2>1. \/ job'[j] = job[j]
        \/ job'[j] = Unleased(job[j], "succeeded")
        \/ job'[j] = Unleased(job[j], "failed")
    BY Records DEF CommitAcceptedOutput, RejectFinally, EInv
  <2> QED BY <2>1, SameStays, UnleasedStays DEF JobStatuses
<1>4. ASSUME NEW a \in AttemptIds
      PROVE  AttemptKept(a)
  <2>1. /\ c.current \in AttemptIds
        /\ attempt[c.current].status = "running"
        /\ \/ attempt' = [attempt EXCEPT ![c.current].status = "succeeded"]
           \/ attempt' = [attempt EXCEPT ![c.current].status = "failed"]
    BY DEF EInv, IInv, ClaimsNameTheirAttempts, CommitAcceptedOutput,
       RejectFinally, BindingActive, Launched
  <2>2. CASE a = c.current
    <3>1. \/ attempt'[a] = [attempt[a] EXCEPT !.status = "succeeded"]
          \/ attempt'[a] = [attempt[a] EXCEPT !.status = "failed"]
      BY <2>1, <2>2, Records DEF EInv
    <3> QED BY <2>1, <2>2, <3>1, StatusKept
  <2>3. CASE a # c.current
    BY <2>1, <2>3, Records DEF EInv, AttemptKept
  <2> QED BY <2>2, <2>3
<1>5. HistoryKept /\ JobsStay
  BY <1>3, <1>4 DEF HistoryKept, JobsStay
<1> QED BY <1>1, <1>2, <1>5, FewerFollow DEF Quiet

LEMMA MarkReplacementRunningQuiet ==
  ASSUME EInv, NEW c \in claims, MarkReplacementRunning(c)
  PROVE  Quiet
<1>1. UNCHANGED <<run, prepared>> /\ Advance(c, "running")
  BY DEF MarkReplacementRunning
<1>2. ColumnsKept
  BY <1>1 DEF ColumnsKept
<1>3. ClaimsFollow({"claimed"} \cup Owing)
  <2>1. "running" \notin {"claimed"} \cup Owing
    BY DEF Owing
  <2> QED BY <1>1, <2>1, AdvanceFollows
<1>4. ASSUME NEW j \in Jobs
      PROVE  JobStays(j) /\ job'[j].attempt = job[j].attempt
  <2>1. job[j] \in JobRecords
    BY Records DEF EInv
  <2>2. \/ job'[j] = job[j]
        \/ job'[j] = [job[j] EXCEPT !.status = "running"]
        \/ job'[j] = [job[j] EXCEPT !.status = job[j].status]
    BY Records DEF MarkReplacementRunning, EInv
  <2>3. [job[j] EXCEPT !.status = job[j].status] = job[j]
    BY <2>1 DEF JobRecords
  <2> QED BY <2>2, <2>3, SameStays, StatusStays DEF JobStatuses
<1>5. ASSUME NEW a \in AttemptIds
      PROVE  AttemptKept(a)
  <2>1. /\ c.current \in AttemptIds /\ attempt[c.current].status # "unborn"
        /\ attempt' = [attempt EXCEPT ![c.current].status =
                         IF @ = "spawn-reserved" THEN "running" ELSE @]
    BY DEF EInv, IInv, ClaimsNameTheirAttempts, Exists, MarkReplacementRunning,
       Launched
  <2>2. CASE a = c.current
    <3>1. attempt'[a] = [attempt[a] EXCEPT !.status =
                           IF @ = "spawn-reserved" THEN "running" ELSE @]
      BY <2>1, <2>2, Records DEF EInv
    <3> QED BY <2>1, <2>2, <3>1, StatusKept
  <2>3. CASE a # c.current
    BY <2>1, <2>3, Records DEF EInv, AttemptKept
  <2> QED BY <2>2, <2>3
<1>6. HistoryKept /\ JobsStay
  BY <1>4, <1>5 DEF HistoryKept, JobsStay
<1> QED BY <1>1, <1>2, <1>3, <1>6 DEF Quiet

LEMMA CommitRequestedCancellationQuiet ==
  ASSUME EInv, NEW c \in claims, CommitRequestedCancellation(c)
  PROVE  Quiet
<1>1. /\ UNCHANGED prepared /\ claims' \subseteq claims
      /\ run' = [run EXCEPT ![RunOf(c.job)].status = CancelledWhenDone(RunOf(c.job), job')]
      /\ job' = [job EXCEPT ![c.job] = Unleased(@, "cancelled")]
      /\ attempt' = [attempt EXCEPT ![c.attempt].status =
                       IF @ \in ActiveStatuses THEN "cancelled" ELSE @]
      /\ c.attempt \in AttemptIds /\ attempt[c.attempt].status # "unborn"
  BY DEF CommitRequestedCancellation, Drop, EInv, IInv, ClaimsNameTheirAttempts,
     Exists
<1>2. ColumnsKept
  BY <1>1, ColumnsStay, Records DEF EInv
<1>3. ASSUME NEW j \in Jobs
      PROVE  JobStays(j) /\ job'[j].attempt = job[j].attempt
  <2>1. job'[j] = job[j] \/ job'[j] = Unleased(job[j], "cancelled")
    BY <1>1, Records DEF EInv
  <2> QED BY <2>1, SameStays, UnleasedStays DEF JobStatuses
<1>4. ASSUME NEW a \in AttemptIds
      PROVE  AttemptKept(a)
  <2>2. CASE a = c.attempt
    <3>1. attempt'[a] = [attempt[a] EXCEPT !.status =
                           IF @ \in ActiveStatuses THEN "cancelled" ELSE @]
      BY <1>1, <2>2, Records DEF EInv
    <3> QED BY <1>1, <2>2, <3>1, StatusKept
  <2>3. CASE a # c.attempt
    BY <1>1, <2>3, Records DEF EInv, AttemptKept
  <2> QED BY <2>2, <2>3
<1>5. HistoryKept /\ JobsStay
  BY <1>3, <1>4 DEF HistoryKept, JobsStay
<1> QED BY <1>1, <1>2, <1>5, FewerFollow DEF Quiet

LEMMA CommitAttemptQuiet ==
  ASSUME EInv, NEW c \in claims, NEW outcome \in Outcomes(c),
         CommitAttempt(c, outcome)
  PROVE  Quiet
<1> DEFINE s == JobStatusAfter(outcome)
           retried == [job[c.job] EXCEPT !.class =
                         IF s = "retry-wait" THEN outcome ELSE @]
           permanent == run[RunOf(c.job)].permanent \/ outcome = "permanent"
           status == IF ExhaustedIn(job', RunOf(c.job))
                     THEN ExhaustedStatus(permanent) ELSE run[RunOf(c.job)].status
<1>1. /\ UNCHANGED prepared /\ claims' \subseteq claims
      /\ job' = [job EXCEPT ![c.job] = Unleased(retried, s)]
      /\ attempt' = [attempt EXCEPT ![c.attempt].status =
           IF @ # "running" THEN @
           ELSE IF outcome = "accepted" THEN "succeeded" ELSE "failed"]
      /\ job[c.job].attempt = c.attempt /\ job[c.job].status = "running"
      /\ c.attempt \in AttemptIds /\ attempt[c.attempt].status # "unborn"
  BY DEF CommitAttempt, CommitFenceHolds, Drop, EInv, IInv,
     ClaimsNameTheirAttempts, Exists
<1>2. ColumnsKept
  <2>1. RunOf(c.job) \in Runs
    BY Records DEF EInv
  <2>2. run' = [run EXCEPT ![RunOf(c.job)].permanent = permanent,
                           ![RunOf(c.job)].status = IF ExhaustedIn(job', RunOf(c.job))
                              THEN ExhaustedStatus(permanent) ELSE @]
    BY DEF CommitAttempt
  <2> HIDE DEF permanent
  <2> QED BY <2>1, <2>2, Records DEF EInv, ColumnsKept, RunRecords
<1>3. s \in {"succeeded", "retry-wait", "failed"}
  BY DEF JobStatusAfter
<1>4. c.attempt # None
  BY <1>1 DEF AttemptIds, None
<1>5. ASSUME NEW j \in Jobs
      PROVE  JobStays(j) /\ job'[j].attempt = job[j].attempt
  <2>1. CASE j = c.job
    <3>1. job[j] \in JobRecords /\ job'[j] = Unleased(retried, s)
      BY <1>1, <2>1, Records DEF EInv
    <3>2. job'[j].status = s /\ job'[j].attempt = job[j].attempt
          /\ job'[j].token = job[j].token
      BY <2>1, <3>1 DEF Unleased, JobRecords
    <3> QED BY <1>1, <1>3, <1>4, <2>1, <3>2 DEF JobStays
  <2>2. CASE j # c.job
    BY <1>1, <2>2, Records, SameStays DEF EInv
  <2> QED BY <2>1, <2>2
<1>6. ASSUME NEW a \in AttemptIds
      PROVE  AttemptKept(a)
  <2>2. CASE a = c.attempt
    <3>1. attempt'[a] = [attempt[a] EXCEPT !.status =
            IF @ # "running" THEN @
            ELSE IF outcome = "accepted" THEN "succeeded" ELSE "failed"]
      BY <1>1, <2>2, Records DEF EInv
    <3> QED BY <1>1, <2>2, <3>1, StatusKept
  <2>3. CASE a # c.attempt
    BY <1>1, <2>3, Records DEF EInv, AttemptKept
  <2> QED BY <2>2, <2>3
<1>7. HistoryKept /\ JobsStay
  BY <1>5, <1>6 DEF HistoryKept, JobsStay
<1> QED BY <1>1, <1>2, <1>7, FewerFollow DEF Quiet

LEMMA RecoverExpiredQuiet ==
  ASSUME EInv, RecoverExpired
  PROVE  Quiet
<1>1. UNCHANGED <<prepared, claims>>
  BY DEF RecoverExpired
<1>2. ColumnsKept
  BY Records DEF EInv, ColumnsKept, RunRecords, RecoverExpired
<1>3. ASSUME NEW j \in Jobs
      PROVE  JobStays(j) /\ job'[j].attempt = job[j].attempt
  <2> DEFINE w == Unleased(job[j], "retry-wait")
             u == Unleased(job[j], "cancelled")
             v == Unleased(u, "retry-wait")
  <2>1. \/ job'[j] = job[j]
        \/ job'[j] = u
        \/ job[j].attempt # None /\ job'[j] = [w EXCEPT !.class = "transient"]
        \/ job[j].attempt # None /\ job'[j] = [v EXCEPT !.class = "transient"]
    BY DEF RecoverExpired
  <2>2. /\ w \in JobRecords /\ w.status = "retry-wait" /\ w.token = job[j].token
        /\ w.attempt = job[j].attempt /\ u \in JobRecords
        /\ u.token = job[j].token /\ u.attempt = job[j].attempt
    BY Records, UnleasedFacts DEF EInv, JobStatuses
  <2>3. CASE job'[j] = job[j]
    BY <2>3, SameStays
  <2>4. CASE job'[j] = u
    BY <2>4, UnleasedStays DEF JobStatuses
  <2> HIDE DEF u
  <2>5. /\ v \in JobRecords /\ v.status = "retry-wait"
        /\ v.token = job[j].token /\ v.attempt = job[j].attempt
    BY <2>2, UnleasedFacts DEF JobStatuses
  <2> HIDE DEF w, v
  <2>6. CASE job[j].attempt # None /\ job'[j] = [w EXCEPT !.class = "transient"]
    BY <2>2, <2>6 DEF JobStays, JobRecords
  <2>7. CASE job[j].attempt # None /\ job'[j] = [v EXCEPT !.class = "transient"]
    BY <2>5, <2>7 DEF JobStays, JobRecords
  <2> QED BY <2>1, <2>3, <2>4, <2>6, <2>7
<1>4. ASSUME NEW a \in AttemptIds
      PROVE  AttemptKept(a)
  <2>1. \/ attempt'[a] = attempt[a]
        \/ /\ a \in ActiveAttempts
           /\ \/ attempt'[a] = [attempt[a] EXCEPT !.status = "cancelled"]
              \/ attempt'[a] = [attempt[a] EXCEPT !.status = "unknown"]
    BY DEF RecoverExpired, ExpiredAttempts
  <2> QED BY <2>1, StatusKept DEF AttemptKept, ActiveAttempts, ActiveStatuses
<1>5. HistoryKept /\ JobsStay
  BY <1>3, <1>4 DEF HistoryKept, JobsStay
<1> QED BY <1>1, <1>2, <1>5, FewerFollow DEF Quiet

LEMMA OutageQuiet ==
  ASSUME EInv, UNCHANGED <<run, job, attempt, prepared>>, claims' \subseteq claims
  PROVE  Quiet
<1>1. ColumnsKept
  BY DEF ColumnsKept
<1> QED BY <1>1, FewerFollow, TablesQuiet

-----------------------------------------------------------------------------
(* A launch and a rewrite: an attempt is born. *)

Birth(j, a, p, o) ==
  /\ IsFresh(a)
  /\ IsNextOrdinal(RunOf(j), o)
  /\ \A b \in AttemptIds : b # a => AttemptKept(b)
  /\ attempt'[a].job = j
  /\ attempt'[a].replaces = p
  /\ attempt'[a].ordinal = o
  /\ attempt'[a].status # "unborn"
  /\ job'[j].attempt = a
  /\ \A i \in Jobs : i # j => job'[i].attempt = job[i].attempt
\* The attempt it replaces is the job's, and the limits have room for it.
MayReplace(j, p) ==
  /\ p = job[j].attempt /\ p # None
  /\ Cardinality(Replacements(RunOf(j))) < MaxRequiredReplacements
  /\ LogicalAttempts(j) < MaxAttemptsPerLogicalArtifact

LEMMA BirthFacts ==
  ASSUME EInv, HistoryInv, NEW a \in AttemptIds, IsFresh(a)
  PROVE  /\ ~Exists(a) /\ attempt[a].job \notin Jobs
         /\ \A b \in AttemptIds : Exists(b) => b < a
<1>1. ~Exists(a) /\ attempt[a].job \notin Jobs
  BY NullsAreFresh DEF IsFresh, Exists, EInv, IInv, AttemptsHaveJobs
<1>2. ASSUME NEW b \in AttemptIds, Exists(b)
      PROVE  b < a
  <2>1. ~(a < b) /\ b # a
    BY <1>1, <1>2 DEF HistoryInv, BirthsInOrder
  <2> QED BY <2>1 DEF AttemptIds
<1> QED BY <1>1, <1>2

LEMMA BirthSets ==
  ASSUME EInv, HistoryInv, NEW j \in Jobs, NEW a \in AttemptIds, NEW p,
         NEW o \in 1..MaxPhysicalLaunches, Birth(j, a, p, o), NEW r \in Runs
  PROVE  /\ Refunded(r)' = Refunded(r)
         /\ Burned(r)' \subseteq Burned(r) \cup {a}
         /\ r # RunOf(j) => Burned(r)' \subseteq Burned(r)
         /\ Launches(r)' = IF r = RunOf(j) THEN Launches(r) \cup {j} ELSE Launches(r)
         /\ Replacements(r)' = IF r = RunOf(j) /\ p # None
                               THEN Replacements(r) \cup {a} ELSE Replacements(r)
         /\ a \notin Replacements(r)
<1>1. a \notin AttemptsOf(r)
  BY BirthFacts, JobsFacts DEF Birth, AttemptsOf
<1>2. AttemptsOf(r)' = IF r = RunOf(j) THEN AttemptsOf(r) \cup {a} ELSE AttemptsOf(r)
  <2>1. a \in AttemptsOf(r)' <=> r = RunOf(j)
    BY JobsFacts DEF Birth, AttemptsOf
  <2>2. \A b \in AttemptIds : b # a => (b \in AttemptsOf(r)' <=> b \in AttemptsOf(r))
    BY DEF Birth, AttemptKept, AttemptsOf
  <2>3. AttemptsOf(r) \subseteq AttemptIds /\ AttemptsOf(r)' \subseteq AttemptIds
    BY DEF AttemptsOf, AttemptIds
  <2> QED BY <1>1, <2>1, <2>2, <2>3
<1>3. /\ attempt'[a].ordinal = o /\ attempt'[a].replaces = p /\ o # 0
      /\ \A b \in AttemptsOf(r) : b # a /\ AttemptKept(b)
  BY <1>1 DEF Birth, AttemptsOf
<1>4. Refunded(r)' = Refunded(r)
  BY <1>2, <1>3 DEF Refunded, AttemptKept
<1>5. /\ Burned(r)' \subseteq Burned(r) \cup {a}
      /\ r # RunOf(j) => Burned(r)' \subseteq Burned(r)
  BY <1>2, <1>3 DEF Burned, AttemptKept
<1>6. Replacements(r)' = IF r = RunOf(j) /\ p # None
                         THEN Replacements(r) \cup {a} ELSE Replacements(r)
  BY <1>2, <1>3 DEF Replacements, AttemptKept
<1>7. Launches(r)' = IF r = RunOf(j) THEN Launches(r) \cup {j} ELSE Launches(r)
  <2>1. a # None
    BY DEF AttemptIds, None
  <2>2. j \in JobsOf(r) <=> r = RunOf(j)
    BY JobsFacts
  <2>3. \A i \in JobsOf(r) : i # j => job'[i].attempt = job[i].attempt
    BY JobsFacts DEF Birth
  <2> QED BY <2>1, <2>2, <2>3 DEF Birth, Launches
<1> QED BY <1>1, <1>4, <1>5, <1>6, <1>7 DEF Replacements

\* What is replaced was the last attempt of its job, so it is not replaced yet.
LEMMA ReplacesTheLast ==
  ASSUME EInv, HistoryInv, NEW j \in Jobs, NEW p, MayReplace(j, p)
  PROVE  /\ p \in AttemptIds /\ Exists(p) /\ attempt[p].job = j
         /\ \A b \in AttemptIds : attempt[b].replaces # p
<1>1. p \in AttemptIds /\ Exists(p) /\ attempt[p].job = j
  BY Records DEF EInv, IInv, PointersResolve, MayReplace, JobRecords
<1>2. ASSUME NEW b \in AttemptIds, attempt[b].replaces = p
      PROVE  FALSE
  <2>1. p < b /\ attempt[b].job = j
    BY <1>1, <1>2 DEF HistoryInv, ReplacesEarlier, MayReplace
  <2>2. Exists(b)
    BY <1>2 DEF HistoryInv, UnbornIsBlank, MayReplace
  <2>3. b <= p
    BY <2>1, <2>2 DEF HistoryInv, PointerIsLatest, MayReplace
  <2> QED BY <1>1, <2>1, <2>3 DEF AttemptIds
<1> QED BY <1>1, <1>2

LEMMA BirthKeepsOrder ==
  ASSUME EInv, HistoryInv, NEW j \in Jobs, NEW a \in AttemptIds, NEW p,
         NEW o \in 1..MaxPhysicalLaunches, Birth(j, a, p, o),
         p = None \/ MayReplace(j, p)
  PROVE  /\ BirthsInOrder' /\ UnbornIsBlank' /\ PointerIsLatest'
         /\ ReplacesEarlier' /\ ReplacedOnce'
<1>1. /\ ~Exists(a) /\ attempt[a].job \notin Jobs
      /\ \A b \in AttemptIds : Exists(b) => b < a
  BY BirthFacts DEF Birth
<1>2. /\ Exists(a)' /\ \A b \in AttemptIds : b # a => AttemptKept(b)
      /\ \A b \in AttemptIds : b # a => (Exists(b)' <=> Exists(b))
  BY DEF Birth, Exists, AttemptKept
<1>3. BirthsInOrder'
  <2> SUFFICES ASSUME NEW b \in AttemptIds, NEW d \in AttemptIds, b < d, Exists(d)'
               PROVE  Exists(b)'
    BY DEF BirthsInOrder
  <2>1. CASE d = a
    BY <1>2, <2>1 DEF Birth, IsFresh, Exists
  <2>2. CASE d # a
    BY <1>2, <2>2 DEF HistoryInv, BirthsInOrder
  <2> QED BY <2>1, <2>2
<1>4. UnbornIsBlank'
  BY <1>2 DEF HistoryInv, UnbornIsBlank, AttemptKept
<1>5. PointerIsLatest'
  <2> SUFFICES ASSUME NEW b \in AttemptIds, Exists(b)'
               PROVE  b <= job'[attempt'[b].job].attempt
    BY DEF PointerIsLatest
  <2>1. CASE b = a
    BY <2>1 DEF Birth, AttemptIds
  <2>2. CASE b # a /\ attempt[b].job = j
    BY <1>1, <1>2, <2>2 DEF Birth, AttemptKept, AttemptIds
  <2>3. CASE b # a /\ attempt[b].job # j
    <3>1. Exists(b) /\ attempt'[b].job = attempt[b].job /\ attempt[b].job \in Jobs
      BY <1>2, <2>3 DEF AttemptKept, EInv, IInv, AttemptsHaveJobs
    <3> QED BY <2>3, <3>1 DEF Birth, HistoryInv, PointerIsLatest
  <2> QED BY <2>1, <2>2, <2>3
<1>6. ReplacesEarlier'
  <2> SUFFICES ASSUME NEW b \in AttemptIds, attempt'[b].replaces # None
               PROVE  /\ attempt'[b].replaces \in AttemptIds
                      /\ attempt'[b].replaces < b
                      /\ attempt'[attempt'[b].replaces].job = attempt'[b].job
    BY DEF ReplacesEarlier, AttemptIds, None
  <2>1. CASE b = a
    <3>1. p \in AttemptIds /\ Exists(p) /\ attempt[p].job = j
      BY <2>1, ReplacesTheLast DEF Birth
    <3> QED BY <1>1, <1>2, <2>1, <3>1 DEF Birth, AttemptKept
  <2>2. CASE b # a
    <3> DEFINE q == attempt[b].replaces
    <3>1. attempt'[b].replaces = q /\ attempt'[b].job = attempt[b].job
      BY <1>2, <2>2 DEF AttemptKept
    <3>2. q \in AttemptIds /\ q < b /\ attempt[q].job = attempt[b].job
      BY <3>1 DEF HistoryInv, ReplacesEarlier
    <3>3. attempt[b].job \in Jobs
      BY <3>1 DEF HistoryInv, UnbornIsBlank, EInv, IInv, AttemptsHaveJobs
    <3>4. attempt'[q].job = attempt[q].job
      BY <1>1, <1>2, <3>2, <3>3 DEF AttemptKept
    <3> HIDE DEF q
    <3> QED BY <3>1, <3>2, <3>4
  <2> QED BY <2>1, <2>2
<1>7. ReplacedOnce'
  <2> SUFFICES ASSUME NEW b \in AttemptIds, NEW d \in AttemptIds, b # d,
                      attempt'[b].replaces # None,
                      attempt'[b].replaces = attempt'[d].replaces
               PROVE  FALSE
    BY DEF ReplacedOnce
  <2>1. \A e \in AttemptIds : e # a => attempt'[e].replaces = attempt[e].replaces
    BY <1>2 DEF AttemptKept
  <2>2. attempt'[a].replaces = p
    BY DEF Birth
  <2>3. p # None => \A e \in AttemptIds : attempt[e].replaces # p
    BY ReplacesTheLast
  <2>4. CASE b # a /\ d # a
    BY <2>1, <2>4 DEF HistoryInv, ReplacedOnce
  <2>5. CASE b = a
    BY <2>1, <2>2, <2>3, <2>5
  <2>6. CASE d = a
    BY <2>1, <2>2, <2>3, <2>6
  <2> QED BY <2>4, <2>5, <2>6
<1> QED BY <1>3, <1>4, <1>5, <1>6, <1>7

LEMMA BirthKeepsLimits ==
  ASSUME EInv, HistoryInv, NEW j \in Jobs, NEW a \in AttemptIds, NEW p,
         NEW o \in 1..MaxPhysicalLaunches, Birth(j, a, p, o),
         p = None \/ MayReplace(j, p)
  PROVE  OrdinalsDiffer' /\ OrdinalsWithin' /\ ReplacementsWithin' /\ LogicalWithin'
<1>1. \A b \in AttemptIds : b # a => AttemptKept(b)
  BY DEF Birth
<1>2. OrdinalsDiffer'
  <2> SUFFICES ASSUME NEW r \in Runs, NEW b \in Burned(r)', NEW d \in Burned(r)',
                      b # d
               PROVE  attempt'[b].ordinal # attempt'[d].ordinal
    BY DEF OrdinalsDiffer
  <2>1. \A e \in Burned(r)' : e \in AttemptIds
    BY DEF Burned, AttemptsOf, AttemptIds
  <2>2. \A e \in Burned(r)' :
          \/ e = a /\ r = RunOf(j) /\ attempt'[e].ordinal = o
          \/ e # a /\ e \in Burned(r) /\ attempt'[e].ordinal = attempt[e].ordinal
    <3>1. /\ Burned(r)' \subseteq Burned(r) \cup {a}
          /\ r # RunOf(j) => Burned(r)' \subseteq Burned(r)
      BY BirthSets
    <3>2. a \notin Burned(r)
      BY BirthFacts, JobsFacts DEF Birth, Burned, AttemptsOf
    <3> QED BY <1>1, <2>1, <3>1, <3>2 DEF Birth, AttemptKept
  <2>3. r = RunOf(j) => \A e \in Burned(r) : attempt[e].ordinal < o
    BY DEF Birth, IsNextOrdinal
  <2>4. \A e \in Burned(r) : attempt[e].ordinal \in Nat
    BY Records DEF EInv, AttemptRecords, Burned, AttemptsOf
  <2>5. \A e, f \in Burned(r) : e # f => attempt[e].ordinal # attempt[f].ordinal
    BY DEF HistoryInv, OrdinalsDiffer
  <2> QED BY <2>2, <2>3, <2>4, <2>5
<1>3. OrdinalsWithin'
  BY <1>1 DEF HistoryInv, OrdinalsWithin, AttemptKept, Birth
<1>4. ReplacementsWithin'
  <2> SUFFICES ASSUME NEW r \in Runs
               PROVE  Cardinality(Replacements(r)') <= MaxRequiredReplacements
    BY DEF ReplacementsWithin
  <2>1. Replacements(r) \in SUBSET AttemptIds /\ MaxRequiredReplacements \in Nat
    BY BoundsAreNatural DEF Replacements, AttemptsOf
  <2>2. IsFiniteSet(Replacements(r))
    BY <2>1, AttemptsAreFinite
  <2>3. CASE r = RunOf(j) /\ p # None
    <3>1. Replacements(r)' \in SUBSET (Replacements(r) \cup {a})
      BY <2>3, BirthSets
    <3>2. Cardinality(Replacements(r)) < MaxRequiredReplacements
      BY <2>3 DEF MayReplace
    <3> QED BY <2>1, <2>2, <3>1, <3>2, RoomForOne
  <2>4. CASE ~(r = RunOf(j) /\ p # None)
    BY <2>4, BirthSets DEF HistoryInv, ReplacementsWithin
  <2> QED BY <2>3, <2>4
<1>5. LogicalWithin'
  <2> SUFFICES ASSUME NEW i \in Jobs
               PROVE  LogicalAttempts(i)' <= MaxAttemptsPerLogicalArtifact
    BY DEF LogicalWithin
  <2> DEFINE S == {b \in AttemptIds : attempt[b].job = i /\ attempt[b].replaces # None}
             T == {b \in AttemptIds : attempt'[b].job = i /\ attempt'[b].replaces # None}
  <2>1. LogicalAttempts(i) = 1 + Cardinality(S)
        /\ LogicalAttempts(i)' = 1 + Cardinality(T)
    BY DEF LogicalAttempts
  <2>2. /\ IsFiniteSet(S) /\ Cardinality(S) \in Nat /\ T \in SUBSET AttemptIds
        /\ MaxAttemptsPerLogicalArtifact \in Nat
    BY AttemptsAreFinite, BoundsAreNatural
  <2>3. \A b \in T : b # a => b \in S
    BY <1>1 DEF AttemptKept
  <2>4. CASE i = j /\ p # None
    <3>1. T \in SUBSET (S \cup {a})
      BY <2>3
    <3>2. 1 + Cardinality(S) < MaxAttemptsPerLogicalArtifact
      BY <2>1, <2>4 DEF MayReplace
    <3> HIDE DEF S, T
    <3>3. Cardinality(S) < MaxAttemptsPerLogicalArtifact - 1
          /\ MaxAttemptsPerLogicalArtifact - 1 \in Nat
      BY <2>2, <3>2
    <3>4. Cardinality(T) <= MaxAttemptsPerLogicalArtifact - 1
      BY <2>2, <3>1, <3>3, RoomForOne
    <3>5. Cardinality(T) \in Nat
      BY <2>2, AttemptsAreFinite
    <3> QED BY <2>1, <2>2, <3>4, <3>5
  <2>5. CASE ~(i = j /\ p # None)
    <3>1. a \notin T
      BY <2>5 DEF Birth
    <3>2. T \in SUBSET S
      BY <2>3, <3>1
    <3>3. 1 + Cardinality(S) <= MaxAttemptsPerLogicalArtifact
      BY <2>1 DEF HistoryInv, LogicalWithin
    <3> HIDE DEF S, T
    <3>4. Cardinality(T) <= Cardinality(S) /\ Cardinality(T) \in Nat
      BY <2>2, <3>2, FS_Subset, AttemptsAreFinite
    <3> QED BY <2>1, <2>2, <3>3, <3>4
  <2> QED BY <2>4, <2>5
<1> QED BY <1>2, <1>3, <1>4, <1>5

LEMMA BirthKeepsHistory ==
  ASSUME EInv, HistoryInv, NEW j \in Jobs, NEW a \in AttemptIds, NEW p,
         NEW o \in 1..MaxPhysicalLaunches, Birth(j, a, p, o),
         p = None \/ MayReplace(j, p)
  PROVE  HistoryInv'
  BY BirthKeepsOrder, BirthKeepsLimits DEF HistoryInv

LEMMA LaunchIsBirth ==
  ASSUME EInv, HistoryInv, MemoryInv, NEW c \in claims, Launch(c)
  PROVE  \E a \in AttemptIds, o \in 1..MaxPhysicalLaunches :
           LET p == IF Rewrites(c) THEN c.prior ELSE None IN
             /\ Birth(c.job, a, p, o)
             /\ p = None \/ MayReplace(c.job, p)
             /\ claims' = (claims \ {c}) \cup
                  {[c EXCEPT !.phase = "running", !.attempt = a, !.current = a]}
             /\ job' = [job EXCEPT ![c.job].status = "running", ![c.job].attempt = a]
             /\ c.prior = job[c.job].attempt /\ c.class = job[c.job].class
<1> DEFINE j == c.job
           p == IF Rewrites(c) THEN c.prior ELSE None
<1>1. /\ j \in Jobs /\ job[j] \in JobRecords /\ RunOf(j) \in Runs
  BY Records DEF EInv
<1>2. PICK o \in 1..MaxPhysicalLaunches, a \in AttemptIds :
        /\ IsNextOrdinal(RunOf(j), o)
        /\ IsFresh(a)
        /\ attempt' = [attempt EXCEPT ![a] =
             [status |-> "running", job |-> j, ordinal |-> o, replaces |-> p]]
        /\ job' = [job EXCEPT ![j].status = "running", ![j].attempt = a]
        /\ claims' = (claims \ {c}) \cup
             {[c EXCEPT !.phase = "running", !.attempt = a, !.current = a]}
  BY DEF Launch
<1>3. c.prior = job[j].attempt /\ c.class = job[j].class
  BY DEF MemoryInv, ClaimIsCurrent, Launch, CanReserve, Reserving, FenceHolds
<1>4. Birth(j, a, p, o)
  <2> HIDE DEF p, j
  <2>1. \A b \in AttemptIds : b # a => AttemptKept(b)
    BY <1>2, Records DEF EInv, AttemptKept
  <2>2. /\ attempt'[a].job = j /\ attempt'[a].replaces = p
        /\ attempt'[a].ordinal = o /\ attempt'[a].status # "unborn"
    BY <1>2, Records DEF EInv
  <2>3. job'[j].attempt = a
        /\ \A i \in Jobs : i # j => job'[i].attempt = job[i].attempt
    BY <1>1, <1>2, Records DEF EInv, JobRecords
  <2> QED BY <1>2, <2>1, <2>2, <2>3 DEF Birth
<1>5. p = None \/ MayReplace(j, p)
  <2> SUFFICES ASSUME Rewrites(c) PROVE MayReplace(j, c.prior)
    OBVIOUS
  <2>1. /\ ~(LogicalAttempts(j) >= MaxAttemptsPerLogicalArtifact)
        /\ ~(Cardinality(Replacements(RunOf(j))) >= MaxRequiredReplacements)
    BY DEF Launch, CanReserve, OverBudget
  <2>2. /\ Replacements(RunOf(j)) \in SUBSET AttemptIds
        /\ {b \in AttemptIds : attempt[b].job = j /\ attempt[b].replaces # None}
             \in SUBSET AttemptIds
    BY DEF Replacements, AttemptsOf
  <2>3. /\ Cardinality(Replacements(RunOf(j))) \in Nat /\ LogicalAttempts(j) \in Nat
    BY <2>2, AttemptsAreFinite DEF LogicalAttempts
  <2> QED BY <1>3, <2>1, <2>3, BoundsAreNatural DEF MayReplace, Rewrites
<1> QED BY <1>2, <1>3, <1>4, <1>5

\* The job that is launched stays in the sense of MemoryStays.
LEMMA LaunchedStays ==
  ASSUME EInv, NEW j \in Jobs, NEW a \in AttemptIds, job[j].status # "absent",
         NEW s \in {"running", "spawn-reserved"},
         job' = [job EXCEPT ![j].status = s, ![j].attempt = a]
  PROVE  /\ JobsStay
         /\ \A i \in Jobs : \/ job'[i].attempt = job[i].attempt
                            \/ job'[i].attempt # None /\ job'[i].status # "leased"
<1>1. \A i \in Jobs : i # j => job'[i] = job[i]
  BY Records DEF EInv
<1>2. /\ job'[j].status = s /\ job'[j].attempt = a
      /\ job'[j].token = job[j].token /\ job'[j].class = job[j].class
  BY Records DEF EInv, JobRecords
<1>3. a # None
  BY DEF AttemptIds, None
<1>4. JobsStay
  BY <1>1, <1>2, SameStays DEF JobsStay, JobStays
<1> QED BY <1>1, <1>2, <1>3, <1>4

\* A launch pays for what it adds.
LEMMA LaunchKeepsLedger ==
  ASSUME EInv, HistoryInv, MemoryInv, LedgerInv, NEW c \in claims, Launch(c)
  PROVE  LedgerInv'
<1> SUFFICES ASSUME NEW r \in Runs
             PROVE  BaseBalances(r)' /\ ReturnedOnce(r)' /\ RewritesAreCharged(r)'
  BY DEF LedgerInv
<1> DEFINE j == c.job
           p == IF Rewrites(c) THEN c.prior ELSE None
<1>1. /\ j \in Jobs /\ job[j] \in JobRecords /\ RunOf(j) \in Runs /\ c \in Claims
      /\ j \in JobsOf(RunOf(j))
  BY Records, JobsFacts DEF EInv
<1>2. PICK a \in AttemptIds, o \in 1..MaxPhysicalLaunches :
        /\ Birth(j, a, p, o)
        /\ claims' = (claims \ {c}) \cup
             {[c EXCEPT !.phase = "running", !.attempt = a, !.current = a]}
        /\ c.prior = job[j].attempt /\ c.class = job[j].class
  BY LaunchIsBirth
<1>3. /\ Refunded(r)' = Refunded(r)
      /\ Launches(r)' = IF r = RunOf(j) THEN Launches(r) \cup {j} ELSE Launches(r)
      /\ Replacements(r)' = IF r = RunOf(j) /\ p # None
                            THEN Replacements(r) \cup {a} ELSE Replacements(r)
      /\ a \notin Replacements(r)
  BY <1>1, <1>2, BirthSets
<1>4. Unreturned(r)' \subseteq Unreturned(r) /\ Uncharged(r)' \subseteq Uncharged(r)
  <2>1. [c EXCEPT !.phase = "running", !.attempt = a, !.current = a].phase = "running"
    BY <1>1 DEF Claims
  <2> QED BY <1>2, <2>1 DEF Unreturned, Uncharged
<1>5. BaseBalances(r) /\ ReturnedOnce(r) /\ RewritesAreCharged(r)
  BY DEF LedgerInv
<1>6. /\ run[r] \in RunRecords /\ run[r].base \in Nat /\ run[r].repl \in Nat
      /\ Cardinality(Refunded(r)) \in Nat /\ Cardinality(Replacements(r)) \in Nat
      /\ IsFiniteSet(Replacements(r)) /\ MaxRequiredReplacements \in Nat
      /\ MandatoryFirstAttempts \in Nat
  <2>1. /\ Replacements(r) \in SUBSET AttemptIds /\ Refunded(r) \in SUBSET AttemptIds
    BY DEF Replacements, Refunded, AttemptsOf
  <2> QED BY <2>1, AttemptsAreFinite, Records, BoundsAreNatural DEF EInv, RunRecords
<1>7. /\ run'[r].base = IF r = RunOf(j) /\ BudgetColumn(c) = "base"
                        THEN run[r].base - 1 ELSE run[r].base
      /\ run'[r].repl = IF r = RunOf(j) /\ BudgetColumn(c) = "repl"
                        THEN run[r].repl - 1 ELSE run[r].repl
  BY <1>1, Records DEF EInv, Launch, RunRecords
<1>8. UNCHANGED prepared
  BY DEF Launch
<1>9. ReturnedOnce(r)'
  BY <1>3, <1>4, <1>5, <1>8 DEF ReturnedOnce
<1>10. c.class = "transient" => c.prior # None
  BY <1>1, <1>2 DEF MemoryInv, ClassMeansTried
<1> HIDE DEF p, j
<1>11. BaseBalances(r)'
  <2>1. r = RunOf(j) => (j \in Launches(r) <=> c.prior # None)
    BY <1>1, <1>2 DEF Launches
  <2>2. BudgetColumn(c) = "base" <=> c.prior = None
    BY <1>10 DEF BudgetColumn
  <2>3. CASE r = RunOf(j) /\ c.prior = None
    <3>1. IsFiniteSet(Launches(r)) /\ Cardinality(Launches(r)) \in Nat
      BY <1>5, FS_CardinalityType DEF BaseBalances
    <3>2. Launches(r)' = Launches(r) \cup {j} /\ j \notin Launches(r)
      BY <1>3, <2>1, <2>3
    <3>3. /\ IsFiniteSet(Launches(r)')
          /\ Cardinality(Launches(r)') = Cardinality(Launches(r)) + 1
      BY <3>1, <3>2, FS_AddElement
    <3>4. run'[r].base = run[r].base - 1
      BY <1>7, <2>2, <2>3
    <3>5. run[r].base + Cardinality(Launches(r))
            = MandatoryFirstAttempts + Cardinality(Refunded(r))
      BY <1>5 DEF BaseBalances
    <3>6. Cardinality(Refunded(r)') = Cardinality(Refunded(r))
      BY <1>3
    <3>7. run'[r].base + Cardinality(Launches(r)')
            = MandatoryFirstAttempts + Cardinality(Refunded(r)')
      BY <1>6, <3>1, <3>3, <3>4, <3>5, <3>6
    <3> QED BY <3>3, <3>7 DEF BaseBalances
  <2>4. CASE ~(r = RunOf(j) /\ c.prior = None)
    <3>1. Launches(r)' = Launches(r) /\ run'[r].base = run[r].base
      BY <1>3, <1>7, <2>1, <2>2, <2>4
    <3> QED BY <1>3, <1>5, <3>1 DEF BaseBalances
  <2> QED BY <2>3, <2>4
<1>12. RewritesAreCharged(r)'
  <2>1. BudgetColumn(c) = "repl" <=> p # None
    BY DEF BudgetColumn, p, Rewrites
  <2>2. /\ IsFiniteSet(Uncharged(r)')
        /\ MaxRequiredReplacements - run[r].repl + Cardinality(Uncharged(r)')
             <= Cardinality(Replacements(r))
    BY <1>4, <1>5, <1>6, FewerOwe DEF RewritesAreCharged
  <2>3. Cardinality(Uncharged(r)') \in Nat
    BY <2>2, FS_CardinalityType
  <2>4. CASE r = RunOf(j) /\ p # None
    <3>1. Cardinality(Replacements(r)') = Cardinality(Replacements(r)) + 1
      BY <1>3, <1>6, <2>4, FS_AddElement
    <3>2. run'[r].repl = run[r].repl - 1
      BY <1>7, <2>1, <2>4
    <3> QED BY <1>6, <2>2, <2>3, <3>1, <3>2 DEF RewritesAreCharged
  <2>5. CASE ~(r = RunOf(j) /\ p # None)
    <3>1. Replacements(r)' = Replacements(r) /\ run'[r].repl = run[r].repl
      BY <1>3, <1>7, <2>1, <2>5
    <3> QED BY <2>2, <3>1 DEF RewritesAreCharged
  <2> QED BY <2>4, <2>5
<1> QED BY <1>9, <1>11, <1>12

LEMMA LaunchKeepsLimits ==
  ASSUME EInv, HistoryInv, MemoryInv, LedgerInv, NEW c \in claims, Launch(c)
  PROVE  HistoryInv' /\ MemoryInv' /\ LedgerInv'
<1>1. PICK a \in AttemptIds, o \in 1..MaxPhysicalLaunches :
        LET p == IF Rewrites(c) THEN c.prior ELSE None IN
          /\ Birth(c.job, a, p, o)
          /\ p = None \/ MayReplace(c.job, p)
          /\ claims' = (claims \ {c}) \cup
               {[c EXCEPT !.phase = "running", !.attempt = a, !.current = a]}
          /\ job' = [job EXCEPT ![c.job].status = "running", ![c.job].attempt = a]
  BY LaunchIsBirth
<1>2. c.job \in Jobs /\ c \in Claims
  BY Records DEF EInv
<1>3. HistoryInv'
  <2> DEFINE p == IF Rewrites(c) THEN c.prior ELSE None
  <2>1. Birth(c.job, a, p, o) /\ (p = None \/ MayReplace(c.job, p))
    BY <1>1
  <2> HIDE DEF p
  <2> QED BY <1>2, <2>1, BirthKeepsHistory
<1>4. MemoryInv'
  <2>1. ClaimsFollow({"claimed"})
    <3> DEFINE d == [c EXCEPT !.phase = "running", !.attempt = a, !.current = a]
    <3>1. d.phase = "running" /\ d.job = c.job /\ d.token = c.token
      BY <1>2 DEF Claims
    <3>2. claims' = (claims \ {c}) \cup {d}
      BY <1>1
    <3> HIDE DEF d
    <3> QED BY <3>1, <3>2 DEF ClaimsFollow, Follows
  <2>2. job[c.job].status # "absent"
    BY DEF Launch, FenceHolds
  <2>3. job' = [job EXCEPT ![c.job].status = "running", ![c.job].attempt = a]
    BY <1>1
  <2> QED BY <1>2, <2>1, <2>2, <2>3, LaunchedStays, MemoryStays
<1> QED BY <1>3, <1>4, LaunchKeepsLedger

\* A rewrite is counted when its attempt is born and charged afterwards.
LEMMA RewriteIsBirth ==
  ASSUME EInv, HistoryInv, NEW c \in claims, RejectForRewrite(c)
  PROVE  \E a \in AttemptIds, o \in 1..MaxPhysicalLaunches :
           /\ Birth(c.job, a, c.current, o)
           /\ MayReplace(c.job, c.current)
           /\ claims' = (claims \ {c}) \cup
                {[c EXCEPT !.phase = "rejected", !.current = a]}
           /\ job' = [job EXCEPT ![c.job].status = "spawn-reserved",
                                 ![c.job].attempt = a]
<1> DEFINE j == c.job
<1>1. /\ j \in Jobs /\ job[j] \in JobRecords /\ RunOf(j) \in Runs
  BY Records DEF EInv
<1>2. PICK o \in 1..MaxPhysicalLaunches, a \in AttemptIds :
        /\ IsNextOrdinal(RunOf(j), o)
        /\ IsFresh(a)
        /\ attempt' = [attempt EXCEPT
             ![c.current].status = "failed",
             ![a] = [status |-> "spawn-reserved", job |-> j, ordinal |-> o,
                     replaces |-> c.current]]
        /\ job' = [job EXCEPT ![j].status = "spawn-reserved", ![j].attempt = a]
        /\ claims' = (claims \ {c}) \cup
             {[c EXCEPT !.phase = "rejected", !.current = a]}
  BY DEF RejectForRewrite
<1>3. /\ c.current \in AttemptIds /\ attempt[c.current].status = "running"
      /\ c.current # None /\ c.current = job[j].attempt /\ c.current # a
  BY <1>2 DEF EInv, IInv, ClaimsNameTheirAttempts, RejectForRewrite,
     BindingActive, Launched, AttemptIds, None, IsFresh
<1>4. Birth(j, a, c.current, o)
  <2> HIDE DEF j
  <2>1. ASSUME NEW b \in AttemptIds, b # a
        PROVE  AttemptKept(b)
    <3>1. CASE b = c.current
      <4>1. attempt'[b] = [attempt[b] EXCEPT !.status = "failed"]
        BY <1>2, <1>3, <2>1, <3>1, Records DEF EInv
      <4> QED BY <1>3, <3>1, <4>1, StatusKept
    <3>2. CASE b # c.current
      BY <1>2, <1>3, <2>1, <3>2, Records DEF EInv, AttemptKept
    <3> QED BY <3>1, <3>2
  <2>2. /\ attempt'[a].job = j /\ attempt'[a].replaces = c.current
        /\ attempt'[a].ordinal = o /\ attempt'[a].status # "unborn"
    BY <1>2, <1>3, Records DEF EInv
  <2>3. job'[j].attempt = a
        /\ \A i \in Jobs : i # j => job'[i].attempt = job[i].attempt
    BY <1>1, <1>2, Records DEF EInv, JobRecords
  <2> QED BY <1>2, <2>1, <2>2, <2>3 DEF Birth
<1>5. MayReplace(j, c.current)
  <2>1. /\ ~(LogicalAttempts(j) >= MaxAttemptsPerLogicalArtifact)
        /\ ~(Cardinality(Replacements(RunOf(j))) >= MaxRequiredReplacements)
    BY DEF RejectForRewrite, RewriteRefused
  <2>2. /\ Replacements(RunOf(j)) \in SUBSET AttemptIds
        /\ {b \in AttemptIds : attempt[b].job = j /\ attempt[b].replaces # None}
             \in SUBSET AttemptIds
    BY DEF Replacements, AttemptsOf
  <2>3. /\ Cardinality(Replacements(RunOf(j))) \in Nat /\ LogicalAttempts(j) \in Nat
    BY <2>2, AttemptsAreFinite DEF LogicalAttempts
  <2> QED BY <1>3, <2>1, <2>3, BoundsAreNatural DEF MayReplace
<1> QED BY <1>2, <1>4, <1>5

LEMMA RewriteKeepsLedger ==
  ASSUME EInv, HistoryInv, LedgerInv, NEW c \in claims, RejectForRewrite(c)
  PROVE  LedgerInv'
<1> SUFFICES ASSUME NEW r \in Runs
             PROVE  BaseBalances(r)' /\ ReturnedOnce(r)' /\ RewritesAreCharged(r)'
  BY DEF LedgerInv
<1> DEFINE j == c.job
<1>1. /\ j \in Jobs /\ RunOf(j) \in Runs /\ c \in Claims /\ j \in JobsOf(RunOf(j))
  BY Records, JobsFacts DEF EInv
<1>2. PICK a \in AttemptIds, o \in 1..MaxPhysicalLaunches :
        /\ Birth(j, a, c.current, o)
        /\ MayReplace(j, c.current)
        /\ claims' = (claims \ {c}) \cup
             {[c EXCEPT !.phase = "rejected", !.current = a]}
  BY RewriteIsBirth
<1> DEFINE d == [c EXCEPT !.phase = "rejected", !.current = a]
<1>3. d.phase = "rejected" /\ d.job = j /\ claims' = (claims \ {c}) \cup {d}
  BY <1>1, <1>2 DEF Claims
<1> HIDE DEF j, d
<1>4. /\ Refunded(r)' = Refunded(r)
      /\ Launches(r)' = IF r = RunOf(j) THEN Launches(r) \cup {j} ELSE Launches(r)
      /\ Replacements(r)' = IF r = RunOf(j) THEN Replacements(r) \cup {a}
                            ELSE Replacements(r)
      /\ a \notin Replacements(r)
  BY <1>1, <1>2, BirthSets DEF MayReplace
<1>5. Launches(r)' = Launches(r)
  BY <1>1, <1>2, <1>4 DEF Launches, MayReplace
<1>6. /\ Unreturned(r)' \subseteq Unreturned(r)
      /\ Uncharged(r)' \subseteq Uncharged(r) \cup {d}
      /\ r # RunOf(j) => Uncharged(r)' \subseteq Uncharged(r)
  BY <1>3 DEF Unreturned, Uncharged
<1>7. BaseBalances(r) /\ ReturnedOnce(r) /\ RewritesAreCharged(r)
  BY DEF LedgerInv
<1>8. UNCHANGED <<run, prepared>>
  BY DEF RejectForRewrite
<1>9. /\ run[r].repl \in Nat /\ Cardinality(Replacements(r)) \in Nat
      /\ IsFiniteSet(Replacements(r)) /\ MaxRequiredReplacements \in Nat
  <2>1. Replacements(r) \in SUBSET AttemptIds
    BY DEF Replacements, AttemptsOf
  <2> QED BY <2>1, AttemptsAreFinite, Records, BoundsAreNatural DEF EInv, RunRecords
<1>10. BaseBalances(r)' /\ ReturnedOnce(r)'
  <2>1. BaseBalances(r)'
    BY <1>4, <1>5, <1>7, <1>8 DEF BaseBalances
  <2>2. ReturnedOnce(r)'
    BY <1>4, <1>6, <1>7, <1>8 DEF ReturnedOnce
  <2> QED BY <2>1, <2>2
<1>11. RewritesAreCharged(r)'
  <2>1. CASE r = RunOf(j)
    <3>1. Cardinality(Replacements(r)') = Cardinality(Replacements(r)) + 1
      BY <1>4, <1>9, <2>1, FS_AddElement
    <3>2. /\ IsFiniteSet(Uncharged(r))
          /\ MaxRequiredReplacements - run[r].repl + Cardinality(Uncharged(r))
               <= Cardinality(Replacements(r))
      BY <1>7 DEF RewritesAreCharged
    <3>3. IsFiniteSet(Uncharged(r) \cup {d})
          /\ Cardinality(Uncharged(r) \cup {d})
               = IF d \in Uncharged(r) THEN Cardinality(Uncharged(r))
                 ELSE Cardinality(Uncharged(r)) + 1
      BY <3>2, FS_AddElement
    <3>4. Uncharged(r)' \in SUBSET (Uncharged(r) \cup {d})
      BY <1>6
    <3>5. Cardinality(Uncharged(r)) \in Nat
      BY <3>2, FS_CardinalityType
    <3>6. /\ IsFiniteSet(Uncharged(r)')
          /\ Cardinality(Uncharged(r)') <= Cardinality(Uncharged(r) \cup {d})
      BY <3>3, <3>4, FS_Subset
    <3>7. Cardinality(Uncharged(r)') \in Nat
      BY <3>6, FS_CardinalityType
    <3>8. Cardinality(Uncharged(r)') <= Cardinality(Uncharged(r)) + 1
      BY <3>3, <3>5, <3>6, <3>7
    <3>9. MaxRequiredReplacements - run[r].repl + Cardinality(Uncharged(r)')
            <= Cardinality(Replacements(r)')
      BY <1>9, <3>1, <3>2, <3>5, <3>7, <3>8
    <3> QED BY <1>8, <3>6, <3>9 DEF RewritesAreCharged
  <2>2. CASE r # RunOf(j)
    <3>1. /\ IsFiniteSet(Uncharged(r)')
          /\ MaxRequiredReplacements - run[r].repl + Cardinality(Uncharged(r)')
               <= Cardinality(Replacements(r))
      BY <1>6, <1>7, <1>9, <2>2, FewerOwe DEF RewritesAreCharged
    <3> QED BY <1>4, <1>8, <2>2, <3>1 DEF RewritesAreCharged
  <2> QED BY <2>1, <2>2
<1> QED BY <1>10, <1>11

LEMMA RewriteKeepsLimits ==
  ASSUME EInv, HistoryInv, MemoryInv, LedgerInv, NEW c \in claims,
         RejectForRewrite(c)
  PROVE  HistoryInv' /\ MemoryInv' /\ LedgerInv'
<1>1. PICK a \in AttemptIds, o \in 1..MaxPhysicalLaunches :
        /\ Birth(c.job, a, c.current, o)
        /\ MayReplace(c.job, c.current)
        /\ claims' = (claims \ {c}) \cup
             {[c EXCEPT !.phase = "rejected", !.current = a]}
        /\ job' = [job EXCEPT ![c.job].status = "spawn-reserved",
                              ![c.job].attempt = a]
  BY RewriteIsBirth
<1>2. c.job \in Jobs /\ c \in Claims
  BY Records DEF EInv
<1>3. HistoryInv'
  BY <1>1, <1>2, BirthKeepsHistory
<1>4. MemoryInv'
  <2>1. ClaimsFollow({"claimed"})
    <3> DEFINE d == [c EXCEPT !.phase = "rejected", !.current = a]
    <3>1. d.phase = "rejected" /\ d.job = c.job /\ d.token = c.token
      BY <1>2 DEF Claims
    <3>2. claims' = (claims \ {c}) \cup {d}
      BY <1>1
    <3> HIDE DEF d
    <3> QED BY <3>1, <3>2 DEF ClaimsFollow, Follows
  <2>2. job[c.job].status # "absent"
    BY DEF RejectForRewrite, BindingActive
  <2> QED BY <1>1, <1>2, <2>1, <2>2, LaunchedStays, MemoryStays
<1> QED BY <1>3, <1>4, RewriteKeepsLedger

-----------------------------------------------------------------------------
(* The steps that claim, collect and charge. *)

LEMMA ClaimKeepsLimits ==
  ASSUME EInv, HistoryInv, MemoryInv, LedgerInv, NEW w \in Workers,
         NEW j \in Jobs, Claim(w, j)
  PROVE  HistoryInv' /\ MemoryInv' /\ LedgerInv'
<1> DEFINE d == [owner |-> w, job |-> j, token |-> job[j].token + 1,
                 prior |-> job[j].attempt, class |-> job[j].class,
                 phase |-> "claimed", attempt |-> None, current |-> None]
<1>1. /\ job' = [job EXCEPT ![j] = [job[j] EXCEPT
           !.status = "leased", !.owner = w, !.token = job[j].token + 1,
           !.lease = LeaseTicks]]
      /\ claims' = claims \cup {d}
      /\ UNCHANGED <<run, attempt, prepared>>
  BY DEF Claim
<1>2. /\ \A i \in Jobs : i # j => job'[i] = job[i]
      /\ job[j] \in JobRecords /\ job[j].token \in Nat
  BY <1>1, Records DEF EInv, JobRecords
<1>3. /\ job'[j].status = "leased" /\ job'[j].token = job[j].token + 1
      /\ job'[j].attempt = job[j].attempt /\ job'[j].class = job[j].class
  BY <1>1, <1>2, Records DEF EInv, JobRecords
<1>4. HistoryKept /\ ColumnsKept
  BY <1>1, <1>2, <1>3 DEF HistoryKept, AttemptKept, ColumnsKept
<1>5. /\ d.job = j /\ d.token = job[j].token + 1 /\ d.phase = "claimed"
      /\ d.prior = job[j].attempt /\ d.class = job[j].class
  OBVIOUS
<1> HIDE DEF d
<1>6. LedgerInv'
  BY <1>1, <1>4, <1>5, LedgerStays DEF Owing
<1>7. ASSUME NEW e \in claims'
      PROVE  ClaimIsCurrent(e)'
  <2>1. CASE e = d
    BY <1>2, <1>3, <1>5, <2>1 DEF ClaimIsCurrent
  <2>2. CASE e \in claims
    <3>1. /\ ClaimIsCurrent(e) /\ e.token \in Nat
      BY <2>2, Records DEF MemoryInv, EInv, Claims
    <3>2. CASE e.job = j
      BY <1>2, <1>3, <3>1, <3>2 DEF ClaimIsCurrent
    <3>3. CASE e.job # j
      <4>1. job'[e.job] = job[e.job]
        BY <1>2, <2>2, <3>3, Records DEF EInv
      <4> QED BY <3>1, <4>1 DEF ClaimIsCurrent
    <3> QED BY <3>2, <3>3
  <2> QED BY <1>1, <2>1, <2>2
<1>8. ClassMeansTried'
  BY <1>2, <1>3 DEF MemoryInv, ClassMeansTried
<1> QED BY <1>4, <1>6, <1>7, <1>8, HistoryStays DEF MemoryInv

\* A collection that owes its call owes it alone.
LEMMA CollectsAlone ==
  ASSUME EInv, LedgerInv, NEW c \in claims, NEW phase \in {"prepared", "staged"},
         Advance(c, phase), HistoryKept, ColumnsKept,
         Unreturned(RunOf(c.job)) \subseteq {c}, Refunded(RunOf(c.job)) = {},
         prepared' = prepared \cup {RunOf(c.job)}
  PROVE  LedgerInv'
<1> SUFFICES ASSUME NEW r \in Runs
             PROVE  BaseBalances(r)' /\ ReturnedOnce(r)' /\ RewritesAreCharged(r)'
  BY DEF LedgerInv
<1> DEFINE d == [c EXCEPT !.phase = phase]
<1>1. d.phase = phase /\ d.job = c.job /\ claims' = (claims \ {c}) \cup {d}
  BY Records DEF EInv, Claims, Advance
<1> HIDE DEF d
<1>2. /\ Refunded(r)' = Refunded(r) /\ Replacements(r)' = Replacements(r)
      /\ Launches(r)' = Launches(r)
  BY SetsOfAttempts, JobsFacts DEF HistoryKept, Launches
<1>3. /\ Uncharged(r)' \subseteq Uncharged(r)
      /\ r # RunOf(c.job) => Unreturned(r)' \subseteq Unreturned(r)
      /\ r = RunOf(c.job) => Unreturned(r)' \subseteq {d}
  BY <1>1 DEF Uncharged, Unreturned
<1>4. run'[r].base = run[r].base /\ run'[r].repl = run[r].repl
  BY DEF ColumnsKept
<1>5. BaseBalances(r) /\ ReturnedOnce(r) /\ RewritesAreCharged(r)
  BY DEF LedgerInv
<1>6. BaseBalances(r)'
  BY <1>2, <1>4, <1>5 DEF BaseBalances
<1>7. ReturnedOnce(r)'
  BY <1>2, <1>3, <1>5 DEF ReturnedOnce
<1>8. /\ run[r].repl \in Nat /\ Cardinality(Replacements(r)) \in Nat
      /\ MaxRequiredReplacements \in Nat
  <2>1. Replacements(r) \in SUBSET AttemptIds
    BY DEF Replacements, AttemptsOf
  <2> QED BY <2>1, AttemptsAreFinite, Records, BoundsAreNatural DEF EInv, RunRecords
<1>9. RewritesAreCharged(r)'
  BY <1>2, <1>3, <1>4, <1>5, <1>8, FewerOwe DEF RewritesAreCharged
<1> QED BY <1>6, <1>7, <1>9

LEMMA PersistJobsKeepsLimits ==
  ASSUME EInv, HistoryInv, MemoryInv, LedgerInv, NEW c \in claims, PersistJobs(c)
  PROVE  HistoryInv' /\ MemoryInv' /\ LedgerInv'
<1>1. /\ UNCHANGED <<run, job, attempt>> /\ Advance(c, "prepared")
      /\ prepared' = prepared \cup {RunOf(c.job)} /\ RunOf(c.job) \notin prepared
      /\ RunOf(c.job) \in Runs
  BY Records DEF PersistJobs, EInv
<1>2. HistoryKept /\ ColumnsKept /\ JobsStay
  BY <1>1, SameStays DEF HistoryKept, AttemptKept, ColumnsKept, JobsStay
<1>3. ClaimsFollow({"claimed"})
  BY <1>1, AdvanceFollows
<1>4. Unreturned(RunOf(c.job)) \subseteq {c} /\ Refunded(RunOf(c.job)) = {}
  BY <1>1 DEF LedgerInv, ReturnedOnce
<1>5. LedgerInv'
  BY <1>1, <1>2, <1>4, CollectsAlone
<1> QED BY <1>2, <1>3, <1>5, HistoryStays, MemoryStays DEF HistoryKept

LEMMA StageSpecialistsKeepsLimits ==
  ASSUME EInv, HistoryInv, MemoryInv, LedgerInv, NEW c \in claims,
         StageSpecialists(c)
  PROVE  HistoryInv' /\ MemoryInv' /\ LedgerInv'
<1> DEFINE r == RunOf(c.job)
<1>1. /\ UNCHANGED <<run, attempt, prepared>> /\ Advance(c, "staged")
      /\ r \in Runs /\ c.phase = "prepared"
      /\ \A k \in MemoKeys : job[<<r, k>>].status = "absent"
      /\ job' = [j \in Jobs |-> IF j \in {r} \X MemoKeys
                                THEN [AbsentJob EXCEPT !.status = "queued"] ELSE job[j]]
  BY Records DEF StageSpecialists, Collects, EInv
<1>2. ASSUME NEW j \in Jobs
      PROVE  JobStays(j) /\ job'[j].attempt = job[j].attempt
  <2>1. CASE j \in {r} \X MemoKeys
    <3>1. /\ job[j].status = "absent" /\ job'[j].status = "queued"
          /\ job'[j].class = "none" /\ job'[j].attempt = None
      BY <1>1, <2>1 DEF AbsentJob
    <3>2. job[j].attempt = None
      <4>1. job[j].attempt \in AttemptIds \cup {None}
        BY Records DEF EInv, JobRecords
      <4> QED BY <3>1, <4>1 DEF EInv, IInv, PointersResolve, AttemptsHaveJobs
    <3> QED BY <3>1, <3>2 DEF JobStays
  <2>2. CASE j \notin {r} \X MemoKeys
    BY <1>1, <2>2, SameStays
  <2> QED BY <2>1, <2>2
<1>3. HistoryKept /\ ColumnsKept /\ JobsStay
  BY <1>1, <1>2 DEF HistoryKept, AttemptKept, ColumnsKept, JobsStay
<1>4. ClaimsFollow({"claimed"})
  BY <1>1, AdvanceFollows
<1>5. Unreturned(r) \subseteq {c} /\ Refunded(r) = {} /\ prepared' = prepared \cup {r}
  <2>1. c \in Unreturned(r)
    BY <1>1 DEF Unreturned
  <2> QED BY <1>1, <2>1 DEF LedgerInv, ReturnedOnce
<1>6. LedgerInv'
  BY <1>1, <1>3, <1>5, CollectsAlone
<1> QED BY <1>2, <1>3, <1>4, <1>6, HistoryStays, MemoryStays

\* A collection gives its call back: its ordinal goes, and a base call returns.
LEMMA ReturnFacts ==
  ASSUME EInv, LedgerInv, NEW c \in claims, ReleaseSystemCollectionReservation(c)
  PROVE  LET r == RunOf(c.job)
             x == c.attempt IN
           /\ r \in Runs /\ x \in AttemptsOf(r) /\ Refunded(r) = {}
           /\ \A a \in AttemptIds : /\ attempt'[a].job = attempt[a].job
                                    /\ attempt'[a].replaces = attempt[a].replaces
                                    /\ attempt'[a].status = attempt[a].status
                                    /\ a # x => attempt'[a].ordinal = attempt[a].ordinal
           /\ attempt'[x].ordinal = 0
           /\ run' = [run EXCEPT ![r].base = @ + 1]
           /\ Unreturned(r) = {c} /\ r \in prepared
<1> DEFINE r == RunOf(c.job)
           x == c.attempt
<1>1. r \in Runs /\ c.job \in Jobs /\ c.job \in JobsOf(r)
  BY Records, JobsFacts DEF EInv
<1>2. /\ c.phase = "staged" /\ attempt' = [attempt EXCEPT ![x].ordinal = 0]
      /\ run' = IF attempt[x].ordinal # 0
                THEN [run EXCEPT ![r].base = @ + 1] ELSE run
  BY DEF ReleaseSystemCollectionReservation, Collects
<1>3. x \in AttemptIds /\ attempt[x].job = c.job
  BY <1>2 DEF EInv, IInv, ClaimsNameTheirAttempts, Launched
<1>4. c \in Unreturned(r)
  BY <1>2 DEF Unreturned
<1>5. Unreturned(r) = {c} /\ Refunded(r) = {} /\ r \in prepared
  BY <1>1, <1>4 DEF LedgerInv, ReturnedOnce
<1>6. x \in AttemptsOf(r)
  BY <1>1, <1>3 DEF AttemptsOf
<1>7. attempt[x].ordinal # 0
  BY <1>5, <1>6 DEF Refunded
<1>8. \A a \in AttemptIds : /\ attempt'[a].job = attempt[a].job
                            /\ attempt'[a].replaces = attempt[a].replaces
                            /\ attempt'[a].status = attempt[a].status
                            /\ a # x => attempt'[a].ordinal = attempt[a].ordinal
  <2> HIDE DEF x
  <2> QED BY <1>2, <1>3, Records DEF EInv, AttemptRecords
<1>9. attempt'[x].ordinal = 0
  <2> HIDE DEF x
  <2> QED BY <1>2, <1>3, Records DEF EInv, AttemptRecords
<1> QED BY <1>1, <1>2, <1>5, <1>6, <1>7, <1>8, <1>9

LEMMA ReturnKeepsHistory ==
  ASSUME EInv, HistoryInv, LedgerInv, NEW c \in claims,
         ReleaseSystemCollectionReservation(c)
  PROVE  HistoryInv'
<1> DEFINE x == c.attempt
<1>1. /\ \A a \in AttemptIds : /\ attempt'[a].job = attempt[a].job
                               /\ attempt'[a].replaces = attempt[a].replaces
                               /\ attempt'[a].status = attempt[a].status
                               /\ a # x => attempt'[a].ordinal = attempt[a].ordinal
      /\ attempt'[x].ordinal = 0 /\ UNCHANGED job
  BY ReturnFacts DEF ReleaseSystemCollectionReservation
<1> HIDE DEF x
<1>2. \A a \in AttemptIds : Exists(a)' <=> Exists(a)
  BY <1>1 DEF Exists
<1>3. BirthsInOrder' /\ UnbornIsBlank' /\ PointerIsLatest'
  BY <1>1, <1>2 DEF HistoryInv, BirthsInOrder, UnbornIsBlank, PointerIsLatest
<1>4. ReplacesEarlier' /\ ReplacedOnce'
  BY <1>1 DEF HistoryInv, ReplacesEarlier, ReplacedOnce
<1>5. OrdinalsDiffer'
  <2> SUFFICES ASSUME NEW r \in Runs, NEW b \in Burned(r)', NEW d \in Burned(r)',
                      attempt'[b].ordinal = attempt'[d].ordinal
               PROVE  b = d
    BY DEF OrdinalsDiffer
  <2>1. \A e \in Burned(r)' :
          e \in Burned(r) /\ attempt'[e].ordinal = attempt[e].ordinal
    BY <1>1 DEF Burned, AttemptsOf, AttemptIds
  <2> QED BY <2>1 DEF HistoryInv, OrdinalsDiffer
<1>6. OrdinalsWithin'
  BY <1>1, BoundsAreNatural DEF HistoryInv, OrdinalsWithin
<1>7. ReplacementsWithin'
  <2>1. \A r \in Runs : Replacements(r)' = Replacements(r)
    BY <1>1 DEF Replacements, AttemptsOf
  <2> QED BY <2>1 DEF HistoryInv, ReplacementsWithin
<1>8. LogicalWithin'
  <2> SUFFICES ASSUME NEW j \in Jobs
               PROVE  LogicalAttempts(j)' = LogicalAttempts(j)
    BY DEF HistoryInv, LogicalWithin
  <2>1. {a \in AttemptIds : attempt'[a].job = j /\ attempt'[a].replaces # None}
          = {a \in AttemptIds : attempt[a].job = j /\ attempt[a].replaces # None}
    BY <1>1
  <2> QED BY <2>1 DEF LogicalAttempts
<1> QED BY <1>3, <1>4, <1>5, <1>6, <1>7, <1>8 DEF HistoryInv

LEMMA ReturnKeepsLedger ==
  ASSUME EInv, LedgerInv, NEW c \in claims, ReleaseSystemCollectionReservation(c)
  PROVE  LedgerInv'
<1> SUFFICES ASSUME NEW s \in Runs
             PROVE  BaseBalances(s)' /\ ReturnedOnce(s)' /\ RewritesAreCharged(s)'
  BY DEF LedgerInv
<1> DEFINE r == RunOf(c.job)
           x == c.attempt
<1>1. /\ r \in Runs /\ x \in AttemptsOf(r) /\ Refunded(r) = {}
      /\ \A a \in AttemptIds : /\ attempt'[a].job = attempt[a].job
                               /\ attempt'[a].replaces = attempt[a].replaces
                               /\ a # x => attempt'[a].ordinal = attempt[a].ordinal
      /\ attempt'[x].ordinal = 0
      /\ run' = [run EXCEPT ![r].base = @ + 1]
      /\ Unreturned(r) = {c} /\ r \in prepared
  BY ReturnFacts
<1>2. Advance(c, "released") /\ UNCHANGED <<job, prepared>>
  BY DEF ReleaseSystemCollectionReservation
<1>3. \A t \in Runs : t # r => x \notin AttemptsOf(t)
  BY <1>1, JobsFacts DEF AttemptsOf, JobsOf, RunOf
<1> HIDE DEF r, x
<1>4. AttemptsOf(s)' = AttemptsOf(s) /\ AttemptsOf(s) \subseteq AttemptIds
  BY <1>1 DEF AttemptsOf
<1>5. /\ Replacements(s)' = Replacements(s)
      /\ Refunded(s)' = IF s = r THEN {x} ELSE Refunded(s)
  <2>1. Replacements(s)' = Replacements(s)
    BY <1>1, <1>4 DEF Replacements
  <2>2. Refunded(s)' = {a \in AttemptsOf(s) : attempt'[a].ordinal = 0}
    BY <1>4 DEF Refunded
  <2>3. ASSUME s = r
        PROVE  Refunded(s)' = {x}
    <3>1. x \in AttemptsOf(s) /\ \A a \in AttemptsOf(s) : attempt[a].ordinal # 0
      BY <1>1, <2>3 DEF Refunded
    <3>2. \A a \in AttemptsOf(s) : attempt'[a].ordinal = 0 <=> a = x
      BY <1>1, <1>4, <3>1
    <3> QED BY <2>2, <3>1, <3>2
  <2>4. ASSUME s # r
        PROVE  Refunded(s)' = Refunded(s)
    <3>1. \A a \in AttemptsOf(s) : attempt'[a].ordinal = attempt[a].ordinal
      BY <1>1, <1>3, <1>4, <2>4
    <3> QED BY <2>2, <3>1 DEF Refunded
  <2> QED BY <2>1, <2>3, <2>4
<1>6. /\ Uncharged(s)' \subseteq Uncharged(s)
      /\ s = r => Unreturned(s)' = {}
      /\ s # r => Unreturned(s)' \subseteq Unreturned(s)
  <2> DEFINE d == [c EXCEPT !.phase = "released"]
  <2>1. d.phase = "released" /\ d.job = c.job /\ claims' = (claims \ {c}) \cup {d}
    BY <1>2, Records DEF EInv, Claims, Advance
  <2> HIDE DEF d
  <2> QED BY <1>1, <2>1 DEF Uncharged, Unreturned, r
<1>7. Launches(s)' = Launches(s)
  BY <1>2 DEF Launches
<1>8. /\ run'[s].base = IF s = r THEN run[s].base + 1 ELSE run[s].base
      /\ run'[s].repl = run[s].repl
  BY <1>1, Records DEF EInv, RunRecords
<1>9. BaseBalances(s) /\ ReturnedOnce(s) /\ RewritesAreCharged(s)
  BY DEF LedgerInv
<1>10. IsFiniteSet({x}) /\ Cardinality({x}) = 1 /\ Cardinality({}) = 0
  BY FS_Singleton, FS_EmptySet
<1>11. BaseBalances(s)'
  <2>1. CASE s = r
    <3>1. /\ IsFiniteSet(Launches(s)) /\ Cardinality(Launches(s)) \in Nat
          /\ run[s].base + Cardinality(Launches(s)) = MandatoryFirstAttempts + 0
      BY <1>1, <1>9, <1>10, <2>1, FS_CardinalityType DEF BaseBalances
    <3>2. run[s].base \in Nat /\ MandatoryFirstAttempts \in Nat
      BY Records, BoundsAreNatural DEF EInv, RunRecords
    <3>3. run'[s].base + Cardinality(Launches(s)')
            = MandatoryFirstAttempts + Cardinality(Refunded(s)')
      BY <1>5, <1>7, <1>8, <1>10, <2>1, <3>1, <3>2
    <3> QED BY <1>7, <3>1, <3>3 DEF BaseBalances
  <2>2. CASE s # r
    BY <1>5, <1>7, <1>8, <1>9, <2>2 DEF BaseBalances
  <2> QED BY <2>1, <2>2
<1>12. ReturnedOnce(s)'
  <2>1. CASE s = r
    BY <1>1, <1>2, <1>5, <1>6, <1>10, <2>1 DEF ReturnedOnce
  <2>2. CASE s # r
    BY <1>2, <1>5, <1>6, <1>9, <2>2 DEF ReturnedOnce
  <2> QED BY <2>1, <2>2
<1>13. /\ run[s].repl \in Nat /\ Cardinality(Replacements(s)) \in Nat
       /\ MaxRequiredReplacements \in Nat
  <2>1. Replacements(s) \in SUBSET AttemptIds
    BY DEF Replacements, AttemptsOf
  <2> QED BY <2>1, AttemptsAreFinite, Records, BoundsAreNatural DEF EInv, RunRecords
<1>14. RewritesAreCharged(s)'
  BY <1>5, <1>6, <1>8, <1>9, <1>13, FewerOwe DEF RewritesAreCharged
<1> QED BY <1>11, <1>12, <1>14

LEMMA ReturnKeepsLimits ==
  ASSUME EInv, HistoryInv, MemoryInv, LedgerInv, NEW c \in claims,
         ReleaseSystemCollectionReservation(c)
  PROVE  HistoryInv' /\ MemoryInv' /\ LedgerInv'
<1>1. UNCHANGED job /\ Advance(c, "released")
  BY DEF ReleaseSystemCollectionReservation
<1>2. JobsStay /\ \A j \in Jobs : job'[j].attempt = job[j].attempt
  BY <1>1, SameStays DEF JobsStay
<1>3. ClaimsFollow({"claimed"})
  BY <1>1, AdvanceFollows
<1> QED BY <1>2, <1>3, MemoryStays, ReturnKeepsHistory, ReturnKeepsLedger

LEMMA ConsumeKeepsLedger ==
  ASSUME EInv, LedgerInv, NEW c \in claims, ConsumeReplacementBudget(c)
  PROVE  LedgerInv'
<1> SUFFICES ASSUME NEW s \in Runs
             PROVE  BaseBalances(s)' /\ ReturnedOnce(s)' /\ RewritesAreCharged(s)'
  BY DEF LedgerInv
<1> DEFINE r == RunOf(c.job)
<1>1. /\ r \in Runs /\ c.phase = "rejected" /\ c \in Claims
      /\ UNCHANGED <<job, attempt, prepared>>
      /\ \/ run' = [run EXCEPT ![r].repl = @ - 1] /\ Advance(c, "charged")
         \/ UNCHANGED run /\ Drop(c)
  BY Records DEF ConsumeReplacementBudget, EInv
<1>2. /\ Refunded(s)' = Refunded(s) /\ Replacements(s)' = Replacements(s)
      /\ Launches(s)' = Launches(s)
  BY <1>1 DEF Refunded, Replacements, Launches, AttemptsOf
<1>3. /\ Unreturned(s)' \subseteq Unreturned(s)
      /\ Uncharged(s)' \subseteq Uncharged(s) \ {c}
      /\ s = r => c \in Uncharged(s)
  <2>1. [c EXCEPT !.phase = "charged"].phase = "charged"
    BY <1>1 DEF Claims
  <2> QED BY <1>1, <2>1 DEF Unreturned, Uncharged, Advance, Drop
<1> HIDE DEF r
<1>4. /\ run'[s].base = run[s].base
      /\ \/ run'[s].repl = run[s].repl
         \/ s = r /\ run'[s].repl = run[s].repl - 1
  BY <1>1, Records DEF EInv, RunRecords
<1>5. BaseBalances(s) /\ ReturnedOnce(s) /\ RewritesAreCharged(s)
  BY DEF LedgerInv
<1>6. BaseBalances(s)' /\ ReturnedOnce(s)'
  <2>1. BaseBalances(s)'
    BY <1>2, <1>4, <1>5 DEF BaseBalances
  <2>2. ReturnedOnce(s)'
    BY <1>1, <1>2, <1>3, <1>5 DEF ReturnedOnce
  <2> QED BY <2>1, <2>2
<1>7. /\ run[s].repl \in Nat /\ Cardinality(Replacements(s)) \in Nat
      /\ MaxRequiredReplacements \in Nat
  <2>1. Replacements(s) \in SUBSET AttemptIds
    BY DEF Replacements, AttemptsOf
  <2> QED BY <2>1, AttemptsAreFinite, Records, BoundsAreNatural DEF EInv, RunRecords
<1>8. RewritesAreCharged(s)'
  <2>1. CASE run'[s].repl = run[s].repl
    <3>1. Uncharged(s)' \in SUBSET Uncharged(s)
      BY <1>3
    <3> QED BY <1>2, <1>5, <1>7, <2>1, <3>1, FewerOwe DEF RewritesAreCharged
  <2>2. CASE s = r /\ run'[s].repl = run[s].repl - 1
    <3>1. /\ IsFiniteSet(Uncharged(s)) /\ Cardinality(Uncharged(s)) \in Nat
          /\ MaxRequiredReplacements - run[s].repl + Cardinality(Uncharged(s))
               <= Cardinality(Replacements(s))
      BY <1>5, FS_CardinalityType DEF RewritesAreCharged
    <3>2. /\ IsFiniteSet(Uncharged(s) \ {c})
          /\ Cardinality(Uncharged(s) \ {c}) = Cardinality(Uncharged(s)) - 1
      BY <1>3, <2>2, <3>1, FS_RemoveElement
    <3>3. /\ IsFiniteSet(Uncharged(s)')
          /\ Cardinality(Uncharged(s)') <= Cardinality(Uncharged(s) \ {c})
      BY <1>3, <3>2, FS_Subset
    <3>4. Cardinality(Uncharged(s)') \in Nat
      BY <3>3, FS_CardinalityType
    <3>5. MaxRequiredReplacements - run'[s].repl + Cardinality(Uncharged(s)')
            <= Cardinality(Replacements(s)')
      BY <1>2, <1>7, <2>2, <3>1, <3>2, <3>3, <3>4
    <3> QED BY <3>3, <3>5 DEF RewritesAreCharged
  <2> QED BY <1>4, <2>1, <2>2
<1> QED BY <1>6, <1>8

LEMMA ConsumeKeepsLimits ==
  ASSUME EInv, HistoryInv, MemoryInv, LedgerInv, NEW c \in claims,
         ConsumeReplacementBudget(c)
  PROVE  HistoryInv' /\ MemoryInv' /\ LedgerInv'
<1>1. UNCHANGED <<job, attempt>> /\ (Advance(c, "charged") \/ Drop(c))
  BY DEF ConsumeReplacementBudget
<1>2. JobsStay /\ HistoryKept
  BY <1>1, SameStays DEF JobsStay, HistoryKept, AttemptKept
<1>3. ClaimsFollow({"claimed"})
  <2>1. Drop(c) => claims' \subseteq claims
    BY DEF Drop
  <2> QED BY <1>1, <2>1, AdvanceFollows, FewerFollow
<1> QED BY <1>2, <1>3, MemoryStays, HistoryStays, ConsumeKeepsLedger DEF HistoryKept

-----------------------------------------------------------------------------
(* Every step, and the two limits. *)

LimitInv == EInv /\ HistoryInv /\ MemoryInv /\ LedgerInv

LEMMA QuietKeepsLimits ==
  ASSUME LimitInv, Quiet
  PROVE  HistoryInv' /\ MemoryInv' /\ LedgerInv'
<1>1. HistoryInv'
  BY HistoryStays DEF LimitInv, Quiet
<1>2. ClaimsFollow({"claimed"})
  BY DEF Quiet, ClaimsFollow, Follows
<1>3. MemoryInv'
  BY <1>2, MemoryStays DEF LimitInv, Quiet, HistoryKept
<1>4. \A e \in claims' : e.phase \in Owing => e \in claims
  BY DEF Quiet, ClaimsFollow, Follows
<1>5. LedgerInv'
  BY <1>4, LedgerStays DEF LimitInv, Quiet
<1> QED BY <1>1, <1>3, <1>5

LEMMA NextKeepsLimits ==
  ASSUME LimitInv, [Next]_vars
  PROVE  HistoryInv' /\ MemoryInv' /\ LedgerInv'
<1> DEFINE Kept == HistoryInv' /\ MemoryInv' /\ LedgerInv'
<1>1. EInv /\ HistoryInv /\ MemoryInv /\ LedgerInv
  BY DEF LimitInv
<1>2. Quiet => Kept
  BY QuietKeepsLimits
<1> HIDE DEF Kept
<1>3. ASSUME NEW r \in Runs,
             \/ Create(r) \/ CancelResearchRun(r) \/ RetryResearchRun(r)
             \/ ActivateNextRun(r) \/ StageReview(r)
             \/ PublishReport(r) \/ TerminalizeWorkflowFailure(r)
      PROVE  Quiet
  BY <1>1, <1>3, CommandsQuiet, InsertQuiet, CancelQuiet, RetryQuiet
<1>4. ASSUME NEW w \in Workers, NEW j \in Jobs, Claim(w, j)
      PROVE  Kept
  BY <1>1, <1>4, ClaimKeepsLimits DEF Kept
<1>5. ASSUME NEW c \in claims, Poll(c)
      PROVE  Kept
  <2>1. CASE ReserveAtCapacity(c) \/ ReserveDeclined(c) \/ ReserveThrows(c)
    BY <1>1, <1>2, <2>1, DeclineQuiet
  <2>2. CASE ReserveExhausted(c)
    BY <1>1, <1>2, <2>2, ReserveExhaustedQuiet
  <2>3. CASE Launch(c)
    BY <1>1, <2>3, LaunchKeepsLimits DEF Kept
  <2>4. CASE Release(c)
    BY <1>1, <1>2, <2>4, ReleaseQuiet
  <2> QED BY <1>5, <2>1, <2>2, <2>3, <2>4 DEF Poll
<1>6. ASSUME NEW c \in claims, Handle(c)
      PROVE  Kept
  <2>1. CASE PersistJobs(c)
    BY <1>1, <2>1, PersistJobsKeepsLimits DEF Kept
  <2>2. CASE StageSpecialists(c)
    BY <1>1, <2>2, StageSpecialistsKeepsLimits DEF Kept
  <2>3. CASE ReleaseSystemCollectionReservation(c)
    BY <1>1, <2>3, ReturnKeepsLimits DEF Kept
  <2>4. CASE CommitAcceptedOutput(c) \/ RejectFinally(c)
    BY <1>1, <1>2, <2>4, CommitOutputQuiet
  <2>5. CASE RejectForRewrite(c)
    BY <1>1, <2>5, RewriteKeepsLimits DEF Kept
  <2>6. CASE ConsumeReplacementBudget(c)
    BY <1>1, <2>6, ConsumeKeepsLimits DEF Kept
  <2>7. CASE MarkReplacementRunning(c)
    BY <1>1, <1>2, <2>7, MarkReplacementRunningQuiet
  <2> QED BY <1>6, <2>1, <2>2, <2>3, <2>4, <2>5, <2>6, <2>7 DEF Handle
<1>7. ASSUME NEW c \in claims, Commit(c)
      PROVE  Quiet
  <2>1. CASE CommitRequestedCancellation(c)
    BY <1>1, <2>1, CommitRequestedCancellationQuiet
  <2>2. ASSUME NEW outcome \in Outcomes(c), CommitAttempt(c, outcome)
        PROVE  Quiet
    BY <1>1, <2>2, CommitAttemptQuiet
  <2>3. CASE CommitStale(c)
    BY <1>1, <2>3, DeclineQuiet
  <2> QED BY <1>7, <2>1, <2>2, <2>3 DEF Commit
<1>8. ASSUME NEW c \in claims, Heartbeat(c)
      PROVE  Quiet
  <2>1. c.job \in Jobs
    BY <1>1, Records DEF EInv
  <2> QED BY <1>1, <1>8, <2>1, LeaseQuiet DEF Heartbeat
<1>9. RecoverExpired => Quiet
  BY <1>1, RecoverExpiredQuiet
<1>10. ASSUME NEW w \in Workers, Crash(w) \/ Shutdown(w) \/ Restart(w)
       PROVE  Quiet
  <2>1. UNCHANGED <<run, job, attempt, prepared>> /\ claims' \subseteq claims
    BY <1>10 DEF Crash, Shutdown, Restart
  <2> QED BY <1>1, <2>1, OutageQuiet
<1>11. ASSUME NEW j \in Jobs, LeaseTick(j)
       PROVE  Quiet
  <2>1. /\ job' = [job EXCEPT ![j].lease = job[j].lease - 1]
        /\ UNCHANGED <<run, attempt, prepared, claims>>
    BY <1>11 DEF LeaseTick
  <2> QED BY <1>1, <2>1, LeaseQuiet
<1>12. UNCHANGED vars => Quiet
  <2>1. UNCHANGED vars =>
          UNCHANGED <<run, job, attempt, prepared>> /\ claims' \subseteq claims
    BY DEF vars
  <2> QED BY <1>1, <2>1, OutageQuiet
<1>13. Kept
  BY <1>2, <1>3, <1>4, <1>5, <1>6, <1>7, <1>8, <1>9, <1>10, <1>11, <1>12 DEF Next
<1> QED BY <1>13 DEF Kept

LEMMA InitLimits ==
  ASSUME MaxAttemptsPerLogicalArtifact > 0
  PROVE  Init => LimitInv
<1> SUFFICES ASSUME Init PROVE LimitInv
  OBVIOUS
<1>1. EInv
  BY InitFits
<1>2. \A a \in AttemptIds : /\ attempt[a].status = "unborn" /\ attempt[a].job = NoJob
                            /\ attempt[a].replaces = None /\ attempt[a].ordinal = 0
  BY DEF Init
<1>3. \A r \in Runs : AttemptsOf(r) = {}
  BY <1>2, NullsAreFresh, JobsFacts DEF AttemptsOf
<1>4. \A r \in Runs : Burned(r) = {} /\ Replacements(r) = {} /\ Refunded(r) = {}
  BY <1>3 DEF Burned, Replacements, Refunded
<1>5. IsFiniteSet({}) /\ Cardinality({}) = 0
  BY FS_EmptySet
<1>6. HistoryInv
  <2>1. /\ BirthsInOrder /\ UnbornIsBlank /\ PointerIsLatest
        /\ ReplacesEarlier /\ ReplacedOnce
    BY <1>2 DEF BirthsInOrder, UnbornIsBlank, PointerIsLatest, ReplacesEarlier,
       ReplacedOnce, Exists
  <2>2. OrdinalsDiffer /\ OrdinalsWithin /\ ReplacementsWithin
    BY <1>2, <1>4, <1>5, BoundsAreNatural DEF OrdinalsDiffer, OrdinalsWithin,
       ReplacementsWithin
  <2>3. LogicalWithin
    <3>1. ASSUME NEW j \in Jobs
          PROVE  LogicalAttempts(j) = 1
      <4> DEFINE S == {a \in AttemptIds : attempt[a].job = j /\ attempt[a].replaces # None}
      <4>1. S = {}
        BY <1>2
      <4>2. LogicalAttempts(j) = 1 + Cardinality(S)
        BY DEF LogicalAttempts
      <4> HIDE DEF S
      <4> QED BY <1>5, <4>1, <4>2
    <3> QED BY <3>1, BoundsAreNatural DEF LogicalWithin
  <2> QED BY <2>1, <2>2, <2>3 DEF HistoryInv
<1>7. MemoryInv
  BY DEF Init, MemoryInv, ClassMeansTried, AbsentJob
<1>8. LedgerInv
  <2> SUFFICES ASSUME NEW r \in Runs
               PROVE  BaseBalances(r) /\ ReturnedOnce(r) /\ RewritesAreCharged(r)
    BY DEF LedgerInv
  <2>1. /\ run[r].base = MandatoryFirstAttempts
        /\ run[r].repl = MaxRequiredReplacements
    BY DEF Init
  <2>2. Launches(r) = {} /\ Unreturned(r) = {} /\ Uncharged(r) = {}
    BY JobsFacts DEF Init, Launches, Unreturned, Uncharged, AbsentJob
  <2>3. Refunded(r) = {} /\ Replacements(r) = {}
    BY <1>4
  <2>4. BaseBalances(r)
    BY <1>5, <2>1, <2>2, <2>3, BoundsAreNatural DEF BaseBalances
  <2>5. ReturnedOnce(r)
    BY <1>5, <2>2, <2>3 DEF ReturnedOnce
  <2>6. RewritesAreCharged(r)
    BY <1>5, <2>1, <2>2, <2>3, BoundsAreNatural DEF RewritesAreCharged
  <2> QED BY <2>4, <2>5, <2>6
<1> QED BY <1>1, <1>6, <1>7, <1>8 DEF LimitInv

LEMMA LimitInvariance ==
  ASSUME MaxAttemptsPerLogicalArtifact > 0
  PROVE  Spec => []LimitInv
<1>1. Init => LimitInv
  BY InitLimits
<1>2. LimitInv /\ [Next]_vars => LimitInv'
  BY NextKeepsLimits, NextFits DEF LimitInv
<1> QED BY <1>1, <1>2, PTL DEF Spec

LEMMA InvariantLimits == LimitInv => LaunchLimits
<1> SUFFICES ASSUME LimitInv PROVE LaunchLimits
  OBVIOUS
<1>1. ASSUME NEW r \in Runs
      PROVE  Cardinality(Burned(r)) <= MaxPhysicalLaunches
  <2> DEFINE S == Burned(r)
             T == 1..MaxPhysicalLaunches
             f == [a \in S |-> attempt[a].ordinal]
  <2>1. S \in SUBSET AttemptIds
    BY DEF Burned, AttemptsOf
  <2>2. \A a \in S : attempt[a].ordinal \in T
    <3>1. \A a \in S : attempt[a].ordinal \in Nat /\ attempt[a].ordinal # 0
      BY <2>1, Records DEF Burned, LimitInv, EInv, AttemptRecords
    <3>2. \A a \in S : attempt[a].ordinal <= MaxPhysicalLaunches
      BY <2>1 DEF LimitInv, HistoryInv, OrdinalsWithin
    <3> QED BY <3>1, <3>2, BoundsAreNatural
  <2>3. \A a, b \in S : attempt[a].ordinal = attempt[b].ordinal => a = b
    BY DEF LimitInv, HistoryInv, OrdinalsDiffer
  <2>4. IsFiniteSet(T) /\ Cardinality(T) = MaxPhysicalLaunches
    <3>1. IsFiniteSet(T)
          /\ Cardinality(T) = IF 1 > MaxPhysicalLaunches THEN 0
                              ELSE MaxPhysicalLaunches - 1 + 1
      BY FS_Interval, BoundsAreNatural
    <3> QED BY <3>1, BoundsAreNatural
  <2> HIDE DEF S, T
  <2>5. f \in Injection(S, T)
    BY <2>2, <2>3 DEF Injection, IsInjective
  <2> QED BY <2>4, <2>5, FS_Injection DEF S
<1>2. /\ \A r \in Runs :
           /\ Cardinality(Replacements(r)) <= MaxRequiredReplacements
           /\ \A a, b \in Burned(r) :
                attempt[a].ordinal = attempt[b].ordinal => a = b
      /\ \A j \in Jobs : LogicalAttempts(j) <= MaxAttemptsPerLogicalArtifact
      /\ \A a, b \in AttemptIds : attempt[a].replaces # None
           /\ attempt[a].replaces = attempt[b].replaces => a = b
  BY DEF LimitInv, HistoryInv, ReplacementsWithin, OrdinalsDiffer, LogicalWithin,
     ReplacedOnce
<1> QED BY <1>1, <1>2 DEF LaunchLimits

\* For every number of runs, jobs and launches, and however claims go stale,
\* rewrites follow each other and the owner retries: ordinals are distinct and
\* within the physical limit, replacements within theirs, and no attempt is
\* replaced twice.
THEOREM LaunchLimitsAlways ==
  ASSUME MaxAttemptsPerLogicalArtifact > 0
  PROVE  Spec => []LaunchLimits
  BY LimitInvariance, InvariantLimits, PTL

\* The columns, the ordinals and the replacements of a run always add up, across
\* crashes between a rewrite and its charge, and between a collection's jobs and
\* the call it gives back.
THEOREM BudgetLedgerAlways ==
  ASSUME MaxAttemptsPerLogicalArtifact > 0
  PROVE  Spec => []BudgetLedger
<1>1. ASSUME LimitInv, NEW r \in Runs
      PROVE  /\ run[r].base + Cardinality(Launches(r))
                  = MandatoryFirstAttempts + Cardinality(Refunded(r))
             /\ Cardinality(Refunded(r)) <= 1
             /\ run[r].repl >= 0
             /\ MaxRequiredReplacements - run[r].repl
                  <= Cardinality(Replacements(r))
  <2>1. BaseBalances(r) /\ ReturnedOnce(r) /\ RewritesAreCharged(r)
    BY <1>1 DEF LimitInv, LedgerInv
  <2>2. run[r].repl \in Nat /\ Replacements(r) \in SUBSET AttemptIds
        /\ MaxRequiredReplacements \in Nat
    BY <1>1, Records, BoundsAreNatural
       DEF LimitInv, EInv, RunRecords, Replacements, AttemptsOf
  <2>3. Cardinality(Uncharged(r)) \in Nat /\ Cardinality(Replacements(r)) \in Nat
    BY <2>1, <2>2, AttemptsAreFinite, FS_CardinalityType DEF RewritesAreCharged
  <2> QED BY <2>1, <2>2, <2>3 DEF BaseBalances, ReturnedOnce, RewritesAreCharged
<1>2. LimitInv => BudgetLedger
  BY <1>1 DEF BudgetLedger
<1> QED BY <1>2, LimitInvariance, PTL
=============================================================================
