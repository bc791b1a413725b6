----------------------------- MODULE MCLiveness -----------------------------
(***************************************************************************)
(* The fair components side by side, for TLC.  They share no state; in a   *)
(* behaviour one of them, the focus, takes the steps and is treated fairly *)
(* while the others rest in their initial states.                          *)
(***************************************************************************)
EXTENDS StageRecovery, TranslationJobs, StockPreparation, BriefingScheduler, TLC

CONSTANTS w1, u1, u2, l1, l2, j1, j2, s1, s2, a1, p1, b1

OneWorker == {w1}
TwoReaders == {u1, u2}
TwoLoops == {l1, l2}
TwoTranslations == {j1, j2}
TwoSymbols == {s1, s2}
OneAccount == {a1}
OnePreparer == {p1}
OneStock == {1}
OneScheduler == {b1}
EnglishAndKorean == (u1 :> "en") @@ (u2 :> "ko")

VARIABLE focus

liveVars == <<vars, translationVars, preparationVars, briefingVars, focus>>

LiveInit ==
  /\ focus \in {"stages", "translations", "preparations", "briefings"}
  /\ Init /\ TranslationInit /\ PreparationInit /\ BriefingInit
  /\ focus # "briefings" => watchlist = {} /\ ~due

StagesStep == /\ focus = "stages" /\ Next
              /\ UNCHANGED <<translationVars, preparationVars, briefingVars>>
TranslationsStep == /\ focus = "translations" /\ TranslationNext
                    /\ UNCHANGED <<vars, preparationVars, briefingVars>>
PreparationsStep == /\ focus = "preparations" /\ PreparationNext
                    /\ UNCHANGED <<vars, translationVars, briefingVars>>
BriefingsStep == /\ focus = "briefings" /\ BriefingNext
                 /\ UNCHANGED <<vars, translationVars, preparationVars>>

LiveNext ==
  /\ \/ StagesStep \/ TranslationsStep \/ PreparationsStep \/ BriefingsStep
  /\ UNCHANGED focus

\* Nothing that is treated fairly is enabled in the initial state of a component
\* that rests, so the fairness of the others constrains the focus in no way.
LiveSpec ==
  /\ LiveInit /\ [][LiveNext]_liveVars
  /\ Fairness /\ TranslationFairness /\ WaiterFairness /\ BriefingFairness
=============================================================================
