----------------------------- MODULE MCServices -----------------------------
(***************************************************************************)
(* The services around the research engine side by side, for TLC: they     *)
(* share no state, and in a behaviour one of them, the focus, takes steps. *)
(***************************************************************************)
EXTENDS AccountCredits, BillingWebhooks, StockPreparation, BriefingScheduler, TLC

CONSTANTS x1, x2, y1, y2, u1, u2

\* The members of most sets are interchangeable.  They are the same few values
\* in every component, so that two swaps are symmetries of all of them.
TwoOfThem == {x1, x2}
TwoOthers == {y1, y2}
TwoStocks == {1, 2}
TwoMembers == {u1, u2}
EnglishAndKorean == (u1 :> "en") @@ (u2 :> "ko")
ServiceSymmetry == Permutations(TwoOfThem) \cup Permutations(TwoOthers)

VARIABLE focus

serviceVars == <<creditVars, billingVars, preparationVars, briefingVars, focus>>

ServiceInit ==
  /\ focus \in {"credits", "billing", "preparations", "briefings"}
  /\ CreditInit /\ BillingInit /\ PreparationInit /\ BriefingInit
  \* An account subscribes before its first request, and may lose its plan.
  /\ IF focus = "credits" THEN tier \in PaidTiers ELSE tier = "free"
  /\ focus # "briefings" => watchlist = {} /\ ~due

CreditsStep == /\ focus = "credits" /\ CreditNext
               /\ UNCHANGED <<billingVars, preparationVars, briefingVars>>
BillingStep == /\ focus = "billing" /\ BillingNext
               /\ UNCHANGED <<creditVars, preparationVars, briefingVars>>
PreparationsStep == /\ focus = "preparations" /\ PreparationNext
                    /\ UNCHANGED <<creditVars, billingVars, briefingVars>>
BriefingsStep == /\ focus = "briefings" /\ BriefingNext
                 /\ UNCHANGED <<creditVars, billingVars, preparationVars>>

ServiceNext ==
  /\ \/ CreditsStep \/ BillingStep \/ PreparationsStep \/ BriefingsStep
  /\ UNCHANGED focus

ServiceSpec == ServiceInit /\ [][ServiceNext]_serviceVars
=============================================================================
