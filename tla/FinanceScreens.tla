--------------------------- MODULE FinanceScreens ---------------------------
(***************************************************************************)
(* Money: the finance page with bill import and ledger, prices, promotion  *)
(* campaigns, growth actions.                                              *)
(***************************************************************************)
EXTENDS ScreenVocabulary

-----------------------------------------------------------------------------
(* The finance page *)

PlatformBillPanel(onBillImport, onBillSync) ==
  [typeBills   |-> Edit("billText"), fillExample |-> Edit("billText"),
   importBills |-> Act(onBillImport @@ [typed |-> {"billText"}, unless |-> {"billImporting"}, sends |-> {"billText"},
                                        okDrops |-> {"billText"}]),
   syncBills   |-> Act(onBillSync @@ [unless |-> {"billSyncing"}])]

\* Summary and traceback have keys of the same shape and are reloaded together.
FinancePage ==
  LET booking(pending) == Writing(pending) @@ [changes |-> {"summary", "traceback"},
                                               reload |-> {"summary", "traceback"}]
  IN Screen(
  [axes |-> {"period"}, drafts |-> [billText |-> Free],
   loads |-> [summary |-> Query([by |-> "period"]), traceback |-> Query([by |-> "period"])],
   acts |-> [period |-> Choose("period"),
     retrySummary |-> Reload({"summary"}), retryTraceback |-> Reload({"traceback"})]
     @@ PlatformBillPanel(booking("billImporting"), booking("billSyncing"))])

\* The route may bring an order into the form of an entry.
FinanceLedgerPanel == Screen(
  [axes |-> {"prefill"}, drafts |-> [form |-> Following("prefill")],
   loads |-> [ledger |-> Load([by |-> "prefill"])],
   acts |-> [route |-> Choose("prefill"), reload |-> Reload({"ledger"}),
     type   |-> Edit("form"),
     copyEntry |-> Act([shows |-> {"ledger"}, edits |-> {"form"}]),
     create |-> Act(Writing("saving") @@
        [of |-> "prefill", typed |-> {"form"}, unless |-> {"saving"}, sends |-> {"form"}, okDrops |-> {"form"},
         changes |-> {"ledger"}, reload |-> {"ledger"}])]])

-----------------------------------------------------------------------------
(* Prices *)

PricingItemSelector(onSelectItem) == [selectItem |-> Act(onSelectItem @@ [row |-> TRUE, shows |-> {"workbench"}])]

PricingInputPanel(onSavePricingTemplate, onRecommend) ==
  [typeInputs    |-> Edit("inputs"),
   applyTemplate |-> Act([shows |-> {"fees"}, edits |-> {"inputs"}]),
   saveTemplate  |-> Act(onSavePricingTemplate @@ [unless |-> {"savingTemplate"}]),
   recommend     |-> Act(onRecommend @@ [typed |-> {"inputs"}, unless |-> {"loading"}])]

\* The tier being confirmed is disabled, the other two are not.
PricingResultPanel(onConfirmPrice) == [confirmPrice |-> Act(onConfirmPrice @@ [need |-> {"priced"}])]

\* Nothing ties the recommendation that arrives to the item it was asked for.
SmartPricingPage == Screen(
  [axes |-> {"item"}, drafts |-> [inputs |-> Free, result |-> Of("item")],
   loads |-> [workbench |-> Query(<<>>), fees |-> Query(<<>>)],
   acts |-> PricingItemSelector([moves |-> {"item"}, drops |-> {"inputs", "result"}, clears |-> {"priced"}])
     @@ PricingInputPanel(Writing("savingTemplate") @@ [changes |-> {"fees"}, reload |-> {"fees"}, awaits |-> TRUE],
                          Asking("loading") @@ [of |-> "item", lands |-> {"result"}, okSets |-> {"priced"}])
     @@ PricingResultPanel(Writing("confirming") @@ [of |-> "item", sends |-> {"result"}])])

-----------------------------------------------------------------------------
(* Promotions *)

PromotionCreatePanel(onCreate) ==
  [openCreate |-> Open("showCreate"), closeCreate |-> Act([clears |-> {"showCreate"}, unless |-> {"saving"}]),
   create     |-> Act(onCreate @@ [need |-> {"showCreate"}, typed |-> {"form"}, okClears |-> {"showCreate"}])]

PromotionActionPanel(onUpdate, onAddItems) ==
  [closeAction |-> Act([need |-> {"action"}, clears |-> {"action"}, drops |-> {"form"}]),
   update      |-> Act(onUpdate @@ [need |-> {"action"}, of |-> "campaign", okClears |-> {"action"}]),
   addItems    |-> Act(onAddItems @@ [need |-> {"action"}, of |-> "campaign", typed |-> {"form"}, okClears |-> {"action"}])]

PromotionCampaignTable(onStartAction, onEndCampaign) ==
  [startAction |-> Act(onStartAction @@ [row |-> TRUE, shows |-> {"campaigns"}]),
   endCampaign |-> Act(onEndCampaign @@ [row |-> TRUE, shows |-> {"campaigns"}])]

\* One flag for every write.  The answer replaces the campaign in the list the
\* handler saw, so that a list loaded meanwhile is lost.  Discount and
\* platform sync are handled as update and end are.
PromotionsPage ==
  LET saving == Writing("saving") @@ [unless |-> {"saving"}, changes |-> {"campaigns"}, replaces |-> {"campaigns"}]
      sending == saving @@ [sends |-> {"form"}, okDrops |-> {"form"}]
  IN Screen(
  [axes |-> {"campaign"}, drafts |-> [form |-> Of("campaign")],
   loads |-> [campaigns |-> Load([busy |-> {"loading"}]),
              candidates |-> Query([by |-> "campaign", needs |-> {"action"}])],
   acts |-> [refresh |-> Act([unless |-> {"loading"}, reload |-> {"campaigns"}]),
     typeForm |-> Edit("form")]
     @@ PromotionCreatePanel(sending)
     @@ PromotionActionPanel(sending, sending)
     @@ PromotionCampaignTable([clears |-> {"showCreate"}, sets |-> {"action"}, moves |-> {"campaign"}, drops |-> {"form"}],
                               saving)])

-----------------------------------------------------------------------------
(* Growth, radar *)

\* The feedback shown beside a product is not loaded again when its action is created.
GrowthEnginePage == Screen(
  [loads |-> [opportunities |-> Query(<<>>), metrics |-> Query(<<>>)],
   acts |-> [retry |-> Reload({"opportunities"}), retryMetrics |-> Reload({"metrics"}),
     createOperationAction |-> Act([row |-> TRUE, shows |-> {"metrics"}, unlessMe |-> {"creatingAction"}, call |-> "write",
                                    busyMe |-> {"creatingAction"}, changes |-> {"metrics"}])]])

\* Results stay when another market is chosen, until the next search.
SmartRadarPage == Screen(
  [axes |-> {"market"}, drafts |-> [keywords |-> Free],
   loads |-> [results |-> Load([asked |-> TRUE, by |-> "market", fixed |-> TRUE, blank |-> TRUE, busy |-> {"loading"}])],
   acts |-> [type |-> Edit("keywords"), market |-> Choose("market"),
     search |-> Act([unless |-> {"loading"}, typed |-> {"keywords"}, reload |-> {"results"}])]])

CrossValidationPage == Screen(
  [axes |-> {"market"},
   loads |-> [results |-> Load([asked |-> TRUE, by |-> "market", fixed |-> TRUE, busy |-> {"loading"}])],
   acts |-> [market |-> Choose("market"),
     analyze |-> Act([unless |-> {"loading"}, reload |-> {"results"}])]])
=============================================================================
