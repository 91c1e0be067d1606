---------------------------- MODULE TrendScreens ----------------------------
(***************************************************************************)
(* Where products are found: captured trends, uploaded pictures, best      *)
(* sellers, recommendations, the sourcing pipeline and the sources of all  *)
(* these.  Lists are filled by an effect for the filters chosen, and asked *)
(* for again by the handlers of their rows.                                *)
(***************************************************************************)
EXTENDS ScreenVocabulary

-----------------------------------------------------------------------------
(* Recommendations *)

CandidatePoolTable(onSelect) == [select |-> Act(onSelect @@ [row |-> TRUE, shows |-> {"bundle"}])]

RecommendationEvidencePanel == Screen(
  [axes |-> {"market", "candidate"},
   loads |-> [bundle |-> Load([by |-> "market", keyed |-> TRUE, busy |-> {"loading"}, picks |-> {"candidate"}])],
   acts |-> [market |-> Choose("market")] @@ CandidatePoolTable([moves |-> {"candidate"}])])

\* Readiness is loaded for one market at a time, as the recommendations are.
RecommenderReadinessPanel == Screen(
  [axes |-> {"market"},
   loads |-> [bundle |-> Load([by |-> "market", keyed |-> TRUE, busy |-> {"loading"}])],
   acts |-> [market |-> Choose("market")]])

useAddToSourcing == Writing("addingToSourcing") @@ [unless |-> {"addingToSourcing"}]

\* The prompt can be changed, or reset, while it is analysed; the answer is shown all the same.
RecommenderTab == Screen(
  [axes |-> {"prompt"}, drafts |-> [result |-> Of("prompt"), manual |-> Free],
   acts |-> [setPromptFromCard |-> Act([row |-> TRUE, moves |-> {"prompt"}, drops |-> {"result"}]),
     analyze  |-> Act(Asking("loading") @@ [of |-> "prompt", unless |-> {"loading"}, drops |-> {"result"}, lands |-> {"result"}]),
     addAiResult |-> Act(useAddToSourcing @@ [typed |-> {"result"}, sends |-> {"result"}]),
     typeManual  |-> Edit("manual"),
     addManual   |-> Act(useAddToSourcing @@ [typed |-> {"manual"}, drops |-> {"manual"}])]])

-----------------------------------------------------------------------------
(* Uploaded pictures *)

PendingImagesPanel(onThumbnailClick, onDeleteImage) ==
  [thumbnail   |-> Act(onThumbnailClick @@ [row |-> TRUE, shows |-> {"pending"}]),
   deleteImage |-> Act(onDeleteImage @@ [row |-> TRUE, shows |-> {"pending"}])]

UploadImageCard(onUpload) == [upload |-> Act(onUpload)]

\* The id confirmed is that of the analysis shown.
ConfirmBlock(onConfirm) == [confirm |-> Act(onConfirm @@ [typed |-> {"analysis"}])]

\* A thumbnail can be clicked while another is analysed: the preview is of the
\* last one clicked, the analysis of the last one answered.
UploadTab ==
  LET analysing == [call |-> "read", busy |-> {"uploading"}, drops |-> {"analysis"}, lands |-> {"analysis"}]
  IN Screen(
  [axes |-> {"preview"}, drafts |-> [analysis |-> Of("preview")],
   loads |-> [pending |-> Load(<<>>)],
   acts |-> PendingImagesPanel(analysing @@ [moves |-> {"preview"}],
                               [call |-> "write", changes |-> {"pending"}, patches |-> {"pending"}])
     @@ UploadImageCard(analysing @@ [unless |-> {"uploading"}, moves |-> {"preview"}, changes |-> {"pending"}, reload |-> {"pending"}])
     @@ ConfirmBlock(Writing("confirming") @@ [unless |-> {"confirming"}, changes |-> {"pending"}, patches |-> {"pending"}])])

-----------------------------------------------------------------------------
(* Captured trends and best sellers *)

\* A keyword added for a market asks for the keywords of the market chosen then.
OldTrendsTab == Screen(
  [axes |-> {"market"}, drafts |-> [addForm |-> Free],
   loads |-> [trends |-> Load([by |-> "market"])],
   acts |-> [market |-> Choose("market"), typeKeyword |-> Edit("addForm"),
     addKeyword |-> Act(Writing("adding") @@ [unless |-> {"adding"}, typed |-> {"addForm"}, sends |-> {"addForm"}, okDrops |-> {"addForm"},
                                              changes |-> {"trends"}, reload |-> {"trends"}])]])

TrendingToolbar(onSync) == [sync |-> Act(onSync @@ [unless |-> {"syncing"}])]

\* Adding has no flag of its own.
ManualAddCard(onAdd) == [typeProduct |-> Edit("addForm"), add |-> Act(onAdd @@ [typed |-> {"addForm"}])]

TrendingTab == Screen(
  [axes |-> {"platform"}, drafts |-> [addForm |-> Free],
   loads |-> [products |-> Listing("platform")],
   acts |-> [platform |-> Choose("platform"),
     delete  |-> Act(RowWrite({"products"})),
     capture |-> Act(OfRow @@ [call |-> "write"])]
     @@ TrendingToolbar(Writing("syncing") @@ [changes |-> {"products"}, reload |-> {"products"}])
     @@ ManualAddCard([call |-> "write", sends |-> {"addForm"}, okDrops |-> {"addForm"}, changes |-> {"products"}, reload |-> {"products"}])])

\* The trends that were consumed: loaded once, and added to the pipeline one by one.
TrendsTab == Screen(
  [loads |-> [trends |-> Load([busy |-> {"trendLoading"}])],
   acts |-> [retry |-> Act([unless |-> {"trendLoading"}, reload |-> {"trends"}]),
     addToSourcing |-> Act([row |-> TRUE, shows |-> {"trends"}, call |-> "write"])]])

CrossValidationColumn == Screen(
  [axes |-> {"category"},
   loads |-> [analysis |-> Load([asked |-> TRUE, by |-> "category", fixed |-> TRUE, busy |-> {"loading"}])],
   acts |-> [category |-> Choose("category"), analyze |-> Act([unless |-> {"loading"}, reload |-> {"analysis"}])]])

-----------------------------------------------------------------------------
(* The sourcing pipeline *)

PipelinePagination(onPageChange) == [page |-> Act(onPageChange)]

StageButtons(onStageChange) == [stage |-> Act(onStageChange)]
PipelineItemCard(onDelete, onStageChange) == [delete |-> Act(onDelete)] @@ StageButtons(onStageChange)

\* Every handler reloads the page and filters it was rendered with.
PipelineTab ==
  LET perItem == RowWrite({"items"}) @@ [awaits |-> TRUE]
  IN Screen(
  [axes |-> {"filter"},
   loads |-> [items |-> Load([by |-> "filter", busy |-> {"loading"}])],
   acts |-> PipelinePagination([row |-> TRUE, moves |-> {"filter"}]) @@ PipelineItemCard(perItem, perItem)])

PurchaseFormPanel(onSubmit)     == [typePurchase |-> Edit("purchaseForm"), submitPurchase |-> Act(onSubmit)]
CostCalculator(onCalculateCost) == [calculateCost |-> Act(onCalculateCost)]

\* One purchase form for all the items; the item it was opened for is kept beside it.
PipelineCostPanel ==
  LET written == [unless |-> {"loading"}, call |-> "write", changes |-> {"items"}, reload |-> {"items"}, awaits |-> TRUE]
  IN Screen(
  [axes |-> {"buying"}, drafts |-> [purchaseForm |-> Of("buying")],
   loads |-> [items |-> Load([busy |-> {"loading"}])],
   acts |-> [openPurchase |-> Act(OfRow @@ [moves |-> {"buying"}, drops |-> {"purchaseForm"}])]
     @@ PurchaseFormPanel(written @@ [of |-> "buying", typed |-> {"purchaseForm"}, sends |-> {"purchaseForm"},
                                      okDrops |-> {"purchaseForm"}])
     @@ CostCalculator(written @@ [row |-> TRUE])])

SupplierFormPanel(onSubmit) == [typeSupplier |-> Edit("supForm"), submitSupplier |-> Act(onSubmit @@ [typed |-> {"supForm"}])]

\* One form for the supplier of any item: what is typed for one is still there for the next.
PipelineSupplierPanel == Screen(
  [axes |-> {"item"}, drafts |-> [supForm |-> Of("item")],
   loads |-> [suppliers |-> Load([by |-> "item", keyed |-> TRUE]),
              results   |-> Load([asked |-> TRUE, by |-> "item", fixed |-> TRUE, blank |-> TRUE, busy |-> {"loading1688"}])],
   acts |-> [toggleExpand |-> Choose("item"),
     search1688 |-> Act([unless |-> {"loading1688"}, reload |-> {"results"}])]
     @@ SupplierFormPanel([of |-> "item", call |-> "write", sends |-> {"supForm"}, okDrops |-> {"supForm"},
                           changes |-> {"suppliers"}, reload |-> {"suppliers"}])])

-----------------------------------------------------------------------------
(* The sources *)

SupplyProductsPanel == Screen(
  [axes |-> {"page"},
   loads |-> [products |-> Listing("page")],
   acts |-> [page |-> Choose("page"),
     delete |-> Act(RowWrite({"products"})),
     addToDiscovery |-> Act(OfRow @@ [call |-> "write", unlessMe |-> {"adding"}, busyMe |-> {"adding"},
                                      changes |-> {"products"}, patches |-> {"products"}])]])

TrendingProductsToolbar(onFilter) == [filter |-> Act(onFilter)]

TrendingProductCard(adding) == [addToSourcing |-> Act(OfRow @@ adding)]

TrendingProductDetailModal(adding) ==
  [openDetail    |-> Act(OfRow @@ [moves |-> {"detail"}, sets |-> {"detail"}]),
   addFromDetail |-> Act(adding @@ [need |-> {"detail"}, of |-> "detail"])]

TrendingProductsGrid(onDelete, adding) == [delete |-> Act(onDelete)] @@ TrendingProductCard(adding)

TrendingProductsPanel ==
  LET adding == [call |-> "write", unlessMe |-> {"adding"}, busyMe |-> {"adding"}]
  IN Screen(
  [axes |-> {"filter", "detail"},
   loads |-> [products |-> Listing("filter")],
   acts |-> TrendingProductsToolbar([row |-> TRUE, moves |-> {"filter"}])
     @@ TrendingProductsGrid(RowWrite({"products"}), adding)
     @@ TrendingProductDetailModal(adding)])

TrendTab(onSyncTrends) == [syncTrends |-> Act(onSyncTrends @@ [unless |-> {"syncingTrends"}])]

\* The keywords belong to the page, the flag of the one being added too: it holds one id.
ThreeColumnTrends ==
  LET signal == [call |-> "write", changes |-> {"keywords"}, patches |-> {"keywords"}]
  IN [add        |-> Act(signal @@ [row |-> TRUE, shows |-> {"keywords"}, unlessMe |-> {"addingKeyword"}, busyMe |-> {"addingKeyword"}]),
      typeManual |-> Edit("manual"),
      manualAdd  |-> Act(signal @@ [unless |-> {"manualSaving"}, busy |-> {"manualSaving"}, typed |-> {"manual"}, sends |-> {"manual"},
                                    okDrops |-> {"manual"}])]

\* The form is one for all sources: opening another leaves what was typed.
ScoutSourceCards == Screen(
  [axes |-> {"source"}, drafts |-> [captureForm |-> Of("source")],
   acts |-> [open |-> Choose("source"),
     cancel  |-> Act([drops |-> {"captureForm"}]),
     type    |-> Edit("captureForm"),
     handleCapture |-> Act([of |-> "source", call |-> "write", typed |-> {"captureForm"}, sends |-> {"captureForm"},
                            okDrops |-> {"captureForm"}])]])

ScoutSourcesPage == Screen(
  [axes |-> {"market"}, drafts |-> [manual |-> Free],
   loads |-> [keywords |-> Load([by |-> "market"])],
   acts |-> [toggleMarket |-> Choose("market")]
     @@ TrendTab(Writing("syncingTrends") @@ [changes |-> {"keywords"}, reload |-> {"keywords"}, awaits |-> TRUE])
     @@ ThreeColumnTrends])

SignalFunnelOverview == Screen(
  [loads |-> [funnel |-> Load([busy |-> {"loading"}])],
   acts |-> [refresh |-> Act([unless |-> {"loading"}, reload |-> {"funnel"}])]])
=============================================================================
