--------------------------- MODULE PublishScreens ---------------------------
(***************************************************************************)
(* Batch publishing: three steps of one page, select, preview and confirm. *)
(* A preview replaces the batch of drafts; its back button is enabled all  *)
(* the time.                                                               *)
(***************************************************************************)
EXTENDS ScreenVocabulary

\* Products named in the route bring their platforms and stores, which replace the ones chosen.
\* The preview step, mounted anew each time, asks for the providers.
ListingWorkbench == Load(<<>>)
QueryProducts == Load([fills |-> {"selection"}])
ProviderTaskMatrix == Load([needs |-> {"preview"}, keyed |-> TRUE])

toggleItemSelection == [edits |-> {"selection"}]
toggleStoreSelection == [edits |-> {"selection"}]

\* The answer replaces the batch, and forgets what was confirmed of the last one.
loadPreview == Asking("loading") @@
  [sends |-> {"selection"}, okMoves |-> {"batch"}, okDrops |-> {"draft", "confirmed"}, okSets |-> {"preview"}]

\* Whatever step the page is on, the answer turns it to the results.
publishDrafts == Writing("publishing") @@
  [of |-> "batch", sends |-> {"draft", "confirmed"}, okClears |-> {"preview"}, okSets |-> {"confirm"}]

\* The candidate that comes back is written into the draft at the index it was asked for.
runAssist == Asking("assistLoading") @@ [of |-> "batch", lands |-> {"draft"}]

BatchPublishSelectStep(onToggleItem, onToggleStore, onPreview) ==
  LET select == [unless |-> {"preview", "confirm"}]
  IN [toggleItem  |-> Act(onToggleItem @@ select), toggleStore |-> Act(onToggleStore @@ select),
      loadPreview |-> Act(onPreview @@ [unless |-> {"preview", "confirm", "loading"}])]

VariantEditor(onChange)    == [editVariant |-> Act(onChange)]
MediaEditor(onChange)      == [editMedia |-> Act(onChange)]
LogisticsEditor(onChange)  == [editLogistics |-> Act(onChange)]
ComplianceEditor(onChange) == [editCompliance |-> Act(onChange)]
ReadinessPanel(onAssist)   == [runAssist |-> Act(onAssist @@ [unless |-> {"assistLoading"}])]

\* What is ticked stays ticked when the draft is edited, or an assist writes into it.
BatchPublishPreviewStep(onDraftChange, onToggleDraft, onBack, onAssist, onPublish) ==
  LET preview == [need |-> {"preview"}]
  IN VariantEditor(onDraftChange @@ preview) @@ MediaEditor(onDraftChange @@ preview)
     @@ LogisticsEditor(onDraftChange @@ preview) @@ ComplianceEditor(onDraftChange @@ preview)
     @@ ReadinessPanel(onAssist @@ preview)
     @@ [toggleDraft   |-> Act(onToggleDraft @@ preview),
         back          |-> Act(onBack @@ preview),
         publishDrafts |-> Act(onPublish @@ preview @@ [unless |-> {"publishing"}, typed |-> {"confirmed"}])]

BatchPublishResultStep(onReset) == [reset |-> Act(onReset @@ [need |-> {"confirm"}])]

BatchPublishPage == Screen(
  [axes |-> {"batch"}, drafts |-> [selection |-> Free, draft |-> Of("batch"), confirmed |-> Of("batch")],
   loads |-> [workbench |-> ListingWorkbench, products |-> QueryProducts, providers |-> ProviderTaskMatrix],
   acts |-> BatchPublishSelectStep(toggleItemSelection, toggleStoreSelection, loadPreview)
     @@ BatchPublishPreviewStep([edits |-> {"draft"}], [edits |-> {"confirmed"}],
          [clears |-> {"preview", "assistLoading"}], runAssist, publishDrafts)
     @@ BatchPublishResultStep([clears |-> {"confirm", "preview"}, drops |-> {"draft", "confirmed"}])])
=============================================================================
