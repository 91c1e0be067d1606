--------------------------- MODULE ContentScreens ---------------------------
(***************************************************************************)
(* The content factory: the queue of products waiting for their listing,   *)
(* the editor of a listing, and the studio for its pictures.  An editor is *)
(* an overlay of the page: closing it unmounts it, and another product can *)
(* be opened while what it sent is still on its way.                       *)
(***************************************************************************)
EXTENDS ScreenVocabulary

-----------------------------------------------------------------------------
(* The queue *)

ContentProductSellerRow(onOpenListing)   == [openListing |-> Act(onOpenListing)]
ContentProductSellerTable(onOpenListing) == ContentProductSellerRow(onOpenListing)

\* What is ticked is only gone through: the bulk tools open the products one at a time.
SelectionCommandDeck(onOpenListing)      == [openTicked |-> Act(onOpenListing)]
BulkActionWorkbench(onOpenListing)       == [openInBulk |-> Act(onOpenListing)]

ContentQueueError(onRetry) == [retry |-> Act(onRetry)]

ContentProductQueue(onOpenListing) ==
  LET open == onOpenListing @@ [row |-> TRUE, shows |-> {"workbench"}]
  IN ContentProductSellerTable(open) @@ SelectionCommandDeck(open) @@ BulkActionWorkbench(open)
     @@ ContentQueueError([unless |-> {"open"}, reload |-> {"workbench"}])

useContentWorkbench == Query([data |-> {"content-workbench"}])

\* What a saved listing or plan asks for: the product it was saved for, as it
\* is now, which becomes the product selected again, and the queue.
refreshSelectedProductFromWorkbench ==
  [asked |-> TRUE, data |-> {"content-workbench"}, by |-> "product", fixed |-> TRUE, returns |-> {"product"}]

\* Closing the overlay leaves nothing of the editor but its requests.
ContentEditorOverlay(overlay, ds) == [backToQueue |-> Act([need |-> {overlay}, clears |-> {overlay}, drops |-> ds])]

-----------------------------------------------------------------------------
(* The listing editor *)

ListingImageSlotSection(onChange)    == [arrangeImages |-> Act(onChange)]
ListingCopyAiAssistPanel(onChange)   == [writeCopy |-> Act(onChange)]
ListingAttributeSection(onChange)    == [fillAttribute |-> Act(onChange)]
ListingSkuSection(onChange)          == [fillSku |-> Act(onChange)]

\* Each task of the listing is saved and confirmed in turn, then the product is asked for again.
saveMaster(onSave) == Act(onSave @@ [parts |-> TRUE])
saveStoreOverride(onSave) == Act(onSave @@ [need |-> {"open", "activeStore"}, parts |-> TRUE])

SellerPlatformListingEditorPanel(onSaved) ==
  LET onChange == [need |-> {"open"}, edits |-> {"draft"}]
      onSave == Writing("saving") @@ onSaved @@
        [home |-> "open", need |-> {"open"}, unless |-> {"saving"}, of |-> "product", sends |-> {"draft"},
         changes |-> {"content-workbench"}, awaits |-> TRUE]
  IN ListingImageSlotSection(onChange) @@ ListingCopyAiAssistPanel(onChange)
     @@ ListingAttributeSection(onChange) @@ ListingSkuSection(onChange)
     @@ [saveMaster |-> saveMaster(onSave), saveStoreOverride |-> saveStoreOverride(onSave),
         resetDraft |-> Act([need |-> {"open"}, unless |-> {"saving"}, drops |-> {"draft"}])]

\* An effect fills the draft whenever the product, or anything it holds, changes.
ContentPlannerPage == Screen(
  [axes |-> {"product"}, drafts |-> [draft |-> Following("product")],
   loads |-> [workbench       |-> useContentWorkbench,
              selectedProduct |-> Load(refreshSelectedProductFromWorkbench @@ [may |-> {"draft"}])],
   acts |-> [chooseStore |-> Act([unless |-> {"open"}, sets |-> {"activeStore"}])]
     @@ ContentProductQueue([unless |-> {"open"}, moves |-> {"product"}, sets |-> {"open"}, drops |-> {"draft"}])
     @@ ContentEditorOverlay("open", {"draft"})
     @@ SellerPlatformListingEditorPanel([reload |-> {"workbench", "selectedProduct"}])])

-----------------------------------------------------------------------------
(* The picture studio *)

ImageProcessingPanel(onRun) == [runImageEdit |-> Act(onRun)]
VideoProcessingPanel(onRun) == [runVideoRender |-> Act(onRun)]
MediaProductContextPanel(onRun) == [runSavedImageExportTasks |-> Act(onRun)]
ListingMediaSlotBoard(onRun) == [runSourceImageEdit |-> Act(onRun)]
ContentAssetLibraryPanel(onRefresh, onRemove) ==
  [refreshAssets |-> Act(onRefresh), remove |-> Act(onRemove @@ [row |-> TRUE, shows |-> {"assets"}])]

SellerImageToolRail(onChange)           == [applyToolPreset |-> Act(onChange)]
ImageSlotCard(onChange)                 == [reorderSlot |-> Act(onChange)]
ProductImageAssetPicker(onChange)       == [replaceSlot |-> Act(onChange)]
SellerImageSlotRail(onChange) == ImageSlotCard(onChange) @@ ProductImageAssetPicker(onChange)
ImageSlotUploadDropzone(onUpload)       == [uploadSlotImage |-> Act(onUpload)]
ImageCanvasControlPanel(onClear)        == [clearSlot |-> Act(onClear)]
SellerImageCanvasPanel(onUpload, onSave, onClear) ==
  ImageSlotUploadDropzone(onUpload) @@ ImageCanvasControlPanel(onClear) @@ [saveCurrentSlotPlan |-> Act(onSave)]

\* The slots are the draft.  Tools and the rail stay usable while a picture is
\* processed; the picture goes last into the slot that was active at the click.
SellerImageEditorWorkbench(onUpload, onSave) ==
  LET onChange == [need |-> {"open"}, edits |-> {"slots"}]
  IN SellerImageToolRail(onChange) @@ SellerImageSlotRail(onChange)
     @@ SellerImageCanvasPanel(onUpload, onSave, onChange @@ [unless |-> {"loading"}])

\* The plan saved replaces the slots twice: as the saved plan, and once all is read again.
saveImageSlotPlan(one) ==
  one @@ [sends |-> {"slots"}, parts |-> TRUE, patches |-> {"savedSlotPlan"}, changes |-> {"savedSlotPlan", "content-workbench"},
          okDrops |-> {"slots"}, lastly |-> {"slots"}, reload |-> {"assets", "selectedProduct"}]

\* One flag for every request of the studio.
oneAtATime == Writing("loading") @@ [unless |-> {"loading"}, awaits |-> TRUE]
process == [changes |-> {"assets"}, reload |-> {"assets"}]

\* New assets, and a plan that differs, fill the slots again.  The studio is
\* mounted anew for each product opened.
ContentImageEditor ==
  LET one == oneAtATime @@ [home |-> "open", need |-> {"open"}, of |-> "product"]
      ofProduct == [by |-> "product", needs |-> {"open"}, keyed |-> TRUE, may |-> {"slots"}]
  IN Screen(
  [axes |-> {"product"}, drafts |-> [slots |-> Following("product")], on |-> {"open"},
   loads |-> [assets          |-> Load(ofProduct),
              savedSlotPlan   |-> Load(ofProduct @@ [blanked |-> TRUE]),
              selectedProduct |-> Load(refreshSelectedProductFromWorkbench)],
   acts |-> [openImageEditor |-> Act([row |-> TRUE, unless |-> {"open"}, moves |-> {"product"}, sets |-> {"open"}, drops |-> {"slots"}])]
     @@ ContentEditorOverlay("open", {"slots"})
     @@ SellerImageEditorWorkbench(one @@ process, saveImageSlotPlan(one))])

\* The panels below it, while the overlay stays open.
ContentMediaStudio == Screen(
  [loads |-> [assets        |-> Load(<<>>),
              savedSlotPlan |-> Load([blanked |-> TRUE]),
              selectedProduct |-> Load([asked |-> TRUE])],
   acts |-> ListingMediaSlotBoard(oneAtATime @@ process) @@ ImageProcessingPanel(oneAtATime @@ process)
     @@ VideoProcessingPanel(oneAtATime @@ process)
     @@ MediaProductContextPanel(oneAtATime @@ [changes |-> {"assets", "savedSlotPlan", "selectedProduct"},
                                                reload |-> {"assets", "savedSlotPlan", "selectedProduct"}])
     @@ ContentAssetLibraryPanel([reload |-> {"assets"}], [call |-> "write", changes |-> {"assets"}, patches |-> {"assets"}])])
=============================================================================
