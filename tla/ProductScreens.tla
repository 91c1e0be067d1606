--------------------------- MODULE ProductScreens ---------------------------
(***************************************************************************)
(* The screens of the product master, of the listings of a product in its  *)
(* stores, and of what the stores hold.                                    *)
(***************************************************************************)
EXTENDS ScreenVocabulary

useProductList == Query([data |-> {"products"}, by |-> "filter"])
useProduct == Query([data |-> {"product"}, by |-> "id", needs |-> {"saved"}])
useCreateProduct ==
  Writing("creating") @@ [changes |-> {"products"}, expires |-> {"products"}]
\* The list is invalidated; the product whose form was saved is not.
useUpdateProduct ==
  Writing("updating") @@ [changes |-> {"products", "product"}, expires |-> {"products"}]
useDeleteProduct ==
  Writing("deleting") @@ [changes |-> {"products"}, expires |-> {"products"}]

-----------------------------------------------------------------------------
(* The product list *)

ProductBulkToolbar(onApplyPrice, onApplyStock, onDelete) ==
  [typePrice  |-> Edit("price"),
   applyPrice |-> Act(onApplyPrice @@ [unless |-> {"updatingPrice"}, typed |-> {"price"}]),
   typeStock  |-> Edit("stock"),
   applyStock |-> Act(onApplyStock @@ [unless |-> {"updatingStock"}, typed |-> {"stock"}]),
   delete     |-> Act(onDelete @@ [row |-> TRUE, shows |-> {"products"}])]

\* Value and spinner of a bulk update are cleared after the refetch it awaits.
ProductListPage ==
  LET bulk(updating, value) ==
        Writing(updating) @@ [sends |-> {value}, changes |-> {"products"}, reload |-> {"products"},
                              awaits |-> TRUE, lastly |-> {value}]
      import == Act([call |-> "write", changes |-> {"products"}, reload |-> {"products"}])
  IN Screen(
  [axes |-> {"filter"}, drafts |-> [price |-> Free, stock |-> Free],
   loads |-> [products |-> useProductList],
   acts |-> [filter |-> Choose("filter"), retry |-> Reload({"products"}),
             import |-> import]
     @@ ProductBulkToolbar(bulk("updatingPrice", "price"), bulk("updatingStock", "stock"), useDeleteProduct)])

-----------------------------------------------------------------------------
(* A product *)

\* An upload's answer is added to the list of images as it was when the upload began.
ProductImagesPanel ==
  [typeImages |-> Edit("images"),
   upload     |-> Act(Writing("saving") @@ [of |-> "id", need |-> {"saved"}, unless |-> {"saving"},
                                            lands |-> {"images"}])]

ProductBasicInfoSection == [typeForm |-> Edit("form")]

\* /products/new and /products/:id are one component; an effect on [product] refills every field.
ProductEditPage == Screen(
  [axes |-> {"id"}, drafts |-> [form |-> Of("id"), images |-> Of("id")],
   loads |-> [product |-> [useProduct EXCEPT !.fills = {"form", "images"}]],
   acts |-> [route  |-> Act([row |-> TRUE, sets |-> {"saved"}, moves |-> {"id"}]),
     create |-> Act(useCreateProduct @@
                    [of |-> "id", unless |-> {"creating", "updating", "saved"},
                     sends |-> {"form", "images"}, okSets |-> {"saved"}]),
     update |-> Act(useUpdateProduct @@
                    [of |-> "id", need |-> {"saved"}, unless |-> {"creating", "updating"},
                     shows |-> {"product"}, sends |-> {"form", "images"}])]
     @@ ProductBasicInfoSection @@ ProductImagesPanel])

-----------------------------------------------------------------------------
(* The listings of a product in its stores *)

ListingMasterMatrixPanel(onSelectListing) ==
  [selectListing |-> Act(onSelectListing @@ [row |-> TRUE, shows |-> {"matrix"}])]

\* Each section edits its part of the one form.
ListingBasicSection(setEditForm)     == [typeTitle |-> Act(setEditForm)]
ListingDetailSection(setEditForm)    == [typeDescription |-> Act(setEditForm)]
ListingSalesSection(setEditForm)     == [typePrice |-> Act(setEditForm)]
ListingMediaSection(setEditForm)     == [typeImages |-> Act(setEditForm)]
ListingLogisticsSection(setEditForm) == [typePackage |-> Act(setEditForm)]
ListingContinuousEditSections ==
  LET setEditForm == [edits |-> {"editForm"}, shows |-> {"matrix"}]
  IN ListingBasicSection(setEditForm) @@ ListingDetailSection(setEditForm) @@ ListingSalesSection(setEditForm)
     @@ ListingMediaSection(setEditForm) @@ ListingLogisticsSection(setEditForm)

\* The form is refilled when the id of the selected listing changes.  Both
\* answers select again the listing they were sent for.
ListingsPanel ==
  LET writing(pending) ==
        Writing(pending) @@ [of |-> "listing", unless |-> {pending}, shows |-> {"matrix"},
                             sends |-> {"editForm"}, changes |-> {"matrix"}, okBack |-> {"listing"}]
  IN Screen(
  [axes |-> {"product", "listing"}, drafts |-> [editForm |-> Following("listing")],
   loads |-> [matrix |-> Load([by |-> "product", keyed |-> TRUE, blanked |-> TRUE,
                               busy |-> {"loadingMatrix"}, fills |-> {"editForm"}])],
   acts |-> [saveStoreOverride |-> Act(writing("savingOverride") @@ [patches |-> {"matrix"}]),
             promoteBaseVersion |-> Act([writing("promotingBase") EXCEPT !.sends = {}]
                                        @@ [replaces |-> {"matrix"}])]
     @@ ListingMasterMatrixPanel([moves |-> {"listing"}])
     @@ ListingContinuousEditSections])

-----------------------------------------------------------------------------
(* What the stores hold *)

ProductSyncRetryLogBoard(onRetry) == [retryLogs |-> onRetry]

\* The sync writes a log that the panel's own log query does not hear of.
PlatformStoreProductsPanel == Screen(
  [axes |-> {"filter", "account"},
   loads |-> [items |-> Query([data |-> {"platform-store-products"}, by |-> "filter"]),
              logs  |-> Query([data |-> {"platform-product-sync-logs"}, by |-> "account"])],
   acts |-> [filter |-> Choose("filter"),
     account |-> Act([moves |-> {"account", "filter"}]),
     sync |-> Act(Writing("syncing") @@
        [unless |-> {"syncing"}, changes |-> {"platform-store-products", "platform-product-sync-logs"},
         expires |-> {"platform-store-products"}, awaits |-> TRUE])]
     @@ ProductSyncRetryLogBoard(Reload({"logs"}))])
=============================================================================
