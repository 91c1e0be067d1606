---------------------------- MODULE OrderScreens ----------------------------
(***************************************************************************)
(* The screens of orders and shipments, and the hooks and panels they use. *)
(* A component is an operator whose parameters are its props; what it      *)
(* contributes to its page is a record of handlers.                        *)
(***************************************************************************)
EXTENDS ScreenVocabulary

useOrder == Query([data |-> {"order"}, by |-> "id"])
useOrderStats == Query([data |-> {"orders"}])

\* The answer invalidates the lists, not the detail the order was changed on.
useUpdateOrderStatus ==
  Writing("settingStatus") @@ [changes |-> {"order", "orders"}, expires |-> {"orders"}]
useUpdateOrderNotes ==
  Writing("savingNotes") @@ [changes |-> {"order", "orders"}, expires |-> {"orders"}]

useTriggerSync ==
  Writing("syncing") @@ [changes |-> {"order", "orders", "products", "sync-status"},
                         expires |-> {"order", "orders", "products", "sync-status"}]

\* Mutant: the order the shipment belongs to is not read again.
useCreateShipmentForgetful ==
  Writing("creating") @@ [changes |-> {"shipments", "orders", "order"}, expires |-> {"shipments", "orders"}]
useCreateShipment ==
  Writing("creating") @@ [changes |-> {"shipments", "orders", "order"},
                          expires |-> {"shipments", "orders", "order"}]
useUpdateShipment ==
  Writing("updating") @@ [changes |-> {"shipment", "shipments", "orders", "order"},
                          expires |-> {"shipments", "orders", "order"}]

-----------------------------------------------------------------------------
(* The order list *)

\* Mutant: the modal is unmounted when closed, and forgets that it is saving.
ManualOrderModalUnmounted(onCreated) ==
  [openManual  |-> Open("manual"),
   closeManual |-> Close("manual"),
   typeManual  |-> Act([need |-> {"manual"}, edits |-> {"form"}, sets |-> {"filled"}]),
   submit      |-> Act(onCreated @@ Writing("saving") @@
                       [home |-> "manual", need |-> {"manual", "filled"}, unless |-> {"saving"},
                        sends |-> {"form"}, okClears |-> {"manual"}])]

\* Mutant: the form is emptied by the answer.
ManualOrderModalEmptied(onCreated) ==
  [openManual  |-> Open("manual"),
   closeManual |-> Close("manual"),
   typeManual  |-> Act([need |-> {"manual"}, edits |-> {"form"}, sets |-> {"filled"}]),
   submit      |-> Act(onCreated @@ Writing("saving") @@
                       [need |-> {"manual", "filled"}, unless |-> {"saving"},
                        sends |-> {"form"}, okDrops |-> {"form"}, okClears |-> {"manual"}])]

\* Stays mounted when closed: what was typed is there when it opens again.
ManualOrderModal(onCreated) ==
  [openManual  |-> Open("manual"),
   closeManual |-> Close("manual"),
   typeManual  |-> Act([need |-> {"manual"}, edits |-> {"form"}, sets |-> {"filled"}]),
   submit      |-> Act(onCreated @@ Writing("saving") @@
                       [need |-> {"manual", "filled"}, unless |-> {"saving"},
                        sends |-> {"form"}, okClears |-> {"manual"}])]

\* Mutant: importing is not switched off by a failure.
OrderImportPanelStuck(onSubmit) ==
  [chooseFile   |-> Act([sets |-> {"rows"}]),
   submitImport |-> Act(onSubmit @@ [need |-> {"rows"}, unless |-> {"importing"}, stuck |-> {"importing"}])]

OrderImportPanel(onSubmit) ==
  [chooseFile   |-> Act([sets |-> {"rows"}]),
   submitImport |-> Act(onSubmit @@ [need |-> {"rows"}, unless |-> {"importing"}])]

\* Filters, page and exception mode are all in the query key: one axis.
OrderListPage == Screen(
  [axes |-> {"filter"}, drafts |-> [form |-> Free],
   loads |-> [orders |-> Query([by |-> "filter"]), stats |-> useOrderStats],
   acts |-> [filter |-> Choose("filter"), retry |-> Reload({"orders"}), retryStats |-> Reload({"stats"})]
     @@ OrderImportPanel(Writing("importing") @@ [changes |-> {"orders"}, reload |-> {"orders", "stats"}])
     @@ ManualOrderModal([changes |-> {"orders"}, reload |-> {"orders"}])])

-----------------------------------------------------------------------------
(* An order *)

OrderNotesPanel(onSave) ==
  [typeNotes |-> Act([edits |-> {"notes"}, shows |-> {"order"}]),
   saveNotes |-> Act(onSave @@ [unless |-> {"savingNotes"}, sends |-> {"notes"}, shows |-> {"order"}])]

\* The buttons follow allowed_transitions of the order shown; none looks at the mutation.
OrderActionsPanel(onMark) ==
  [setStatus |-> Act(onMark @@ [shows |-> {"order"}])]

OrderPlatformSyncReviewPanel(onSync) ==
  [sync |-> Act(onSync @@ [unless |-> {"syncing"}, shows |-> {"order"}])]

\* The notes are refilled by an effect on order.notes, unless they are null.
OrderDetailPage == Screen(
  [axes |-> {"id"}, drafts |-> [notes |-> Of("id")],
   loads |-> [order     |-> [useOrder EXCEPT !.may = {"notes"}],
              shipments |-> Query([by |-> "id"])],
   acts |-> [route |-> Choose("id")]
     @@ OrderNotesPanel([of |-> "id"] @@ useUpdateOrderNotes)
     @@ OrderActionsPanel([of |-> "id"] @@ useUpdateOrderStatus)
     @@ OrderPlatformSyncReviewPanel(useTriggerSync)])

-----------------------------------------------------------------------------
(* Shipments *)

\* Mutant: the list is fetched by an effect that keeps whichever answer comes last.
ShipmentListPageUnkeyed == Screen(
  [axes |-> {"filter"},
   loads |-> [shipments |-> Load([by |-> "filter"])],
   acts |-> [filter |-> Choose("filter")]])

ShipmentListPage == Screen(
  [axes |-> {"filter"},
   loads |-> [shipments |-> Query([by |-> "filter"])],
   acts |-> [filter |-> Choose("filter")]])

ShipmentFormPanel == [typeForm |-> Act([edits |-> {"form"}])]

\* Mutant: the form is saved before the shipment of the route is there.
ShipmentDetailPageEager == Screen(
  [axes |-> {"id"}, drafts |-> [form |-> Of("id")],
   loads |-> [shipment |-> Query([by |-> "id", needs |-> {"saved"}, fills |-> {"form"}]),
              order |-> Query([data |-> {"order"}])],
   acts |-> [route  |-> Act([row |-> TRUE, sets |-> {"saved"}, moves |-> {"id"}]),
     create |-> Act(useCreateShipment @@
                    [of |-> "id", unless |-> {"creating", "updating", "saved"}, sends |-> {"form"},
                     okSets |-> {"saved"}]),
     update |-> Act(useUpdateShipment @@
                    [of |-> "id", need |-> {"saved"}, unless |-> {"creating", "updating"},
                     sends |-> {"form"}])]
     @@ ShipmentFormPanel])

\* /shipments/new and /shipments/:id are one component: the form survives the replaced route.
ShipmentDetailPage == Screen(
  [axes |-> {"id"}, drafts |-> [form |-> Of("id")],
   loads |-> [shipment |-> Query([by |-> "id", needs |-> {"saved"}, fills |-> {"form"}]),
              order |-> Query([data |-> {"order"}])],
   acts |-> [route  |-> Act([row |-> TRUE, sets |-> {"saved"}, moves |-> {"id"}]),
     create |-> Act(useCreateShipment @@
                    [of |-> "id", unless |-> {"creating", "updating", "saved"}, sends |-> {"form"},
                     okSets |-> {"saved"}]),
     update |-> Act(useUpdateShipment @@
                    [of |-> "id", need |-> {"saved"}, unless |-> {"creating", "updating"},
                     shows |-> {"shipment"}, sends |-> {"form"}])]
     @@ ShipmentFormPanel])

\* load() is called again without the spinner being waited for.
WarehousePage == Screen(
  [drafts |-> [form |-> Free],
   loads |-> [warehouses |-> Load([busy |-> {"loading"}])],
   acts |-> [openForm |-> Open("showForm"), closeForm |-> Close("showForm"),
     type   |-> Act([need |-> {"showForm"}, edits |-> {"form"}]),
     save   |-> Act([need |-> {"showForm"}, typed |-> {"form"}, call |-> "write", sends |-> {"form"},
                     okDrops |-> {"form"}, okClears |-> {"showForm"},
                     changes |-> {"warehouses"}, reload |-> {"warehouses"}]),
     delete |-> Act([row |-> TRUE, shows |-> {"warehouses"}, call |-> "write",
                     changes |-> {"warehouses"}, reload |-> {"warehouses"}])]])
=============================================================================
