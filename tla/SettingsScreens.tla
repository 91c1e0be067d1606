-------------------------- MODULE SettingsScreens --------------------------
(***************************************************************************)
(* The settings centre: accounts and rights, dictionaries, rates, seeds,   *)
(* system tasks, keys, platforms.  Most panels share one habit: a load()   *)
(* with a spinner, called when the panel is mounted and again after each   *)
(* write, and a form that is emptied by the answer.                        *)
(***************************************************************************)
EXTENDS ScreenVocabulary

-----------------------------------------------------------------------------
(* Accounts, rights, plans *)

ProfileSettings == Screen(
  [axes |-> {"editing", "pwTarget"}, drafts |-> [form |-> Of("editing"), pwForm |-> Of("pwTarget")],
   loads |-> [users |-> Load([busy |-> {"loading"}, blanked |-> TRUE])],
   acts |-> [startAdd  |-> Act([unless |-> {"loading"}, sets |-> {"adding"}, drops |-> {"form"}]),
     cancelAdd |-> Act([unless |-> {"loading"}, need |-> {"adding"}, clears |-> {"adding"}, drops |-> {"form"}]),
     startEdit |-> Act([row |-> TRUE, shows |-> {"users"}, unless |-> {"loading"}, moves |-> {"editing"}, drops |-> {"form"}]),
     type      |-> Act([unless |-> {"loading"}, edits |-> {"form"}]),
     create    |-> Saving("users", [need |-> {"adding"}, unless |-> {"loading"}, okClears |-> {"adding"},
                                    okDrops |-> {"form"}]),
     update    |-> Saving("users", [of |-> "editing", unless |-> {"loading", "adding"}, sends |-> {"form"},
                                    okDrops |-> {"form"}]),
     delete    |-> Saving("users", [row |-> TRUE, shows |-> {"users"}, unless |-> {"loading"}]),
     startPassword |-> Act([row |-> TRUE, shows |-> {"users"}, unless |-> {"loading"}, moves |-> {"pwTarget"}, drops |-> {"pwForm"}]),
     typePassword  |-> Act([unless |-> {"loading"}, edits |-> {"pwForm"}]),
     password  |-> Act([of |-> "pwTarget", unless |-> {"loading"}, typed |-> {"pwForm"}, call |-> "write",
                        sends |-> {"pwForm"}, okDrops |-> {"pwForm"}])]])

\* Every load selects the first user and takes that user's rights into the form.
AccessControlSettings == Screen(
  [axes |-> {"user"}, drafts |-> [rights |-> Of("user")],
   loads |-> [matrix |-> Load([busy |-> {"loading"}, picks |-> {"user"}, fills |-> {"rights"}])],
   acts |-> [reload |-> Act([unless |-> {"loading"}, reload |-> {"matrix"}]),
     selectUser |-> Act([row |-> TRUE, shows |-> {"matrix"}, unless |-> {"loading"}, moves |-> {"user"}, drops |-> {"rights"}]),
     toggle     |-> Act([shows |-> {"matrix"}, unless |-> {"loading"}, edits |-> {"rights"}]),
     save       |-> SavingAwaited("matrix", [of |-> "user", shows |-> {"matrix"}, unless |-> {"loading", "saving"},
                                             busy |-> {"saving"}, sends |-> {"rights"}, parts |-> TRUE])]])

AccessDirectorySettings == Screen(
  [loads |-> [matrix |-> Load([busy |-> {"loading"}])],
   acts |-> [reload |-> Act([unless |-> {"loading"}, reload |-> {"matrix"}])]])

\* Switches are shown at once, and stay so when the save fails.
AIProviderSettings == Screen(
  [loads |-> [providers |-> Load([busy |-> {"loading"}])],
   acts |-> [toggle |-> Act([row |-> TRUE, unless |-> {"loading"}, shows |-> {"providers"}, call |-> "write",
                             changes |-> {"providers"}, early |-> {"providers"}, patches |-> {"providers"}])]])

BillingSettings == Screen(
  [loads |-> [plans |-> Load([busy |-> {"loading"}])],
   acts |-> [createOrder |-> Saving("plans", [row |-> TRUE, unless |-> {"loading"}, shows |-> {"plans"}])]])

ConfigQualitySettings == Screen(
  [loads |-> [quality |-> Load([busy |-> {"loading"}])],
   acts |-> [reload |-> Act([unless |-> {"loading"}, reload |-> {"quality"}])]])

\* Opening the Pinterest form reads the account first, and opens with the answer.
ApiKeySettings == Screen(
  [axes |-> {"editing"}, drafts |-> [editVal |-> Of("editing"), pinForm |-> Free],
   loads |-> [configs |-> Load([busy |-> {"loading"}, blanked |-> TRUE])],
   acts |-> [startEdit |-> Act([row |-> TRUE, shows |-> {"configs"}, unless |-> {"loading"}, moves |-> {"editing"}, drops |-> {"editVal"}]),
     type    |-> Act([unless |-> {"loading"}, edits |-> {"editVal"}]),
     save    |-> Saving("configs", [of |-> "editing", shows |-> {"configs"}, unless |-> {"loading"}, sends |-> {"editVal"},
                                    okDrops |-> {"editVal"}, okClears |-> {"pinModal"}]),
     openPin |-> Act([unless |-> {"loading"}, shows |-> {"configs"}, call |-> "read", okSets |-> {"pinModal"}, okDrops |-> {"pinForm"}]),
     typePin |-> Act([need |-> {"pinModal"}, edits |-> {"pinForm"}]),
     savePin |-> Saving("configs", [need |-> {"pinModal"}, unless |-> {"loading"}, sends |-> {"pinForm"},
                                    okDrops |-> {"editVal"}, okClears |-> {"pinModal"}])]])

WarehouseSettings == Screen(
  [drafts |-> [form |-> Free],
   loads |-> [whs |-> Load([blanked |-> TRUE])],
   acts |-> [type |-> Edit("form"),
     add |-> Saving("whs", [typed |-> {"form"}, sends |-> {"form"}, okDrops |-> {"form"}]),
     del |-> Saving("whs", [row |-> TRUE, shows |-> {"whs"}])]])

-----------------------------------------------------------------------------
(* Dictionaries *)

DictionaryItemsTable(onSave, onDelete) ==
  [startEdit |-> Act([row |-> TRUE, shows |-> {"dicts"}, moves |-> {"editing"}, drops |-> {"editForm"}, sets |-> {"edit"}]),
   typeEdit  |-> Act([need |-> {"edit"}, edits |-> {"editForm"}]),
   save      |-> Saving("dicts", onSave @@ [need |-> {"edit"}]),
   delete    |-> Saving("dicts", onDelete @@ [row |-> TRUE, shows |-> {"dicts"}])]

DictionaryAddForm(onAdd) ==
  [startAdd |-> Act([sets |-> {"adding"}, drops |-> {"addForm"}]),
   typeAdd  |-> Act([need |-> {"adding"}, edits |-> {"addForm"}]),
   add      |-> Saving("dicts", onAdd @@ [need |-> {"adding"}])]

DictSettingsCRUD == Screen(
  [axes |-> {"dict", "editing"}, drafts |-> [editForm |-> Of("editing"), addForm |-> Of("dict")],
   loads |-> [dicts |-> Load([blanked |-> TRUE])],
   acts |-> [selectDict |-> Act([row |-> TRUE, shows |-> {"dicts"}, moves |-> {"dict"}, clears |-> {"edit", "adding"}])]
     @@ DictionaryItemsTable([of |-> "editing", sends |-> {"editForm"}, okClears |-> {"edit"}], [call |-> "write"])
     @@ DictionaryAddForm([of |-> "dict", sends |-> {"addForm"}, okClears |-> {"adding"}, okDrops |-> {"addForm"}])])

SettingsFieldDictionaryPanel(onReload, onSaveDraft, onPublishDraft) ==
  [reload  |-> Act(onReload @@ [unless |-> {"loading"}]),
   saveDraft    |-> Act(onSaveDraft @@ [unless |-> {"saving"}, shows |-> {"versions"}]),
   publishDraft |-> Act(onPublishDraft @@ [unless |-> {"saving"}, shows |-> {"versions"}, clean |-> {"fields"}])]

\* A draft dictionary is edited beside the one in force; loading the versions
\* takes the saved draft into the editor.
FieldDictionarySettings ==
  LET versions == [call |-> "write", busy |-> {"saving"}, changes |-> {"versions"},
                   reload |-> {"versions"}, awaits |-> TRUE]
  IN Screen(
  [drafts |-> [fields |-> Free],
   loads |-> [versions |-> Load([busy |-> {"loading"}, fills |-> {"fields"}])],
   acts |-> [updateField |-> Act([shows |-> {"versions"}, edits |-> {"fields"}])]
     @@ SettingsFieldDictionaryPanel([reload |-> {"versions"}], versions @@ [sends |-> {"fields"}], versions)])

GovernanceActionBar(onSaveDraft, onPublishDraft) ==
  [saveDraft    |-> Act(onSaveDraft @@ [unless |-> {"saving"}, shows |-> {"schema"}]),
   publishDraft |-> Act(onPublishDraft @@ [unless |-> {"saving"}, shows |-> {"schema"}, clean |-> {"editable"}])]

PlatformFieldGovernanceHeader(onRefresh) == [refresh |-> Act(onRefresh @@ [unless |-> {"loading"}])]

PlatformFieldGroupGovernance ==
  LET versions == [call |-> "write", busy |-> {"saving"}, changes |-> {"schema"},
                   reload |-> {"schema"}, awaits |-> TRUE]
  IN Screen(
  [drafts |-> [editable |-> Free],
   loads |-> [schema |-> Load([busy |-> {"loading"}, fills |-> {"editable"}])],
   acts |-> [updateField |-> Act([shows |-> {"schema"}, edits |-> {"editable"}])]
     @@ PlatformFieldGovernanceHeader([reload |-> {"schema"}])
     @@ GovernanceActionBar(versions @@ [sends |-> {"editable"}], versions)])

-----------------------------------------------------------------------------
(* Rates and seeds *)

ExchangeRatesPanel(onRefreshRates) ==
  [refreshRates |-> Act(onRefreshRates @@ [unless |-> {"refreshingRates"}])]

ProfitCalculatorPanel(onCalculate) ==
  [calculate |-> Act(onCalculate @@ [unless |-> {"calcLoading"}])]

FeeRateTable(onSaveItem) ==
  [startEdit |-> Act([row |-> TRUE, shows |-> {"fees"}, moves |-> {"editing"}, drops |-> {"form"}, sets |-> {"edit"}]),
   typeForm  |-> Act([need |-> {"edit"}, edits |-> {"form"}]),
   saveItem  |-> Act(onSaveItem @@ [need |-> {"edit"}])]

FeeRateSettings == Screen(
  [axes |-> {"editing"}, drafts |-> [form |-> Of("editing")],
   loads |-> [fees |-> Load(<<>>), rates |-> Load(<<>>)],
   acts |-> ExchangeRatesPanel(Writing("refreshingRates") @@ [changes |-> {"rates"}, reload |-> {"rates"}, awaits |-> TRUE])
     @@ ProfitCalculatorPanel(Asking("calcLoading"))
     @@ FeeRateTable([of |-> "editing", call |-> "write", sends |-> {"form"}, changes |-> {"fees"}, reload |-> {"fees"},
                      okClears |-> {"edit"}])])

SeedTable(onDelete) ==
  [page |-> Choose("filter"),
   delete   |-> Act(onDelete @@ [row |-> TRUE, shows |-> {"seeds"}, unless |-> {"loading"}])]

\* The counters of all seeds are loaded apart from the page that is shown; a
\* seed that is added reloads the page alone.  Discovery reloads even after a
\* failure; a reset is like it but for that.
SeedManagerTab ==
  LET both == [call |-> "write", changes |-> {"seeds", "stats"}, reload |-> {"seeds", "stats"}]
  IN Screen(
  [axes |-> {"filter"}, drafts |-> [addForm |-> Free],
   loads |-> [seeds |-> Load([by |-> "filter", busy |-> {"loading"}, blanked |-> TRUE]), stats |-> Load(<<>>)],
   acts |-> [type |-> Edit("addForm"),
     add      |-> Act([both EXCEPT !.reload = {"seeds"}] @@
                      [typed |-> {"addForm"}, sends |-> {"addForm"}, okDrops |-> {"addForm"}]),
     discover |-> Act(both @@ [unless |-> {"discovering"}, busy |-> {"discovering"}, always |-> TRUE])]
     @@ SeedTable(both)])

-----------------------------------------------------------------------------
(* System tasks, platforms, audit *)

\* running holds one id: starting a second task enables the button of the first.
SystemTasksSettings == Screen(
  [axes |-> {"editing"}, drafts |-> [interval |-> Of("editing")],
   loads |-> [tasks |-> Load([busy |-> {"loading"}])],
   acts |-> [refresh |-> Act([unless |-> {"loading"}, reload |-> {"tasks"}]),
     trigger   |-> SavingAwaited("tasks", [row |-> TRUE, shows |-> {"tasks"}, unlessMe |-> {"running"}, busyMe |-> {"running"}]),
     toggle    |-> SavingAwaited("tasks", [row |-> TRUE, shows |-> {"tasks"}]),
     startEdit |-> Act([row |-> TRUE, shows |-> {"tasks"}, moves |-> {"editing"}, drops |-> {"interval"}]),
     type      |-> Edit("interval"),
     updateTrigger |-> SavingAwaited("tasks", [of |-> "editing", typed |-> {"interval"}, sends |-> {"interval"},
                                               okDrops |-> {"interval"}])]])

useCreatePlatform ==
  Writing("creating") @@ [changes |-> {"platforms", "platform-statuses"}, expires |-> {"platforms", "platform-statuses"}]
useUpdatePlatformAuthorization ==
  Writing("authorizing") @@ [changes |-> {"platforms", "platform-statuses"}, expires |-> {"platforms", "platform-statuses"}]
useDeletePlatform ==
  Writing("deleting") @@ [changes |-> {"platforms", "platform-statuses"}, expires |-> {"platforms", "platform-statuses"}]

\* One pending flag of the sync mutation disables the buttons of all stores.
PlatformAccountGrid(onSyncAccount, onDeletePlatform) ==
  [syncAccount    |-> Act(onSyncAccount @@ [row |-> TRUE, shows |-> {"platforms"}, unless |-> {"syncing"}]),
   deletePlatform |-> Act(onDeletePlatform @@ [row |-> TRUE, shows |-> {"platforms"}]),
   openAuthorization |-> Act([row |-> TRUE, shows |-> {"platforms"}, moves |-> {"account"}, drops |-> {"authForm"}])]

\* The log below is loaded again when the number of accounts changes, not after a sync.
PlatformSettingsPage == Screen(
  [axes |-> {"account"}, drafts |-> [form |-> Free, authForm |-> Of("account")],
   loads |-> [platforms |-> Query([data |-> {"platforms"}]), logs |-> Load([data |-> {"sync-logs"}])],
   acts |-> [type |-> Edit("form"), typeAuth |-> Edit("authForm"),
     connect   |-> Act(useCreatePlatform @@ [typed |-> {"form"}, unless |-> {"creating"}, sends |-> {"form"}, okDrops |-> {"form"}]),
     authorize |-> Act(useUpdatePlatformAuthorization @@
        [of |-> "account", typed |-> {"authForm"}, unless |-> {"authorizing"}, sends |-> {"authForm"}, okDrops |-> {"authForm"}])]
     @@ PlatformAccountGrid(Writing("syncing") @@ [changes |-> {"sync-logs"}], useDeletePlatform)])

AuditLogTab == Screen(
  [axes |-> {"filter"}, loads |-> [logs |-> Query([by |-> "filter"])],
   acts |-> [filter |-> Choose("filter"), retry |-> Reload({"logs"})]])
=============================================================================
