--------------------------- MODULE MonitorScreens ---------------------------
(***************************************************************************)
(* What the shop is told: competitors, suggestions, notifications, stock   *)
(* alerts and reports.  All of it lives in query caches: a mutation        *)
(* invalidates the queries its hook names, and nothing else.               *)
(***************************************************************************)
EXTENDS ScreenVocabulary

-----------------------------------------------------------------------------
(* Competitors *)

useMonitorDashboard == Query([data |-> {"monitor-dashboard"}])
useAddCompetitor    == Mutation("adding", {"monitor-dashboard"})
useRemoveCompetitor == Mutation("removing", {"monitor-dashboard"})
useSetAlertRule     == Mutation("setting", {"monitor-dashboard"})

\* The dialogs hold their own mutation: closed, they hear no answer.
AddCompetitorModal(onClose) ==
  [typeCompetitor |-> Act([need |-> onClose, edits |-> {"form"}]),
   closeAdd |-> Act([need |-> onClose, clears |-> onClose, drops |-> {"form"}]),
   add      |-> Act(useAddCompetitor @@ [home |-> "showAdd", need |-> onClose, typed |-> {"form"},
                    unless |-> {"adding"}, sends |-> {"form"}, okClears |-> onClose, okDrops |-> {"form"}])]

AlertRuleModal(onClose) ==
  [closeAlert |-> Act([need |-> onClose, clears |-> onClose]),
   setRule    |-> Act(useSetAlertRule @@ [home |-> "showAlert", of |-> "alert", need |-> onClose,
                      unless |-> {"setting"}, okClears |-> onClose])]

CompetitorActions(onSetAlert) ==
  [setAlert |-> Act(onSetAlert @@ [row |-> TRUE, shows |-> {"dashboard"}]),
   remove   |-> Act(useRemoveCompetitor @@ [row |-> TRUE, shows |-> {"dashboard"}])]

CompetitorMonitorPage == Screen(
  [axes |-> {"alert"}, drafts |-> [form |-> Free],
   loads |-> [dashboard |-> useMonitorDashboard],
   acts |-> [openAdd |-> Open("showAdd")]
     @@ CompetitorActions([moves |-> {"alert"}, sets |-> {"showAlert"}, unless |-> {"showAlert"}])
     @@ AddCompetitorModal({"showAdd"}) @@ AlertRuleModal({"showAlert"})])

-----------------------------------------------------------------------------
(* Suggestions and notifications *)

useSuggestions       == Query([data |-> {"ai-suggestions"}, by |-> "severity"])
useMarkApplied       == Mutation("applying", {"ai-suggestions"})
useDismissSuggestion == Mutation("dismissing", {"ai-suggestions"})
useRunAnalysis       == Mutation("running", {"ai-suggestions"})
useMarkRead(ds)      == Mutation("reading", ds)

AISuggestionsPage ==
  LET perRow(mutation) == Act(mutation @@ [row |-> TRUE, shows |-> {"suggestions"}])
  IN Screen(
  [axes |-> {"severity"},
   loads |-> [suggestions |-> useSuggestions],
   acts |-> [severity |-> Choose("severity"), retry |-> Reload({"suggestions"}),
     run     |-> Act(useRunAnalysis @@ [unless |-> {"running"}]),
     read    |-> perRow(useMarkRead({"ai-suggestions"})),
     applied |-> perRow(useMarkApplied),
     dismiss |-> perRow(useDismissSuggestion)]])

useNotifications == Query([data |-> {"notifications"}])
useMarkAllRead   == Mutation("readingAll", {"notifications"})
useCheckAlerts   == Mutation("checking", {"notifications"})

\* A message on the socket carries no notification: it only expires the query.
useRealtimeNotifications(messages) == [messages EXCEPT !.polls = TRUE]

NotificationsPage == Screen(
  [loads |-> [notifications |-> useRealtimeNotifications(useNotifications)],
   acts |-> [click |-> Act(useMarkRead({"notifications"}) @@ [row |-> TRUE, shows |-> {"notifications"}]),
     readAll |-> Act(useMarkAllRead @@ [shows |-> {"notifications"}]),
     check   |-> Act(useCheckAlerts @@ [unless |-> {"checking"}])]])

\* The bell shows fewer notifications, under another key of the same data.
NotificationBell == Screen(
  [loads |-> [latest |-> useRealtimeNotifications(useNotifications)],
   acts |-> [handleItemClick |-> Act(useMarkRead({"notifications"}) @@ [row |-> TRUE, shows |-> {"latest"}]),
     handleMarkAll |-> Act(useMarkAllRead @@ [shows |-> {"latest"}, unless |-> {"readingAll"}])]])

-----------------------------------------------------------------------------
(* Stock alerts *)

\* What every change of an alert invalidates.
AlertData == {"inventory-alert-logs", "inventory-alert-stats", "inventory-risk-workbench"}

useAlertRules       == Query([data |-> {"inventory-alert-rules"}])
useCreateAlertRule  == Mutation("creatingRule", {"inventory-alert-rules"})
useUpdateAlertRule  == Mutation("updatingRule", {"inventory-alert-rules"})
useDeleteAlertRule  == Mutation("deletingRule", {"inventory-alert-rules"})
useCheckInventory   == Mutation("checking", AlertData)
useAlertLogs        == Query([data |-> {"inventory-alert-logs"}, by |-> "filter"])
useAcknowledgeAlert == Mutation("acknowledging", AlertData)
useClearAlert       == Mutation("clearing", AlertData)
useAlertStats       == Query([data |-> {"inventory-alert-stats"}])
useInventoryRiskWorkbench == Query([data |-> {"inventory-risk-workbench"}])
useCreateInventorySlowMovingOperationAction ==
  Mutation("creatingOperation", {"inventory-risk-workbench", "operation-records"})
useTriggerProductSync == Mutation("syncing", {"sync-status", "products", "inventory-risk-workbench"})

AddRuleModal(onClose) ==
  [typeRule |-> Act([need |-> onClose, edits |-> {"form"}]),
   closeAdd |-> Act([need |-> onClose, clears |-> onClose, drops |-> {"form"}]),
   create   |-> Act(useCreateAlertRule @@ [home |-> "showAdd", need |-> onClose, typed |-> {"form"},
                    unless |-> {"creatingRule"}, sends |-> {"form"}, okClears |-> onClose, okDrops |-> {"form"}])]

RulesTab == Screen(
  [drafts |-> [form |-> Free],
   loads |-> [rules |-> useAlertRules],
   acts |-> [openAdd |-> Open("showAdd"), retry |-> Reload({"rules"}),
     update |-> Act(useUpdateAlertRule @@ [row |-> TRUE, shows |-> {"rules"}]),
     delete |-> Act(useDeleteAlertRule @@ [row |-> TRUE, shows |-> {"rules"}])]
     @@ AddRuleModal({"showAdd"})])

HistoryTab(logs) ==
  [filter |-> Choose("filter"), retry |-> Reload({logs}),
   ack    |-> Act(useAcknowledgeAlert @@ [row |-> TRUE, shows |-> {logs}]),
   clear  |-> Act(useClearAlert @@ [row |-> TRUE, shows |-> {logs}])]

CheckInventoryButton == [check |-> Act(useCheckInventory @@ [unless |-> {"checking"}])]

InventoryAlertPage == Screen(
  [axes |-> {"filter"},
   loads |-> [logs |-> useAlertLogs, stats |-> useAlertStats],
   acts |-> HistoryTab("logs") @@ CheckInventoryButton])

SlowMovingOperationPanel(onCreateOperationAction) ==
  [createOperation |-> Act(onCreateOperationAction @@
      [row |-> TRUE, shows |-> {"workbench"}, unless |-> {"creatingOperation"}])]

InventoryRiskCommandHeader(onSyncProducts) ==
  [syncProducts |-> Act(onSyncProducts @@ [unless |-> {"syncing"}])]

InventoryRiskWorkbench == Screen(
  [loads |-> [workbench |-> useInventoryRiskWorkbench],
   acts |-> SlowMovingOperationPanel(useCreateInventorySlowMovingOperationAction)
     @@ InventoryRiskCommandHeader(useTriggerProductSync) @@ CheckInventoryButton])

-----------------------------------------------------------------------------
(* Reports *)

useSubscriptions      == Query([data |-> {"report-subscriptions"}])
useCreateSubscription == Mutation("creating", {"report-subscriptions"})
useDeleteSubscription == Mutation("removing", {"report-subscriptions"})

\* Unlike the other dialogs, this one leaves its mutation with the tab.
SubscriptionsTab == Screen(
  [loads |-> [subscriptions |-> useSubscriptions],
   acts |-> [openAdd |-> Open("showAdd"), closeAdd |-> Close("showAdd"),
     choose |-> Act([need |-> {"showAdd"}, sets |-> {"frequency"}]),
     create |-> Act(useCreateSubscription @@ [need |-> {"showAdd", "frequency"}, unless |-> {"creating"},
                                              okClears |-> {"showAdd"}]),
     remove |-> Act(useDeleteSubscription @@ [row |-> TRUE, shows |-> {"subscriptions"}]),
     retry  |-> Reload({"subscriptions"})]])

\* Daily, weekly and monthly reports differ in what the date stands for.
DailyTab == [report |-> Query([by |-> "date"])]

useDetectAnomalies == Asking("detecting")

ReportsPage == Screen(
  [axes |-> {"date"}, loads |-> DailyTab,
   acts |-> [setDate |-> Choose("date"), retry |-> Reload({"report"}),
     detect |-> Act(useDetectAnomalies @@ [unless |-> {"detecting"}])]])
=============================================================================
