---------------------------- MODULE FlowScreens ----------------------------
(***************************************************************************)
(* The command centres: dashboard, cockpit, business flow, risks, operating *)
(* records, listing templates and the choice of products.  Most of them    *)
(* fill a useState from an effect, with no query cache between.            *)
(***************************************************************************)
EXTENDS ScreenVocabulary

-----------------------------------------------------------------------------
(* Dashboard and cockpit *)

DashboardOperationalOverview(onLoadBlueOcean) == [market |-> Act(onLoadBlueOcean)]

\* Blue oceans are loaded for the market that is clicked; no button waits for the answer.
DashboardPage ==
  LET suggesting == [call |-> "write", changes |-> {"suggestions"}, expires |-> {"suggestions"}]
  IN Screen(
  [axes |-> {"market"},
   loads |-> [suggestions |-> Query(<<>>),
              blueOcean |-> Load([asked |-> TRUE, by |-> "market", busy |-> {"blueOceanLoading"}])],
   acts |-> DashboardOperationalOverview([row |-> TRUE, moves |-> {"market"}, reload |-> {"blueOcean"}])
     @@ [runAnalysis |-> Act(suggesting @@ [unless |-> {"running"}, busy |-> {"running"}]),
         markApplied |-> Act(suggesting @@ [row |-> TRUE, shows |-> {"suggestions"}])]])

\* The filter being edited follows the one applied.
CockpitScopeFilters(onApply) ==
  [edit     |-> Edit("filter"),
   apply    |-> Act(onApply @@ [typed |-> {"filter"}, sends |-> {"filter"}]),
   shortcut |-> Act(onApply)]

CockpitSidebar(onRefresh) == [refresh |-> Act(onRefresh)]

CockpitWorkspace == Screen(
  [axes |-> {"filters"}, drafts |-> [filter |-> Following("filters")],
   loads |-> [data |-> Load([by |-> "filters", busy |-> {"loading"}])],
   acts |-> CockpitScopeFilters([unless |-> {"loading"}, moves |-> {"filters"}])
     @@ CockpitSidebar([unless |-> {"loading"}, reload |-> {"data"}])])

-----------------------------------------------------------------------------
(* Business flow *)

\* Three of the unassigned items, each with the button that opens it.
UnassignedItemsPanel(onAssign) == [assignFirstUnassignedToMe |-> Act(onAssign @@ [unless |-> {"assigning"}])]

BusinessFlowCommandBoard(onReload) ==
  UnassignedItemsPanel(Writing("assigning") @@ onReload @@ [changes |-> {"flow"}, shows |-> {"flow"}])

BulkToolbar(onAction) == [bulkAction |-> Act(onAction @@ [unless |-> {"saving"}])]

FlowTable(onToggle, onPick) == [tick |-> Act(onToggle @@ [shows |-> {"flow"}]), pick |-> Act(onPick)]
FlowStageSwimlanes(onPick) == [pickInLane |-> Act(onPick)]

\* The rows ticked are a draft: they are what the bulk action sends.
BusinessFlowV2Board(onReload) ==
  LET onPick == [row |-> TRUE, shows |-> {"flow"}, moves |-> {"item"}]
  IN [reload |-> Act([reload |-> {"flow"}])]
     @@ FlowStageSwimlanes(onPick) @@ FlowTable([edits |-> {"selectedKeys"}], onPick)
     @@ BulkToolbar(Writing("saving") @@ onReload @@
          [typed |-> {"selectedKeys"}, sends |-> {"selectedKeys"}, okDrops |-> {"selectedKeys"}, changes |-> {"flow"}])

\* The rail stays while its item changes, with what was typed about the last one.
BusinessFlowContextRail(onReload) ==
  LET about == Writing("savingRail") @@ [of |-> "item", unless |-> {"savingRail"}, typed |-> {"comment"}, sends |-> {"comment"},
                                         okDrops |-> {"comment"}, awaits |-> TRUE]
  IN [type           |-> Edit("comment"),
      submitComment  |-> Act(about @@ [changes |-> {"events"}, reload |-> {"events"}]),
      completeReview |-> Act(about @@ [changes |-> {"events", "flow"}, reload |-> {"events"} \union onReload.reload])]

BusinessFlowWorkspace ==
  LET onReload == [reload |-> {"flow"}, awaits |-> TRUE]
  IN Screen(
  [axes |-> {"item"}, drafts |-> [selectedKeys |-> Free],
   loads |-> [flow |-> Load([busy |-> {"loading"}])],
   acts |-> [refresh |-> Act([unless |-> {"loading"}, reload |-> {"flow"}])]
     @@ BusinessFlowCommandBoard(onReload)
     @@ BusinessFlowV2Board(onReload)])

\* The same page, seen from its rail.
BusinessFlowRail ==
  LET onReload == [reload |-> {"flow"}, awaits |-> TRUE]
  IN Screen(
  [axes |-> {"item"}, drafts |-> [comment |-> Of("item")],
   loads |-> [flow |-> Load(<<>>), events |-> Load([by |-> "item", blanked |-> TRUE])],
   acts |-> [pick |-> Choose("item")] @@ BusinessFlowContextRail(onReload)])

-----------------------------------------------------------------------------
(* Risks *)

RiskDateRangeFilter(onApply) == [range |-> Act(onApply @@ [unless |-> {"loading"}])]

\* The note is filled again when the risk changes, or its saved note.
RiskActionPanel(onStateChange) ==
  [typeNote    |-> Edit("note"),
   changeState |-> Act(onStateChange @@ [unless |-> {"saving"}, sends |-> {"note"}])]

RiskControlMainPanels(onSelect, onReload) ==
  [select |-> Act(onSelect @@ [row |-> TRUE, shows |-> {"overview"}]),
   reload |-> Act(onReload @@ [unless |-> {"loading"}])]

\* A list that comes back may hold a newer note than the one being typed.  The
\* buttons that make a task or a record of the risk leave the page.
RiskControlWorkspace == Screen(
  [axes |-> {"risk", "range"}, drafts |-> [note |-> Following("risk")],
   loads |-> [overview |-> Load([by |-> "range", busy |-> {"loading"}, may |-> {"note"}]),
              audit    |-> Load([by |-> "risk", blanked |-> TRUE])],
   acts |-> RiskDateRangeFilter([moves |-> {"range"}])
     @@ RiskActionPanel(Writing("saving") @@ [of |-> "risk", shows |-> {"overview"}, changes |-> {"overview", "audit"}, okBack |-> {"risk"},
                                              reload |-> {"overview", "audit"}, awaits |-> TRUE])
     @@ RiskControlMainPanels([moves |-> {"risk"}], [reload |-> {"overview"}])])

-----------------------------------------------------------------------------
(* Records and templates *)

\* A record that is removed is taken out of the list in hand.
OperationsWorkspace == Screen(
  [axes |-> {"type", "editing"}, drafts |-> [form |-> Of("editing")],
   loads |-> [records |-> Load([by |-> "type"])],
   acts |-> [type |-> Choose("type"), refresh |-> Reload({"records"}), typeForm |-> Edit("form"),
     startEdit |-> Act([row |-> TRUE, shows |-> {"records"}, moves |-> {"editing"}, drops |-> {"form"}]),
     save   |-> Act(Writing("saving") @@ [unless |-> {"saving"}, typed |-> {"form"}, of |-> "editing", sends |-> {"form"}, changes |-> {"records"},
                    okDrops |-> {"form"}, reload |-> {"records"}, awaits |-> TRUE]),
     remove |-> Act([row |-> TRUE, shows |-> {"records"}, call |-> "write", changes |-> {"records"}, patches |-> {"records"}])]])

\* The dialog can be closed, and another template opened, while one is saved.
ListingTemplatesWorkspace ==
  LET written == [call |-> "write", changes |-> {"templates"}, reload |-> {"templates"}, awaits |-> TRUE]
  IN Screen(
  [axes |-> {"editing"}, drafts |-> [form |-> Of("editing")],
   loads |-> [templates |-> Load([busy |-> {"loading"}])],
   acts |-> [refresh |-> Act([unless |-> {"loading"}, reload |-> {"templates"}]),
     startEdit |-> Act([row |-> TRUE, shows |-> {"templates"}, moves |-> {"editing"}, drops |-> {"form"}, sets |-> {"open"}]),
     close     |-> Act([need |-> {"open"}, clears |-> {"open"}, drops |-> {"form"}]),
     typeForm  |-> Act([need |-> {"open"}, edits |-> {"form"}]),
     save      |-> Act(written @@ [need |-> {"open"}, unless |-> {"saving"}, busy |-> {"saving"}, of |-> "editing", typed |-> {"form"},
                       sends |-> {"form"}, okClears |-> {"open"}]),
     remove    |-> Act(written @@ [row |-> TRUE, shows |-> {"templates"}])]])

-----------------------------------------------------------------------------
(* The choice of products *)

CandidateDecisionPoolPanel(onMarketChange, onSelectCandidate) ==
  [market          |-> Act(onMarketChange),
   selectCandidate |-> Act(onSelectCandidate @@ [row |-> TRUE, shows |-> {"candidates"}])]

DecisionScoreGrid(onScoreChange) == [score |-> Act(onScoreChange)]

CandidateDecisionAnalysisPanel(onScoreChange, onDecide) ==
  DecisionScoreGrid(onScoreChange)
  @@ [decide |-> Act(onDecide @@ [unless |-> {"loading"}, typed |-> {"scores"}, shows |-> {"candidates"}])]

\* What follows a decision is offered for the candidate selected now.
CandidateDecisionDownstreamPanel(result) ==
  [openContent |-> Act([typed |-> result])]

\* The candidates of another market replace the selection, not its scores.
CandidateDecisionWorkbench == Screen(
  [axes |-> {"market", "candidate"}, drafts |-> [scores |-> Of("candidate"), result |-> Of("candidate")],
   loads |-> [candidates |-> Load([by |-> "market", keyed |-> TRUE, picks |-> {"candidate"}])],
   acts |-> CandidateDecisionPoolPanel([row |-> TRUE, moves |-> {"market"}],
                                       [moves |-> {"candidate"}, drops |-> {"scores", "result"}])
     @@ CandidateDecisionAnalysisPanel([edits |-> {"scores"}],
          Asking("loading") @@ [of |-> "candidate", lands |-> {"result"}])
     @@ CandidateDecisionDownstreamPanel({"result"})])

useSavedResearch    == Query([data |-> {"saved-research"}])
useSaveResearch     == Writing("saving") @@ [changes |-> {"saved-research"}, expires |-> {"saved-research"}]
useDeleteResearch   == Writing("removing") @@ [changes |-> {"saved-research"}, expires |-> {"saved-research"}]
useKeywordSearch    == Query([data |-> {"keyword-search"}, by |-> "keyword", needs |-> {"searched"}])

SavedResearchTab == Screen(
  [axes |-> {"keyword"},
   loads |-> [saved |-> useSavedResearch, results |-> useKeywordSearch],
   acts |-> [search |-> Act([row |-> TRUE, moves |-> {"keyword"}, sets |-> {"searched"}]),
     save   |-> Act(useSaveResearch @@ [of |-> "keyword", shows |-> {"results"}, unless |-> {"saving"}]),
     remove |-> Act(useDeleteResearch @@ [row |-> TRUE, shows |-> {"saved"}])]])

useCompetitors           == Query([data |-> {"competitors"}])
useAddResearchCompetitor == Writing("adding") @@ [changes |-> {"competitors"}, expires |-> {"competitors"}]

\* The form is emptied at the click: a failure does not bring it back.
CompetitorsTab == Screen(
  [drafts |-> [form |-> Free],
   loads |-> [competitors |-> useCompetitors],
   acts |-> [type |-> Edit("form"),
     add |-> Act(useAddResearchCompetitor @@ [typed |-> {"form"}, drops |-> {"form"}])]])

ProfitabilityTab == Screen(
  [drafts |-> [inputs |-> Free],
   acts |-> [type |-> Edit("inputs"),
     calculate |-> Act(Asking("loading") @@ [typed |-> {"inputs"}, unless |-> {"loading"}])]])
=============================================================================
