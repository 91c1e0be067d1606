----------------------------- MODULE MCScreens -----------------------------
EXTENDS ScreenShapes, ContentScreens, FinanceScreens, FlowScreens, MonitorScreens, OrderScreens, ProductScreens, PublishScreens, SettingsScreens, ShellScreens, TrendScreens

AllScreens ==
  [ContentPlannerPage |-> ContentPlannerPage,
   ContentImageEditor |-> ContentImageEditor,
   ContentMediaStudio |-> ContentMediaStudio]
  @@
  [FinancePage |-> FinancePage,
   FinanceLedgerPanel |-> FinanceLedgerPanel,
   SmartPricingPage |-> SmartPricingPage,
   PromotionsPage |-> PromotionsPage,
   GrowthEnginePage |-> GrowthEnginePage,
   SmartRadarPage |-> SmartRadarPage,
   CrossValidationPage |-> CrossValidationPage]
  @@
  [DashboardPage |-> DashboardPage,
   CockpitWorkspace |-> CockpitWorkspace,
   BusinessFlowWorkspace |-> BusinessFlowWorkspace,
   BusinessFlowRail |-> BusinessFlowRail,
   RiskControlWorkspace |-> RiskControlWorkspace,
   OperationsWorkspace |-> OperationsWorkspace,
   ListingTemplatesWorkspace |-> ListingTemplatesWorkspace,
   CandidateDecisionWorkbench |-> CandidateDecisionWorkbench,
   SavedResearchTab |-> SavedResearchTab,
   CompetitorsTab |-> CompetitorsTab,
   ProfitabilityTab |-> ProfitabilityTab]
  @@
  [CompetitorMonitorPage |-> CompetitorMonitorPage,
   AISuggestionsPage |-> AISuggestionsPage,
   NotificationsPage |-> NotificationsPage,
   NotificationBell |-> NotificationBell,
   RulesTab |-> RulesTab,
   InventoryAlertPage |-> InventoryAlertPage,
   InventoryRiskWorkbench |-> InventoryRiskWorkbench,
   SubscriptionsTab |-> SubscriptionsTab,
   ReportsPage |-> ReportsPage]
  @@
  [OrderListPage |-> OrderListPage,
   OrderDetailPage |-> OrderDetailPage,
   ShipmentListPage |-> ShipmentListPage,
   ShipmentDetailPage |-> ShipmentDetailPage,
   WarehousePage |-> WarehousePage]
  @@
  [ProductListPage |-> ProductListPage,
   ProductEditPage |-> ProductEditPage,
   ListingsPanel |-> ListingsPanel,
   PlatformStoreProductsPanel |-> PlatformStoreProductsPanel]
  @@
  [BatchPublishPage |-> BatchPublishPage]
  @@
  [ProfileSettings |-> ProfileSettings,
   AccessControlSettings |-> AccessControlSettings,
   AccessDirectorySettings |-> AccessDirectorySettings,
   AIProviderSettings |-> AIProviderSettings,
   BillingSettings |-> BillingSettings,
   ConfigQualitySettings |-> ConfigQualitySettings,
   ApiKeySettings |-> ApiKeySettings,
   WarehouseSettings |-> WarehouseSettings,
   DictSettingsCRUD |-> DictSettingsCRUD,
   FieldDictionarySettings |-> FieldDictionarySettings,
   PlatformFieldGroupGovernance |-> PlatformFieldGroupGovernance,
   FeeRateSettings |-> FeeRateSettings,
   SeedManagerTab |-> SeedManagerTab,
   SystemTasksSettings |-> SystemTasksSettings,
   PlatformSettingsPage |-> PlatformSettingsPage,
   AuditLogTab |-> AuditLogTab]
  @@
  [LoginPage |-> LoginPage,
   RegisterPage |-> RegisterPage,
   Header |-> Header,
   PopupSignedIn |-> PopupSignedIn,
   PopupSignedOut |-> PopupSignedOut,
   contextMenus |-> contextMenus]
  @@
  [RecommendationEvidencePanel |-> RecommendationEvidencePanel,
   RecommenderReadinessPanel |-> RecommenderReadinessPanel,
   RecommenderTab |-> RecommenderTab,
   UploadTab |-> UploadTab,
   OldTrendsTab |-> OldTrendsTab,
   TrendingTab |-> TrendingTab,
   TrendsTab |-> TrendsTab,
   CrossValidationColumn |-> CrossValidationColumn,
   PipelineTab |-> PipelineTab,
   PipelineCostPanel |-> PipelineCostPanel,
   PipelineSupplierPanel |-> PipelineSupplierPanel,
   SupplyProductsPanel |-> SupplyProductsPanel,
   TrendingProductsPanel |-> TrendingProductsPanel,
   ScoutSourceCards |-> ScoutSourceCards,
   ScoutSourcesPage |-> ScoutSourcesPage,
   SignalFunnelOverview |-> SignalFunnelOverview]

\* Read once: TLC keeps the value of a constant, and a LET is not opened for its statistics.
MCTable == LET table == AllScreens IN table
MCIds == 1..2

(* Where the screens fall short today. *)
MCKnown ==
  [ \* Handlers whose dialog is closed and opened again, or whose flag another call clears, while the call is out.
   twice |->
    [BatchPublishPage |-> {"runAssist"}, CompetitorMonitorPage |-> {"add", "setRule"},
      ContentImageEditor |-> {"saveCurrentSlotPlan", "uploadSlotImage"},
      ContentPlannerPage |-> {"saveMaster", "saveStoreOverride"},
      GrowthEnginePage |-> {"createOperationAction"}, RulesTab |-> {"create"},
      ScoutSourcesPage |-> {"add"}, SupplyProductsPanel |-> {"addToDiscovery"},
      SystemTasksSettings |-> {"trigger"},
      TrendingProductsPanel |-> {"addFromDetail", "addToSourcing"}, UploadTab |-> {"upload"}],
   \* Loads and handlers whose answer refills or empties a form the user may be typing in.
   lost |->
    [AccessControlSettings |-> {"matrix"}, ApiKeySettings |-> {"openPin", "save", "savePin"},
      BatchPublishPage |-> {"loadPreview", "products", "runAssist"},
      BusinessFlowRail |-> {"completeReview", "submitComment"},
      BusinessFlowWorkspace |-> {"bulkAction"}, CompetitorMonitorPage |-> {"add"},
      ContentImageEditor |-> {"assets", "saveCurrentSlotPlan", "savedSlotPlan", "selectedProduct"},
      ContentPlannerPage |-> {"selectedProduct"}, DictSettingsCRUD |-> {"add"},
      FieldDictionarySettings |-> {"versions"}, FinanceLedgerPanel |-> {"create"},
      FinancePage |-> {"importBills"},
      ListingsPanel |-> {"promoteBaseVersion", "saveStoreOverride"},
      OldTrendsTab |-> {"addKeyword"}, OperationsWorkspace |-> {"save"},
      OrderDetailPage |-> {"order"}, PipelineCostPanel |-> {"submitPurchase"},
      PipelineSupplierPanel |-> {"submitSupplier"}, PlatformFieldGroupGovernance |-> {"schema"},
      PlatformSettingsPage |-> {"authorize", "connect"}, PopupSignedIn |-> {"doCollect", "page"},
      PopupSignedOut |-> {"doCollect", "page"}, ProductEditPage |-> {"product", "upload"},
      ProductListPage |-> {"products"}, ProfileSettings |-> {"create", "password", "update"},
      PromotionsPage |-> {"addItems", "create", "update"},
      RiskControlWorkspace |-> {"changeState", "overview"}, RulesTab |-> {"create"},
      ScoutSourceCards |-> {"handleCapture"}, ScoutSourcesPage |-> {"manualAdd"},
      SeedManagerTab |-> {"add"}, ShipmentDetailPage |-> {"shipment"},
      SystemTasksSettings |-> {"updateTrigger"}, TrendingTab |-> {"add"},
      WarehousePage |-> {"save"}, WarehouseSettings |-> {"add"}],
   \* Handlers whose call or answer carries a draft over to an object selected since.
   stray |->
    [BatchPublishPage |-> {"publishDrafts", "runAssist"},
      BusinessFlowRail |-> {"completeReview", "submitComment"},
      CandidateDecisionWorkbench |-> {"decide"}, OrderDetailPage |-> {"saveNotes"},
      PipelineSupplierPanel |-> {"submitSupplier"}, ProductEditPage |-> {"update", "upload"},
      RecommenderTab |-> {"analyze"}, RiskControlWorkspace |-> {"changeState"},
      ScoutSourceCards |-> {"handleCapture"}, SmartPricingPage |-> {"confirmPrice", "recommend"},
      UploadTab |-> {"thumbnail", "upload"}],
   \* Loads that keep whichever answer comes last, also for an object or a moment gone by.
   late |->
    [AccessControlSettings |-> {"matrix"}, ApiKeySettings |-> {"configs"},
      BillingSettings |-> {"plans"}, BusinessFlowRail |-> {"events", "flow"},
      BusinessFlowWorkspace |-> {"flow"}, ContentImageEditor |-> {"selectedProduct"},
      ContentMediaStudio |-> {"assets", "savedSlotPlan"},
      ContentPlannerPage |-> {"selectedProduct"}, DashboardPage |-> {"blueOcean"},
      DictSettingsCRUD |-> {"dicts"}, FeeRateSettings |-> {"fees", "rates"},
      FieldDictionarySettings |-> {"versions"}, FinanceLedgerPanel |-> {"ledger"},
      ListingTemplatesWorkspace |-> {"templates"}, OldTrendsTab |-> {"trends"},
      OperationsWorkspace |-> {"records"}, PipelineCostPanel |-> {"items"},
      PipelineTab |-> {"items"}, PlatformFieldGroupGovernance |-> {"schema"},
      ProfileSettings |-> {"users"}, RiskControlWorkspace |-> {"audit", "overview"},
      ScoutSourcesPage |-> {"keywords"}, SeedManagerTab |-> {"seeds", "stats"},
      SupplyProductsPanel |-> {"products"}, SystemTasksSettings |-> {"tasks"},
      TrendingProductsPanel |-> {"products"}, TrendingTab |-> {"products"},
      UploadTab |-> {"pending"}, WarehousePage |-> {"warehouses"}, WarehouseSettings |-> {"whs"}],
   \* Loads whose failure leaves the rows of the object selected before.
   keeps |->
    [CockpitWorkspace |-> {"data"}, DashboardPage |-> {"blueOcean"},
      FinanceLedgerPanel |-> {"ledger"}, OldTrendsTab |-> {"trends"},
      OperationsWorkspace |-> {"records"}, PipelineTab |-> {"items"},
      RiskControlWorkspace |-> {"overview"}, ScoutSourcesPage |-> {"keywords"}],
   \* Writes after which something the screen shows is not read again.
   stale |->
    [AIProviderSettings |-> {"toggle"}, AccessControlSettings |-> {"save"},
      ContentImageEditor |-> {"saveCurrentSlotPlan", "uploadSlotImage"},
      ContentMediaStudio |-> {"remove"}, ContentPlannerPage |-> {"saveMaster", "saveStoreOverride"},
      GrowthEnginePage |-> {"createOperationAction"}, ListingsPanel |-> {"saveStoreOverride"},
      OperationsWorkspace |-> {"remove"}, OrderDetailPage |-> {"saveNotes", "setStatus"},
      OrderListPage |-> {"submit"}, PlatformSettingsPage |-> {"syncAccount"},
      PlatformStoreProductsPanel |-> {"sync"}, ProductEditPage |-> {"update"},
      PromotionsPage |-> {"addItems", "create", "endCampaign", "update"},
      ScoutSourcesPage |-> {"add", "manualAdd"}, SeedManagerTab |-> {"add"},
      ShipmentDetailPage |-> {"update"}, SupplyProductsPanel |-> {"addToDiscovery"},
      UploadTab |-> {"confirm", "deleteImage"}]]
=============================================================================
