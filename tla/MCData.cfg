SPECIFICATION DataSpec
CHECK_DEADLOCK FALSE
CONSTANTS
    Writers = {p1, p2}
    Calls <- MCCalls
    Vals = {"x", "y"}
    MaxEntity = 2
    Attrs = {"sku", "size"}
    Declaring <- MCDeclaring
    Types = {"root", "sub"}
    ChainOf <- MCChain
    NoType = "none"
    Rules <- MCRules
    Row0 <- MCRow0
    Def0 <- MCDef0
    MaxRow = 4
    MaxCalls = 3
    MaxRaces = 1
    MaxDefEdits = 1
    Requests = {q1, q2}
    Cells = {"c1", "c2"}
    AttrOf <- MCAttrOf
    EntityOf <- MCEntityOf
    Keys = {"k1", "k2"}
    Media0 <- MCMedia0
    Blobs0 = {"k1"}
    MaxMediaRow = 4
    MaxMediaCalls = 3
    Editors = {o1, o2}
    TypeIds = {"t1", "t2", "t3", "t4"}
    AttrIds = {"a1", "a2"}
    Names = {"x", "y"}
    NoParent = "none"
    Inputs <- MCInputs
    Attrs0 <- MCAttrs0
    Types0 <- MCTypes0
    MaxHierarchyDepth = 2
    MaxPerType = 2
    MaxEdits = 3
    Linkers = {l1, l2}
    RelDefs = {"spouse", "parts"}
    MaxPeer = 3
    MaxLink = 3
    Bounds = {1, 9}
    Unbounded = 9
    RelDef0 <- MCRelDef0
    Link0 <- MCLink0
    PageLimit = 1
    MaxLinkCalls = 3
    MaxGhosts = 1
    Parties = {d1, d2}
    Fields = {"s", "t"}
    Domain = {1, 2}
    Facts = {"vip"}
    ComputedFields = {}
    RequiredFields = {"s"}
    OneChain <- MCOneChain
    RuleIds = {1, 2}
    Rule0 <- MCRule0
    Drafts <- MCDrafts
    MaxRuleCalls = 3
    Numerals <- MCNumerals
    InputNames = {"a", "count"}
    Alphabets <- MCAlphabets
    HeldLists <- MCHeldLists
    IntWidth = 4
    DecimalScale = 2
    ComputedNames = {"x", "y", "z"}
    ValueTables <- MCValueTables
    DedupTexts <- MCNewTexts
    MatchRules <- MCMatchRules
    ScanLimit = 1
    MaxScanEntities = 3
    BudgetStep = 2
    MaxValueWrites = 1
    MaxDismissals = 1
    ViewEditors = {"e1", "e2", "e3"}
    ViewIds = {"v1", "v2"}
    FirstView = "v1"
    ViewNames = {"n1", "n2"}
INVARIANTS ValuesInv MediaInv SchemaInv LinksInv RulesInv DerivedInv
PROPERTIES   RuleInForce
