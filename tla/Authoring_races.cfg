SPECIFICATION AuthoringSpec
CONSTANTS
    q1 = q1
    q2 = q2
    q3 = q3
    b1 = b1
    k1 = k1
    k2 = k2
    Request = {q1, q2, q3}
    Blocker = {b1}
    Key = {k1, k2}
    Drafted = 3
    MaxVersion = 4
    MaxDead = 1
    Name <- AnyName
    Entry <- BuilderEntries
    Nesting = 2
    FieldPlugins <- BuilderPlugins
    AuthKeys <- BuilderAuthKeys
    Seeds <- BuilderSeeds
    OfferedOps <- Operations
    OfferedSteps <- Steps
    OfferedEntries <- Entries
    OfferedAuth <- Auths
    Configs <- BuilderConfigs
    MaxEdits = 2
    Geography <- AuthoringGeography
    LiveServices <- RulesSeeds
    NewServices <- RulesNew
    Changes <- RulesChanges
    Orders <- AuthoringOrders
    MaxRuleEdits = 2
SYMMETRY SymmetricCallers
CHECK_DEADLOCK FALSE
INVARIANTS NumbersDistinct AlwaysLive BlockedPublishIsRaced ResolutionStands NoSettingLost MarksAreUndrafted CrashesAreLocated RendersWhatItAccepts GatedOrdersRender SelectionIsRepeatable CheckoutIsOptimistic
PROPERTY PublishedBecomesLive
