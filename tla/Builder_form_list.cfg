SPECIFICATION BuilderSpec
CONSTANTS
    Name <- AnyName
    Entry <- BuilderEntries
    Nesting = 2
    FieldPlugins <- BuilderPlugins
    AuthKeys <- BuilderAuthKeys
    Seeds <- BuilderSeeds
    OfferedOps <- Operations
    OfferedSteps <- Steps
    OfferedEntries <- Entries
    OfferedAuth <- Auths
    Configs <- BuilderConfigs
    MaxEdits = 2
CHECK_DEADLOCK FALSE
INVARIANT RenderFailuresAreHandled
