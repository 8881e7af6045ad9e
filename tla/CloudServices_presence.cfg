\* Two accounts with a service each, two sessions of one client, two NOTIFYs.
SPECIFICATION Spec
CONSTANTS
    Standard = {"properties"}
    AgentInterface = "agent"
    Accounts <- AccountsDef
    StartsWith <- StartsWithDef
    Services = {"s"}
    Descriptions <- DescriptionsDef
    Sessions = {1, 2}
    Joiners = {"j"}
    NoService = NoService
    EveryService = EveryService
    Bodies <- BodiesDef
    MaxNotifies = 2
INVARIANTS TypeOK AgentsFollowPresence OffersDescription SessionHasHandler StaleHandlerHasCause
PROPERTIES PresenceIsActedUpon
CHECK_DEADLOCK FALSE
