CONSTANTS
    AppOrder <- TwoApps
    Slots = {1, 2}
    PortsOf <- CatalogPorts
    HostPorts = {3}
    Sessions <- Tasks
SPECIFICATION Spec
INVARIANTS
    TypeOK
    Consent
    RequestsKeepTheirApp
PROPERTIES
    DeletesOnlyTyped
    CommandsEnd
CHECK_DEADLOCK FALSE
