\* Two users, two nodes, networks of two and one clients that overlap.
SPECIFICATION FairSpec
CONSTANTS
    None = None
    PublicUrl = None
    TrustProxy = TRUE
    vl = vl
    wg = wg
    User = {u1, u2}
    Node <- Nodes
    ProtocolOf <- Protocols
    Default <- Defaults
    Chosen <- Fixed
    Path <- Paths
    SeedPath = "/edge"
    Pool <- Pools
    Request <- Requests
INVARIANTS TypeOK OfferedIsServed AddressesDistinct SchemaTold LinksLeadToPanel
PROPERTIES RestartKeepsEndpoint BootSucceeds
