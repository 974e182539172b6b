CONSTANTS
    admin = admin
    alice = alice
    cfAuto = cfAuto
    k8s = k8s
    other = other
    Unregistered = Unregistered
    SystemSharedUserGuid = SystemSharedUserGuid
    Users <- MCUsers
    Admins <- MCAdmins
    Endpoints <- MCEndpoints
    CNSIType <- MCCNSIType
    PluginTypes <- MCPluginTypes
    AutoRegURL <- MCAutoRegURL
    SameUAA <- MCSameUAA
    Requests = {r1}
    MaxTokens = 3
    StoreFaults = FALSE

SPECIFICATION Spec
VIEW MCView
PROPERTY RollbackLeavesNoToken
