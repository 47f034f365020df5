CONSTANTS
    Domains <- MCDomains
    Names <- MCDomains
    Under <- MCUnder
    Sources = {list}
    Texts <- MCText
    NoText = NoText
    Baseline = 1
    Threshold = 50
    TrustAllow = FALSE
    ConfigBlock = {}
    ConfigAllow = {}
    Editable = {"tracker"}
    Loaders = {maintenance}
    Editors = {dashboard}
    MaxEdits = 1
    MaxChanges = 2
    Groups <- MCGroups
    DefaultGroup = "adults"
    Exact <- MCExact
    ByMac <- MCByMac
    ByHostname <- MCByHostname
    Networks <- MCNetworks
    NoHint = NoHint
    NoName = "noName"
    DayLength = 4
    Essential = {"clock"}
    Profiles = {}
    CompatExtra = {}
    Queries = {worker}
    Addresses = {"lan"}
    Hints <- MCHints
    Moments <- MCMoments
    Answers <- MCAnswers
    NoAnswer = NoAnswer
    LocalNames = {}
    RebindAllow = {}
SPECIFICATION Spec
INVARIANTS LocalRulesInForce BlockedNeverAnswered TrackerUncloaked EssentialNeverBlocked
 
