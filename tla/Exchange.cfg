SPECIFICATION RecordsSpec
CONSTANTS
    Unparsable = Unparsable
    Processes = {p1, p2}
    Contents <- AllContents
    Committed <- AllCommitted
    JobSets <- AllJobSets
    MaxEdits = 1
    Characters <- AllCharacters
    Documents <- AllDocuments
    Exchanges <- AllExchanges
INVARIANTS
    QuietPairIsWhole
    RunPublishesSources
    VerdictIsEarned
    ReadsBack
    OneSerialization
    RefusalIsExact
    EncodedIsUnderstood
    OneMeaningOneEncoding
    ContentIsOfTheRun
    BinsAreFrequencies
    IdentityIsOfOneRequest
CHECK_DEADLOCK FALSE
