CONSTANTS
    Ids = {i1, i2}
    Answers <- SomeAnswers
    MaxAge = 3
    MimeTypes = {"png", "mp4", "image/*", "video/*"}
    Malformed = {}
    AnyType = "*/*"
    WildcardOf <- SomeWildcards
    None = None
    Users = {"u1", "u2"}
    Permissions <- SomePermissions
    Profiles <- SomeProfiles
    GrantRequests <- SomeRequests
    Assets = {"a1", "a2"}
    Pages <- SomePages
    Transports = {"http", "grpc"}
    Files <- SomeFiles
    MaxGrants = 1
SPECIFICATION WebSpec
INVARIANTS
    LinksOutliveThePage
    TeaserOnly
    SourcesFit
    DeniedAreForbidden
    AnswersTellTheirCause
    GrantsAsDecided
    UploadsFitTheProfile
CHECK_DEADLOCK FALSE
