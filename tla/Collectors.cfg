\* One process: expiry, revocation, refused credentials, deaths, and another
\* process that writes the token file.
SPECIFICATION FairSpec
CONSTANTS
    NoToken = NoToken
    Pages = 2
    Life = 3
    MaxFaults = 2
INVARIANTS
    SkewCoversRequest
PROPERTIES
    AuthErrorIsReal
    EbayRecovers
    RedditRecoversOrIsStuck
