\* Two clients for one bucket, one request per two seconds, levels a twentieth of a
\* request off; three identities that conflict, a seed of one bookmark.
SPECIFICATION AccessSpec
SYMMETRY Alike
CONSTANTS
    c1 = c1
    c2 = c2
    Key = {c1, c2}
    Capacity = 1
    WindowSeconds = 2
    MaxKeys = 1
    IdleTtl = 2
    Grain = 10
    Rounding = 1
    MaxTime = 2
    Client = {c1, c2}
    Identity <- Identities
    SeedIdentity <- SeedsOwn
    Fixture = {f1}
    Seeder = Seeder
INVARIANT TypeOK RetryAfterIsClose AccountsTypeOK TokensNameTheirHolder
PROPERTY ImplementsTokenBucket ReportsAreRare SeedIsAtomic
