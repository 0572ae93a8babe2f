CONSTANTS
    Daemons = {d1, d2}
    Word = 65536
    Files <- SomeFiles
    MaxDeaths = 1
SPECIFICATION FairSpec
INVARIANTS PathIsOurs ReloadFollowsFile
PROPERTY ServiceRecovers
