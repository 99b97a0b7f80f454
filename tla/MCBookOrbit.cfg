SPECIFICATION FairSpec
CONSTANTS
    Desired <- MCDesired
    Users = {"u1", "u2"}
    PageSize = 1
    Entries = {"registration", "mapping", "old", "prowlarr", "sabnzbd"}
    Mode <- MCMode
    Groups <- MCGroups
    LibrariesAfter = 2
    PluginsAfter = 3
    Installs <- MCInstalls
    Names = {"comics", "books", "podcasts"}
    MaxChanges = 1
    MaxTroubles = 2
INVARIANT TypeOK
PROPERTIES ManagedKept Converges
