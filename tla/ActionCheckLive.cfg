SPECIFICATION FairSpec
CONSTANTS
    pull = pull
    push = push
    read = read
    net = net
    git = git
    bot = bot
    cron = cron
    web = web
    r1 = r1
    c1 = c1
    c2 = c2
    c3 = c3
    No = No
    Broken = Broken
    Actions <- MCActions
    Permissions <- MCPermissions
    Tools <- MCTools
    Runners <- MCRunners
    Services <- MCServices
    Interfaces <- MCInterfaces
    Runs <- MCRuns
    Denies <- Equal
    Covers <- Equal
    Unsupported = {}
    Calls = {c1, c2, c3}
    Info <- LightAndSilent
    FirstGrants <- OnlyNothing
    Edits <- MCEdits
    Broker = TRUE
    MaxExecutors = 2
    MaxEdits = 0
 
 
PROPERTY EveryCallEnds
CHECK_DEADLOCK FALSE
