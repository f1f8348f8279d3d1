SPECIFICATION HostSpec
CONSTANTS
    Pids = {2, 3}
    MaxStarts = 2
    MaxBoots = 2
    MaxRestarts = 1
    MaxOps = 3
    Slots = {s1, s2}
    Versions = {1}
    MaxPluginOps = 2
    MaxPanelRestarts = 1
    MaxDrops = 1
    MaxCalls = 1
    MaxRules = 3
    MaxReqs = 2
    MaxShellEdits = 1
    Domains = {da, db}
    SiteIds = {f1, f2}
    MaxSiteOps = 3
    MaxFlaky = 1
    MaxSiteDies = 1
    Releases = {"r1", "r2"}
    MaxUpdates = 4
    MaxUpdateRestarts = 2
    Editors = {e1, e2}
    Sources = {"a"}
    Chunks = 2
    MaxUploads = 2
    MaxSaves = 2
    MaxOther = 1
    MaxLines = 5
    MaxEdits = 3
    MaxCrontabEdits = 1
    MaxUnits = 3
    MaxUnitDies = 1
INVARIANTS  PluginsSound 
PROPERTIES FirewallSound  
CHECK_DEADLOCK FALSE
