SPECIFICATION FairSpec
CONSTANTS
  Children <- MCChildren
  NoChild = NoChild
  Ports = {standard, other}
  DefaultPort = standard
  MaxProbes = 2
  MaxChecks = 2
INVARIANT OneGateway
PROPERTIES QuitKillsAll ChainUnbroken CrashIsRestarted
