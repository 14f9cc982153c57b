SPECIFICATION FairSpec
CONSTANTS
  setup = setup
  teardown = teardown
  remote = remote
  Clients = {setup, teardown, remote}
  N_RUNS = 3
  ServerPort = 8080
  PortOf <- MakefilePorts
  Backlog = 2
  FdLimit = 2
  MaxFaults = 1
INVARIANTS TypeOK ServerStays SamplesAreConnections
PROPERTY ClientsFinish
