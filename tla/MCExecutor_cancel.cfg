SPECIFICATION Spec
CONSTANTS
  None = None
  Main = Main
  j1 = j1
  j2 = j2
  m1 = m1
  Jobs = {j1}
  Modules = {m1}
  ModuleOf <- OneModule
  ConcurrencyLimit <- LimitOne
  MaxConcurrentJobs = 2
  NonceLimit = 2
  MaxSpoolItems = 1
  Fault <- NoFaults
  Redeliverable = {}
  Disturbances = {"cancel"}
  MaxRestarts = 0
PROPERTIES
  CancellationOutcome
