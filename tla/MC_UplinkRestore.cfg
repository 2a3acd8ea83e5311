\* One uplink of each driver type, no failing call: RestoreLinux
\* should give the host back its initial state.
CONSTANTS
  Drivers <- AllDrivers
  InjectFailures = FALSE
SPECIFICATION Spec
INVARIANT RestoreLinuxRestoresHost
CHECK_DEADLOCK FALSE
