SPECIFICATION Spec
CONSTANTS
    Vendors = {"intel", "amd"}
    HostMasks <- MCHostMasks
    MaxIters = 2
    Continue = FALSE
INVARIANT IdtRestored
INVARIANT RegistersRestored
INVARIANT PageTablesRestored
INVARIANT VmRestored
INVARIANT VmxeWhileVmxOn
PROPERTY MeasurementEnds
