\* Three options of any kind; the limits of the loader are two, so that lists
\* both fit and do not.
SPECIFICATION Spec
CONSTANTS
    NetworkLimit = 2
    ListLimit = 2
    Width = 4
    Kilo = 2
    MaxOptions = 3
    Mounts <- SomeMounts
    Disks <- SomeDisks
    EnvOptions <- SomeEnvs
    Includes <- SomeIncludes
    Networks <- SomeNetworks
    Clients <- SomeClients
    Needs <- SomeNeeds
    Trees <- SomeTrees
    Kernels <- SomeKernels
    Unpackers = {"xz"}
    ConfigDir <- Config
    Modes <- SomeModes
INVARIANTS
    TypeOK
    RoundTrip
    MountsAsAsked
    BootFindsDevices
    TagsFindDisks
    ModulesLoad
    ConsolesMeet
    AddressesCommanded
    EnvAsAsked
CHECK_DEADLOCK FALSE
