SPECIFICATION Spec
CONSTANTS
    uploads = uploads
    reports = reports
    backups = backups
    Unset = Unset
    DefaultDisk = DefaultDisk
    Override = Override
    Refs <- MCRefs
    Overridden <- MCOverridden
    f1 = f1
    f2 = f2
    Fakes <- MCFakes
    MaxEntries = 3
INVARIANT OneDriverPerRef
SYMMETRY Symmetry
CHECK_DEADLOCK FALSE
