SPECIFICATION Spec
CONSTANTS
    Entries <- SomeEntries
    Total = 5
    MaxItems = 6
    GratCapacity = 4
PROPERTY
    ImplementsLog
