SPECIFICATION Spec
CONSTANTS
    MaxSerial = 2
    MaxUnread = 1
PROPERTIES
    GoneMeansOff
CHECK_DEADLOCK FALSE
