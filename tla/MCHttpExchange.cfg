\* Requests of all kinds and sizes around the limits, cut at any place.
CONSTANTS
    MaxSize = 14
    MaxMultiPartSize = 15
    Block = 3
    MaxParts = 2
    Scripts <- AllScripts
    Settings <- CloseHeaders
SPECIFICATION Spec
INVARIANTS RequestsAsSent VerdictBySize ResponsesFramed UploadsDeleted NobodyWaits
\* A closed connection is the end.
CHECK_DEADLOCK FALSE
