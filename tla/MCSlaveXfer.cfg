CONSTANTS
    N = 4
    Buffer = 2
    Window = 2
    MaxQueries = 2
SPECIFICATION Spec
INVARIANTS TransferAgrees DownloadInOrder
PROPERTIES UploadWholeOrGone EveryQueryAnswered
CHECK_DEADLOCK FALSE
