CONSTANT Methods = {"SftpUpload", "ScpUpload", "Download"}
SPECIFICATION InstallSpec
INVARIANTS InstallTypeOK NeverPartial CancelledTouchesNothing NoStrayTemporary MissingOnlyInBetween
PROPERTY UnconfirmedReplacesOnlyNewcomers
CHECK_DEADLOCK FALSE
