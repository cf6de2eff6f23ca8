SPECIFICATION Spec
CONSTANTS Typed = {"SHARE_PASSWORD"}  Saved = {"ARCHIVE_SERVER", "SHARE_NAME", "SHARE_USER", "SHARE_PASSWORD"} Systems = {"cifs", "rsync"} Methods = {"ble"} Images = {"CAM_SIZE"}  MaxSize = 1  None = None  MaxActs = 3
INVARIANT SkipKeepsDrives
CHECK_DEADLOCK FALSE
