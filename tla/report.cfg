\* Four genuine reports, each carried as JSON; at most once a byte is damaged, or
\* another buffer or text takes the place of the report's.
SPECIFICATION Spec
CONSTANTS
  MaxDepth = 4
  IntDigits = 3
  JsonDump <- MCDump
  JsonParse <- MCParse
  MDSIZE = 2
  PUBLIC_KEY_SIZE = 2
  SIGNATURE_SIZE = 2
  ATTEST_DATA_MAXLEN = 2
  WordSpan = 1000000
  Genuine <- MCGenuine
  DeviceKey <- MCDeviceKey
  OtherForms <- MCOtherForms
  OtherReports <- MCOtherReports
  OtherTexts <- MCOtherTexts
  Noise <- MCNoise
  MaxDamage = 1
INVARIANTS
  VerifiesOnlyGenuine
  ArrivesWhole
CHECK_DEADLOCK FALSE
