\* Texts of reports with more data than the verifier's struct has room for.
SPECIFICATION Spec
CONSTANTS
  MaxDepth = 4
  IntDigits = 3
  JsonDump <- MCDump
  JsonParse <- MCParse
  MDSIZE = 2
  PUBLIC_KEY_SIZE = 2
  SIGNATURE_SIZE = 2
  ATTEST_DATA_MAXLEN = 2
  WordSpan = 1000000
  Genuine <- MCGenuine
  DeviceKey <- MCDeviceKey
  OtherForms <- MCOtherForms
  OtherReports = {}
  OtherTexts <- MCOtherTexts
  Noise <- MCNoise
  MaxDamage = 1
INVARIANT StaysInStruct
CHECK_DEADLOCK FALSE
