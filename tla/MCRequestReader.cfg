SPECIFICATION Spec
CONSTANTS
  Chars <- MCChars
  Says <- MCSays
  Forms <- MCForms
  Spellings = {"Content-Length", "content-length"}
  IntMax = 19
INVARIANTS HandlerSeesForm NoTornValue
PROPERTY CompleteIsServed
CHECK_DEADLOCK FALSE
