SPECIFICATION ServiceSpec
CONSTANTS
  RowNum = 2
  First = 1
  MaxRows = 2
  Typed = {"q'[", "]'", "--", "nl", "/*", "*/", "(", ")", "semicolon", "rownum", "filter", "join", "comma", "quoted", "order", "ordinal", "fetch", "lock"}
  MaxText = 3
  Sizes = {0, 3}
  Retries = 1
INVARIANTS
  RetriesApart
  AcceptsQueries
  LimitIsKept
  ChecksQueries
  CountIsTrue
CHECK_DEADLOCK FALSE
