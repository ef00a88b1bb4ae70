SPECIFICATION FairSpec
CONSTANTS
  plain = plain
  combo = combo
  other = other
  Ctx <- MCCtx
  MaxComboCtx <- MCMaxComboCtx
  NoCtx = NoCtx
  NoPending = NoPending
  Delays <- MCDelays
  ResultWait = 1
  Horizon = 2
  Scopes = {"result_only", "select_and_result"}
PROPERTY MovedAwayClears
