SPECIFICATION SnapSpec
CONSTANTS
  r1 = r1
  r2 = r2
  Room = {r1, r2}
  Elsewhere = {}
  Catalog <- Shipped
  Call <- Made
  Reply <- ReplyDoor
  File <- Files
  Turn <- Turns
  MonthlyCap = 2
  DailyCap = 2
INVARIANTS CachedIsCurrent OnlyTightens RoomsAreClosed TaintOnlyTightens
