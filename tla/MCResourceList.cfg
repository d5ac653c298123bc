SPECIFICATION Spec
CONSTANTS
  Blank = Blank
  cart = cart
  cart2 = cart2
  numbered = numbered
  Urls <- MCUrls
  Stems <- MCStems
  ResourceID <- MCResourceID
  Pages <- MCPages
  MaxEntries = 4
INVARIANTS TypeOK ScannedInOrder IdsTellApart
CHECK_DEADLOCK FALSE
