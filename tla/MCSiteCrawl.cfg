SPECIFICATION MCSpec
CONSTANTS
  home = home
  news = news
  post = post
  deep = deep
  toNews = toNews
  toPost = toPost
  onward = onward
  Pages <- MCPages
  Start = home
  References <- MCReferences
  Denotes <- MCDenotes
  MaxLinks = 2
  MaxPages = 3
  RespectRobots = TRUE
  Paced = TRUE
INVARIANTS WithinBounds NothingMissed
PROPERTIES Terminates
CHECK_DEADLOCK FALSE
