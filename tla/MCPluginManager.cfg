CONSTANTS
  belt = belt
  table = table
  cam = cam
  all = all
  some = some
  bad = bad
  none = none
  Plugins = {belt, table, cam}
  Metas = {all, some, bad, none}
  Config <- Lists
  NoMeta = NoMeta
  Requests <- Calls
  MayFailLoad = {cam}
  MayFailInit = {belt}
  MayFailStart = {table}
  MayVeto = {belt}
  MayFailFinalize = {table}
SPECIFICATION Spec
INVARIANTS ExpandedOnce BooksAgree ListenersAgree
CHECK_DEADLOCK FALSE
