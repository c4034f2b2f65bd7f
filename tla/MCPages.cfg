SPECIFICATION MCSpec
CONSTANTS
  Thread = {t1, t2}
  free_pages = 6
  user_page_limit = 2
  MaxCnt = 2
  NULL = NULL
  Threads = {p1, p2}
  UserPages = {1}
SYMMETRY Symmetry
INVARIANTS PagesSound TranslationsSound
PROPERTY ImplementsPageAlloc
