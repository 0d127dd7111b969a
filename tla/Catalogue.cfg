SPECIFICATION FairSpec
CONSTANTS
  b1 = b1
  b2 = b2
  k = k
  j = j
  m1 = m1
  m2 = m2
  s1 = s1
  s2 = s2
  Authors = {1, 2, 3}
  Categories = {k, j}
  Books = {b1, b2}
  Members = {m1, m2}
  Ratings = {2, 5}
  Entries <- MCEntries
  Shelf = {b1, b2}
  AuthorOf <- MCAuthorOf
  CategoryOf <- MCCategoryOf
  Borrowed = {b2}
  Slots = {s1, s2}
  MaxCalls = 3
  None = None
INVARIANTS
  TypeOK
  BooksCounted
  RatingSettles
  OneReviewEach
PROPERTIES
  HistoryOutlivesBook
  RequestsEnd
CHECK_DEADLOCK FALSE
