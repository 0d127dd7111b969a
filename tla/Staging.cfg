SPECIFICATION FairSpec
CONSTANTS
  b1 = b1
  b2 = b2
  a1 = a1
  a2 = a2
  k1 = k1
  k2 = k2
  demo = demo
  SeedAuthors <- MCSeedAuthors
  SeedCategories <- MCSeedCategories
  SeedBooks <- MCSeedBooks
  DemoAuthor = demo
  AuthorOf <- MCAuthorOf
  CategoryOf <- MCCategoryOf
  ById <- MCById
  MaxBarcode = 6
  Typed <- MCTyped
  Touched <- MCTouched
  Claimed <- MCClaimed
  MaxChanges = 2
  MaxCrashes = 1
  Somebody = Somebody
INVARIANTS
  TypeOK
  StockCounted
  FixtureLoansMatch
PROPERTIES
  FixtureAsDocumented
  FixtureReviews
  StockArrives
