SPECIFICATION ServicesSpec
CONSTANTS
  Accounts = {x1, x2}
  Details = {d1}
  Transfers = {t1}
  Requests = {r1, r2}
  Amended <- MCAmended
  NoDoc = NoDoc
  NoTransfer = NoTransfer
  MaxRequests = 3
  Calls = {r1, r2}
  MaxAttempts = 1
  MaxFailed = 2
  MaxCalls = 4
  Pots = {p1}
  Customs = {c1}
  Defaults = {s1}
  Words = {n1}
  Stencils = {u1, u2}
  NoStencil = NoStencil
  Erased = Erased
  Same = Same
  Tried <- MCTried
  Editors = {r1, r2}
  MaxEdits = 3
  Bells = {b1, b2, b3}
  NoBell = NoBell
  Removed = Removed
  MaxReminders = 1
  Phones = {r1, r2}
  MaxOrders = 3
  Wallets = {u1, u2}
  Sorts = {g1}
  NoSort = NoSort
  Amounts = {1}
  Years = {2023, 2024}
  Days <- MCDays
  Limit = 1
  MaxEntries = 2
  MaxPosts = 2
SYMMETRY Symmetry
INVARIANT ServicesInv
INVARIANT EndsDiffer
INVARIANT TrailTellsAll
INVARIANT RetiredCodesFail
INVARIANT AttemptsBounded
INVARIANT VerifiedProvesInbox
INVARIANT LockoutCounts
INVARIANT TemplateNamesApart
INVARIANT TemplateKindsMatch
INVARIANT RemindersCapped
INVARIANT RemindersCoherent
INVARIANT TransfersConserve
INVARIANT LastUpdatedCovers
INVARIANT BooksReconcile
INVARIANT HistoryTells
PROPERTY DeletedIsFinal
PROPERTY ReadOnlyStays
CHECK_DEADLOCK FALSE
