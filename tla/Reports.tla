-------------------------------- MODULE Reports --------------------------------
(***************************************************************************)
(* What is derived from a family's money and never stored: balances, the   *)
(* dashboard, the budget report, history, exports and capture defaults.    *)
(* A request is a set of database reads, several at once where the code    *)
(* awaits Promise.all, with the writes of other requests in between; how   *)
(* those writes come about is in Movements, Transfers and Catalog.         *)
(***************************************************************************)
EXTENDS Integers, Sequences, FiniteSets, Functions

CONSTANTS
  Wallets,     \* financial accounts
  Sorts,       \* expense categories
  NoSort,      \* a movement without category
  Amounts,     \* amounts of money
  Years,       \* years that are asked about
  Days,        \* days on which something is recorded
  Limit,       \* size of a history page
  MaxEntries,  \* bound on the movements and transfers
  MaxPosts     \* bound on the writes

(***************************************************************************)
(* The calendar: a date is the number of its day.                          *)
(***************************************************************************)
Leap(y) == (y % 4 = 0 /\ y % 100 # 0) \/ y % 400 = 0
DaysBefore == <<0, 31, 59, 90, 120, 151, 181, 212, 243, 273, 304, 334>>
DayNumber(y, m, d) ==
  365 * (y - 1) + ((y - 1) \div 4) - ((y - 1) \div 100) + ((y - 1) \div 400)
    + DaysBefore[m] + (IF m > 2 /\ Leap(y) THEN 1 ELSE 0) + d

(* Date.UTC: months count from 0, and one past the last rolls over. *)
Utc(y, month, d) == DayNumber(y + (month \div 12), (month % 12) + 1, d)

(* isCalendarDate: a day past the end of its month rolls into the next, and *)
(* the date read back is another.                                          *)
IsCalendarDate(y, m, d) ==
  m \in 1 .. 12 /\ d \in 1 .. 31 /\ Utc(y, m - 1, d) < Utc(y, m, 1)

Months == [year : Years, month : 1 .. 12]

(* Mutant of MonthBounds: December ends with the year it belongs to.       *)
MonthBoundsNoRoll(p) ==
  [from |-> Utc(p.year, p.month - 1, 1), to |-> Utc(p.year, p.month % 12, 1)]

(* monthBounds: [from, to) *)
MonthBounds(p) == [from |-> Utc(p.year, p.month - 1, 1), to |-> Utc(p.year, p.month, 1)]

Within(day, p) == MonthBounds(p).from <= day /\ day < MonthBounds(p).to

MonthsAsked == {p \in Months : \E day \in Days : Within(day, p)}

(* A day that is recorded is a date of one of the years.  (Date.UTC takes   *)
(* the years 0 to 99 for those of the last century.)                       *)
ReportsAssumption ==
  /\ IsFiniteSet(Wallets) /\ IsFiniteSet(Sorts)
  /\ Amounts \subseteq Nat \ {0} /\ Amounts # {}
  /\ IsFiniteSet(Years) /\ \A y \in Years : y \in Nat /\ y > 99
  /\ \A day \in Days : \E p \in Months, d \in 1 .. 31 :
       IsCalendarDate(p.year, p.month, d) /\ day = DayNumber(p.year, p.month, d)
  /\ Limit \in Nat \ {0}
  /\ MaxEntries \in Nat /\ MaxPosts \in Nat
ASSUME ReportsAssumption

-----------------------------------------------------------------------------
(* A movement or a transfer, with the time of its last write.  A transfer  *)
(* goes from its account to another, or to the same one (Transfers tells   *)
(* how), a movement stays; of a transfer's date nothing is derived, and    *)
(* incomes are without category here.                                      *)
SomeDay == CHOOSE day \in Days : TRUE
Entries ==
  {e \in [type : {"income", "expense", "transfer"}, amount : Amounts, day : Days,
          account : Wallets, to : Wallets, category : Sorts \cup {NoSort}, gone : BOOLEAN,
          at : 0 .. MaxPosts] :
     /\ e.type # "transfer" => e.account = e.to
     /\ e.type # "expense" => e.category = NoSort
     /\ e.type = "transfer" => e.day = SomeDay}

VARIABLES
  wallet,   \* wallet[a]: the financial account a
  shut,     \* categories that are archived
  entries,  \* movements and transfers, in the order of createdAt
  planned,  \* planned[g]: the allocation of g in every month, 0 for none
  now,      \* the time: number of writes
  query,    \* the request being answered, and when it arrived
  pending,  \* reads it still waits for
  got       \* what the others returned

reportVars == <<wallet, shut, entries, planned, now, query, pending, got>>

NoFilter == [from |-> 0, to |-> 0, type |-> "any"]
NoQuery == [op |-> "none", status |-> "all", month |-> CHOOSE p \in Months : TRUE,
            filter |-> NoFilter, offset |-> 0, since |-> 0, known |-> {}]
Zero(S) == [x \in S |-> 0]
Blank ==
  [accounts |-> <<>>, movementNets |-> Zero(Wallets), transferNets |-> Zero(Wallets),
   money |-> Zero({"income", "expense"}), allocations |-> Zero(Sorts), spend |-> Zero(Sorts),
   movementChange |-> 0, transferChange |-> 0, items |-> {}, total |-> 0,
   accountNames |-> {}, latest |-> {}, account |-> FALSE, category |-> FALSE]

ReportsTypeOK ==
  /\ wallet \in [Wallets -> [there : BOOLEAN, opening : Amounts, archived : BOOLEAN]]
  /\ shut \subseteq Sorts
  /\ entries \in Seq(Entries)
  /\ planned \in [Sorts -> Amounts \cup {0}]
  /\ now \in 0 .. MaxPosts
  /\ query.since \in 0 .. now /\ query.known \subseteq 0 .. now
  /\ query.offset \in {0, Limit}
  /\ pending \subseteq DOMAIN Blank
  /\ DOMAIN got = DOMAIN Blank

ReportsInit ==
  /\ \E some \in SUBSET Wallets :
       wallet = [a \in Wallets |-> [there |-> a \in some, opening |-> CHOOSE n \in Amounts : TRUE,
                                   archived |-> FALSE]]
  /\ shut = {}
  /\ entries = <<>>
  /\ planned = Zero(Sorts)
  /\ now = 0
  /\ query = NoQuery
  /\ pending = {}
  /\ got = Blank

-----------------------------------------------------------------------------
(* The queries *)

MovementDocs == {i \in DOMAIN entries : entries[i].type # "transfer"}
TransferDocs == DOMAIN entries \ MovementDocs
Kept(S) == {i \in S : ~entries[i].gone}
SumOf(S) == SumFunctionOnSet([i \in DOMAIN entries |-> entries[i].amount], S)

(* movements.netByAccount: income minus expense. *)
MovementNet(a) ==
  LET on(type) == {i \in Kept(MovementDocs) : entries[i].account = a /\ entries[i].type = type}
  IN SumOf(on("income")) - SumOf(on("expense"))

(* Mutant of TransferNet: the aggregate has no entry for the origin.       *)
TransferNetIn(a) == SumOf({i \in Kept(TransferDocs) : entries[i].to = a})

(* transfers.netByAccount: an entry for the origin, one for the destination. *)
TransferNet(a) ==
  SumOf({i \in Kept(TransferDocs) : entries[i].to = a})
    - SumOf({i \in Kept(TransferDocs) : entries[i].account = a})

(* sumByTypeInPeriod *)
Money(p) ==
  [type \in {"income", "expense"} |->
     SumOf({i \in Kept(MovementDocs) : entries[i].type = type /\ Within(entries[i].day, p)})]

(* sumExpenseByCategory: an expense without category is in no line. *)
Spend(p, g) ==
  SumOf({i \in Kept(MovementDocs) : /\ entries[i].type = "expense" /\ entries[i].category = g
                                    /\ Within(entries[i].day, p)})

(* findOne, sorted by updatedAt from the newest. *)
Newest(S) ==
  IF S = {} THEN 0
  ELSE entries[CHOOSE i \in S : \A j \in S : entries[j].at <= entries[i].at].at

(* Mutant of LatestChange: what is deleted is not looked at.               *)
LatestChangeKept(S) == Newest(Kept(S))

(* latestChangeAt: the deleted ones count, a deletion is a change. *)
LatestChange(S) == Newest(S)

(* buildHistoryFilter: both bounds are days that belong to the range. *)
Matching(f) ==
  {i \in Kept(MovementDocs) : /\ f.from # 0 => entries[i].day >= f.from
                              /\ f.to # 0 => entries[i].day <= f.to
                              /\ f.type # "any" => entries[i].type = f.type}

(* sort({ date: -1, createdAt: -1 }): those of S that come before i. *)
Before(S, i) ==
  {j \in S : entries[j].day > entries[i].day \/ (entries[j].day = entries[i].day /\ j > i)}
Slice(S, offset, limit) ==
  {i \in S : Cardinality(Before(S, i)) \in offset .. offset + limit - 1}

(* accounts.findByFamily, with statusFilter. *)
Listed(status) ==
  {a \in Wallets : /\ wallet[a].there
                   /\ status # "all" => (wallet[a].archived <=> status = "archived")}

(* accountNameMap *)
NamesOfActive == Listed("active")

NamesOfAll == Listed("all")

-----------------------------------------------------------------------------
(* A request and its reads *)

(* getDashboard awaits a list, a budget report and its marks side by side; *)
(* they share nothing, so each of the three is asked for alone.            *)
Reads(op) ==
  CASE op = "list" -> {"accounts", "movementNets", "transferNets"}
    [] op = "budget" -> {"allocations", "spend"}
    [] op = "marks" -> {"money", "movementChange", "transferChange"}
    [] op = "history" -> {"items", "total"}
    [] op = "export" -> {"items", "accountNames"}
    [] op = "defaults" -> {"latest", "account", "category"}

(* The reads that are awaited before k is made. *)
Awaited(k) ==
  CASE k \in {"movementNets", "transferNets"} -> {"accounts"}
    [] k = "accountNames" -> {"items"}
    [] k = "account" -> {"latest"}
    [] k = "category" -> {"account"}
    [] OTHER -> {}

(* What the read k returns now. *)
Result(k) ==
  CASE k = "accounts" -> [a \in Listed(query.status) |-> wallet[a].opening]
    [] k = "movementNets" -> [a \in Wallets |-> MovementNet(a)]
    [] k = "transferNets" -> [a \in Wallets |-> TransferNet(a)]
    [] k = "money" -> Money(query.month)
    [] k = "allocations" -> planned
    [] k = "spend" -> [g \in Sorts |-> Spend(query.month, g)]
    [] k = "movementChange" -> LatestChange(MovementDocs)
    [] k = "transferChange" -> LatestChange(TransferDocs)
    [] k = "items" -> {<<i, entries[i].account>> :
                        i \in IF query.op = "export" THEN Matching(query.filter)
                              ELSE Slice(Matching(query.filter), query.offset, Limit)}
    [] k = "total" -> Cardinality(Matching(query.filter))
    [] k = "accountNames" -> NamesOfAll
    [] k = "latest" -> {<<entries[i].account, entries[i].category>> :
                         i \in Slice(Matching(NoFilter), 0, 1)}
    [] k = "account" -> \E m \in got.latest : m[1] \in Listed("active")
    [] k = "category" -> \E m \in got.latest : m[2] \notin shut \cup {NoSort}

Ask(q) ==
  /\ query.op = "none"
  /\ query' = [q EXCEPT !.since = now, !.known = {entries[i].at : i \in DOMAIN entries}]
  /\ pending' = Reads(q.op)
  /\ UNCHANGED <<wallet, shut, entries, planned, now, got>>

(* listAccounts; getDashboard takes the active ones. *)
AskList == \E status \in {"all", "active", "archived"} :
             Ask([NoQuery EXCEPT !.op = "list", !.status = status])
AskMonth == \E op \in {"marks", "budget"}, month \in MonthsAsked :
              Ask([NoQuery EXCEPT !.op = op, !.month = month])
Filters == {NoFilter, [NoFilter EXCEPT !.type = "income"]}
             \cup {[NoFilter EXCEPT !.from = day] : day \in Days}
             \cup {[NoFilter EXCEPT !.to = day] : day \in Days}
AskHistory ==
  \E filter \in Filters, page \in {[op |-> "history", at |-> 0], [op |-> "history", at |-> Limit],
                                   [op |-> "export", at |-> 0]} :
    Ask([NoQuery EXCEPT !.op = page.op, !.filter = filter, !.offset = page.at])
AskDefaults == Ask([NoQuery EXCEPT !.op = "defaults"])

Read(k) ==
  /\ k \in pending
  /\ Awaited(k) \cap pending = {}
  /\ got' = [got EXCEPT ![k] = Result(k)]
  /\ pending' = pending \ {k}
  /\ UNCHANGED <<wallet, shut, entries, planned, now, query>>

(* The answer goes out, or a read rejects and the request with it. *)
Respond ==
  /\ query.op # "none"
  /\ query' = NoQuery /\ pending' = {} /\ got' = Blank
  /\ UNCHANGED <<wallet, shut, entries, planned, now>>

-----------------------------------------------------------------------------
(* The writes of other requests, one document each.  (The answer goes out   *)
(* with the last read.)                                                    *)

Post ==
  /\ now < MaxPosts
  /\ query.op = "none" \/ pending # {}
  /\ now' = now + 1
  /\ UNCHANGED <<query, pending, got>>

Record(e) ==
  /\ Len(entries) < MaxEntries
  /\ e \in Entries
  /\ Post
  /\ entries' = Append(entries, e)
  /\ UNCHANGED <<wallet, shut, planned>>

(* A field of an entry that is not deleted is edited; a movement stays one. *)
Revise(i, e) ==
  /\ ~entries[i].gone
  /\ e \in Entries
  /\ e.type = "transfer" <=> entries[i].type = "transfer"
  /\ Post
  /\ entries' = [entries EXCEPT ![i] = e]
  /\ UNCHANGED <<wallet, shut, planned>>

Discard(i) ==
  /\ Post
  /\ entries' = [entries EXCEPT ![i].gone = TRUE, ![i].at = now + 1]
  /\ UNCHANGED <<wallet, shut, planned>>

ChangeWallet(a) ==
  /\ Post
  /\ \/ ~wallet[a].there /\ wallet' = [wallet EXCEPT ![a].there = TRUE]
     \/ wallet[a].there /\ \E n \in Amounts \ {wallet[a].opening} :
                              wallet' = [wallet EXCEPT ![a].opening = n]
     \/ wallet[a].there /\ wallet' = [wallet EXCEPT ![a].archived = ~@]
  /\ UNCHANGED <<shut, entries, planned>>

(* upsert and deleteInFamily of an allocation; setAllocation has seen the  *)
(* category active, but it may be archived by now.                         *)
Allocate(g) ==
  /\ Post
  /\ \E n \in Amounts \cup {0} : planned' = [planned EXCEPT ![g] = n]
  /\ UNCHANGED <<wallet, shut, entries>>

Shut(g) ==
  /\ Post
  /\ shut' = (shut \ {g}) \cup ({g} \ shut)
  /\ UNCHANGED <<wallet, entries, planned>>

(* What can be recorded now: the accounts exist. *)
Entry(type, n, day, a, b, g) ==
  [type |-> type, amount |-> n, day |-> day, account |-> a, to |-> b, category |-> g,
   gone |-> FALSE, at |-> now + 1]
Fresh ==
  LET some == Listed("all") IN
    {Entry("income", n, day, a, a, NoSort) : n \in Amounts, day \in Days, a \in some}
      \cup {Entry("expense", n, day, a, a, g) :
              n \in Amounts, day \in Days, a \in some, g \in Sorts \cup {NoSort}}
      \cup {Entry("transfer", n, SomeDay, a, b, NoSort) :
              n \in Amounts, a \in some, b \in some}

ReportsNext ==
  \/ AskList \/ AskMonth \/ AskHistory \/ AskDefaults
  \/ \E k \in pending : Read(k)
  \/ Respond
  \/ \E e \in Fresh : Record(e) \/ \E i \in DOMAIN entries : Revise(i, e)
  \/ \E i \in DOMAIN entries : Discard(i)
  \/ \E a \in Wallets : ChangeWallet(a)
  \/ \E g \in Sorts : Allocate(g) \/ Shut(g)

ReportsSpec == ReportsInit /\ [][ReportsNext]_reportVars

-----------------------------------------------------------------------------
(* The answers *)

Answered(op) == query.op = op /\ pending = {}
Undisturbed == now = query.since

(* deriveBalance *)
Balance(a) == got.accounts[a] + got.movementNets[a] + got.transferNets[a]
NetWorth == SumFunction([a \in DOMAIN got.accounts |-> Balance(a)])

(* lastUpdated *)
LastUpdated == IF got.movementChange > got.transferChange THEN got.movementChange
                                                          ELSE got.transferChange

(* toLine: Math.round of the share consumed, half rounded up. *)
PercentConsumed(real, plan) == (200 * real + plan) \div (2 * plan)
StatusFor(plan, real) ==
  IF real > plan THEN "over" ELSE IF PercentConsumed(real, plan) >= 80 THEN "near" ELSE "under"

HasMore == query.offset + Cardinality(got.items) < got.total

-----------------------------------------------------------------------------
(* Properties *)

(* A transfer neither makes nor loses money in an answer that lists every  *)
(* account, even if it was recorded, edited or deleted between the reads:  *)
(* both its ends come from one aggregate, whatever moment it was read at.  *)
TransfersConserve ==
  Answered("list") /\ DOMAIN got.accounts = Wallets =>
    NetWorth = SumFunction([a \in Wallets |-> got.accounts[a] + got.movementNets[a]])

(* The dashboard's mark of the last change is not older than any change    *)
(* made before it was asked for, deletions included (009 FR-008).          *)
LastUpdatedCovers == Answered("marks") => \A t \in query.known : LastUpdated >= t

(* The months of these years part their days: every calendar date lies in  *)
(* its own month and nothing else does, leap Februaries and Decembers      *)
(* included.                                                               *)
CalendarHolds ==
  \A p \in Months, d \in 1 .. 31 :
    LET day == DayNumber(p.year, p.month, d) IN
      IsCalendarDate(p.year, p.month, d) <=> {q \in Months : Within(day, q)} = {p}

(* Four aggregates of one store agree: what the movements leave on the     *)
(* accounts is the income less the expense of the months; a month of       *)
(* history, from its first day to its last, lists what its summary sums;   *)
(* and the budget lines of a month stay within its expense.  (Any books     *)
(* there can be are also there while nothing is asked.)                    *)
BooksReconcile == query.op = "none" =>
  /\ CalendarHolds
  /\ SumFunction([a \in Wallets |-> MovementNet(a)])
       = SumFunction([p \in MonthsAsked |-> Money(p)["income"] - Money(p)["expense"]])
  /\ \A p \in MonthsAsked, t \in {"income", "expense"} :
       SumOf(Matching([from |-> MonthBounds(p).from, to |-> MonthBounds(p).to - 1, type |-> t]))
         = Money(p)[t]
  /\ \A p \in MonthsAsked :
       /\ SumFunction([g \in Sorts |-> Spend(p, g)]) <= Money(p)["expense"]
       /\ \A g \in Sorts : planned[g] > 0 /\ StatusFor(planned[g], Spend(p, g)) = "over" =>
            Money(p)["expense"] > planned[g]

(* An export names the account of each of its rows, also one created or    *)
(* archived after the rows were read; and a page no write came into says   *)
(* there is more exactly when a matching movement lies beyond it.          *)
HistoryTells ==
  /\ Answered("export") => \A row \in got.items : row[2] \in got.accountNames
  /\ Answered("history") /\ Undisturbed =>
       (HasMore <=> Slice(Matching(query.filter), query.offset + Limit, 1) # {})

-----------------------------------------------------------------------------
(* The inductive invariant: the entries keep their types, times and        *)
(* accounts, and what a read has returned is still good for something.     *)

(* No entry is newer than the clock, and its accounts exist. *)
EntriesOK ==
  \A i \in DOMAIN entries :
    /\ entries[i].at <= now
    /\ wallet[entries[i].account].there /\ wallet[entries[i].to].there

(* The transfers a list was answered with cancel out. *)
ListHeld == query.op = "list" =>
  /\ "accounts" \notin pending =>
       DOMAIN got.accounts \subseteq Wallets
         /\ \A a \in DOMAIN got.accounts : got.accounts[a] \in Nat
  /\ "movementNets" \notin pending => got.movementNets \in [Wallets -> Int]
  /\ "transferNets" \notin pending =>
       got.transferNets \in [Wallets -> Int] /\ SumFunction(got.transferNets) = 0

(* A change made before the marks were asked for is covered by a mark that *)
(* was read, or there still to be read.                                    *)
Marked(S, k, t) ==
  IF k \in pending THEN \E i \in S : entries[i].at >= t ELSE got[k] >= t
MarksHeld == query.op = "marks" =>
  /\ \A k \in {"movementChange", "transferChange"} : k \notin pending => got[k] \in Nat
  /\ \A t \in query.known : \/ Marked(MovementDocs, "movementChange", t)
                            \/ Marked(TransferDocs, "transferChange", t)

(* The accounts of the rows of an export exist when their names are read. *)
ExportHeld == query.op = "export" =>
  /\ "items" \in pending => "accountNames" \in pending
  /\ "items" \notin pending => \A row \in got.items : row[2] \in NamesOfAll
  /\ "accountNames" \notin pending => \A row \in got.items : row[2] \in got.accountNames

(* Until something is written, what was read is what would be read. *)
PageHeld == query.op = "history" /\ Undisturbed =>
  \A k \in {"items", "total"} : k \notin pending => got[k] = Result(k)

ReportsInv == ReportsTypeOK /\ EntriesOK /\ ListHeld /\ MarksHeld /\ ExportHeld /\ PageHeld
=============================================================================
