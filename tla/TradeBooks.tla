------------------------------ MODULE TradeBooks ------------------------------
(***************************************************************************)
(* What is written down about trades: the trade journal with its daily     *)
(* summaries, the pass of the FillReconciler that compares it with the     *)
(* fills of the exchange, and the HealthReport whose counters are those of *)
(* one day.  The order itself is an input; between its fill and its entry  *)
(* in the journal lies the request for its fees.                           *)
(***************************************************************************)
EXTENDS Integers, Sequences, FiniteSets, FiniteSetsExt, Functions, Sums

CONSTANTS
    FillPage, JournalPage,          \* 100 fills of a symbol, 200 entries
    Results,                        \* realized on an exit
    Days,                           \* of a report, 7 or 14
    MaxOrders, MaxDay, MaxPasses    \* bounds

VARIABLES
    today,
    fills,               \* at the exchange, newest last; an order may have two
    open,                \* filled orders not yet confirmed
    trade_journal,       \* the table
    counters, lastResetDate,
    result, passes,      \* of reconcile(): its last result, how many there were
    told                 \* history: of each day, what was recorded on it since the start

books == <<fills, open, trade_journal>>
health == <<counters, lastResetDate, told>>
booksVars == <<today, books, health, result, passes>>

Fresh == [blocked |-> 0, placed |-> 0, filled |-> 0, orphans |-> 0, mismatches |-> 0]
NoResult == [orphans |-> 0, mismatches |-> 0]
orders == {fills[i].order : i \in DOMAIN fills}

(* Every record call first rotates; `what' says by how much it counts.     *)
rotated_Kept == counters                                    \* mutant
rotated == IF today # lastResetDate THEN Fresh ELSE counters
plus(c, what) == [k \in DOMAIN Fresh |-> c[k] + IF k \in DOMAIN what THEN what[k] ELSE 0]
record(what) ==
    /\ counters' = plus(rotated, what)
    /\ lastResetDate' = today
    /\ told' = [told EXCEPT ![today] = plus(@, what)]

-----------------------------------------------------------------------------
Init ==
    /\ today = 1
    /\ fills = << >> /\ open = {} /\ trade_journal = << >>
    /\ counters = Fresh /\ lastResetDate = 1 /\ told = [d \in 1..MaxDay |-> Fresh]
    /\ result = NoResult /\ passes = 0

Midnight ==
    /\ today < MaxDay
    /\ today' = today + 1
    /\ UNCHANGED <<books, health, result, passes>>

Block ==
    /\ told[today].blocked < 1
    /\ record([blocked |-> 1])
    /\ UNCHANGED <<today, books, result, passes>>

(* The broker returns a filled order, filled at once or in two parts.      *)
Place(parts) ==
    /\ Cardinality(orders) < MaxOrders
    /\ LET o == Cardinality(orders) + 1
       IN  /\ fills' = fills \o [i \in 1..parts |-> [order |-> o, qty |-> 1, fee |-> 1]]
           /\ open' = open \union {o}
    /\ record([placed |-> 1])
    /\ UNCHANGED <<today, trade_journal, result, passes>>

(* getActualFees(): those of the fills, or those of the order, which the   *)
(* exchange may not have told; then the journal, whose failure is logged.  *)
Confirm(o, fee, kept, pnl) ==
    /\ o \in open
    /\ open' = open \ {o}
    /\ record([filled |-> 1])
    /\ LET parts == Cardinality({i \in DOMAIN fills : fills[i].order = o})
           entry == [order |-> o, qty |-> parts, fee |-> IF fee THEN parts ELSE 0,
                     action |-> IF pnl = 0 THEN "entry" ELSE "exit", pnl |-> pnl, date |-> today]
       IN  trade_journal' = IF kept THEN Append(trade_journal, entry) ELSE trade_journal
    /\ UNCHANGED <<today, fills, result, passes>>

(* The journal is on disk, the health report is not.                       *)
Crash ==
    /\ open # {}
    /\ open' = {}
    /\ counters' = Fresh /\ lastResetDate' = today /\ told' = [d \in 1..MaxDay |-> Fresh]
    /\ UNCHANGED <<today, fills, trade_journal, result, passes>>

newest(s, n) == IF Len(s) <= n THEN s ELSE SubSeq(s, Len(s) - n + 1, Len(s))

byOrder_LastFill(page) ==                                   \* mutant
    [o \in {page[i].order : i \in DOMAIN page} |-> [qty |-> 1, fee |-> 1]]
ofOrder(o, page, values) ==
    SumTo([i \in DOMAIN page |-> IF page[i].order = o THEN values[i] ELSE 0], Len(page))
byOrder(page) ==
    [o \in {page[i].order : i \in DOMAIN page} |->
        [qty |-> ofOrder(o, page, [i \in DOMAIN page |-> page[i].qty]),
         fee |-> ofOrder(o, page, [i \in DOMAIN page |-> page[i].fee])]]

entriesOf(o, entries) == {e \in Range(entries) : e.order = o}

(* One pass over the symbol, as the answer of the exchange arrives; each   *)
(* adds to the counters what it sees, what an earlier one saw included.    *)
(* (The re-sync that ends it is InventoryManager's.)                       *)
Reconcile ==
    /\ passes < MaxPasses
    /\ passes' = passes + 1
    /\ LET seen == byOrder(newest(fills, FillPage))
           recent == newest(trade_journal, JournalPage)
           orphan == {o \in DOMAIN seen : entriesOf(o, recent) = {}}
           found == (DOMAIN seen) \ orphan
           offQty == {o \in found : \E e \in entriesOf(o, recent) : e.qty # seen[o].qty}
           offFee == {o \in found : \E e \in entriesOf(o, recent) : e.fee # seen[o].fee}
           counted == [orphans |-> Cardinality(orphan),
                       mismatches |-> Cardinality(offQty) + Cardinality(offFee)]
       IN  result' = counted /\ record(counted)
    /\ UNCHANGED <<today, books>>

(* Without the fills nothing is compared, and the day may turn all the same. *)
ReconcileFails ==
    /\ record(<< >>)
    /\ UNCHANGED <<today, books, result, passes>>

Next ==
    \/ Midnight \/ Block \/ Crash \/ Reconcile \/ ReconcileFails
    \/ \E parts \in 1..2 : Place(parts)
    \/ \E o \in open, fee, kept \in BOOLEAN, pnl \in Results \union {0} : Confirm(o, fee, kept, pnl)

Spec == Init /\ [][Next]_booksVars

-----------------------------------------------------------------------------
exitsOf(date) == {i \in DOMAIN trade_journal : trade_journal[i].date = date /\ trade_journal[i].action = "exit"}
added(acc, pnl) ==
    LET cum == acc.cum + pnl
        peak == IF cum > acc.peak THEN cum ELSE acc.peak
    IN  [cum |-> cum, peak |-> peak, dd |-> IF peak - cum > acc.dd THEN peak - cum ELSE acc.dd]
dayUpTo(date) ==
    LET upTo[i \in 0..Len(trade_journal)] ==
            IF i = 0 THEN [cum |-> 0, peak |-> 0, dd |-> 0]
            ELSE IF i \in exitsOf(date) THEN added(upTo[i - 1], trade_journal[i].pnl)
            ELSE upTo[i - 1]
    IN  upTo
getDailySummary(date) == dayUpTo(date)[Len(trade_journal)]

(* The summaries of the last days, of those with an exit, and their sum.   *)
(* (The commissions of a day without one are in no report.)                *)
daysTold == {d \in (today - Days + 1)..today : exitsOf(d) # {}}
summed(days) == SumTo([d \in 1..today |-> IF d \in days THEN getDailySummary(d).cum ELSE 0], today)
totalPnl_EveryDay == summed(1..today)                       \* mutant
totalPnl == summed(daysTold)

(* What a reader is told are the counts of the last day on which anything  *)
(* was recorded, all of them and no others, and nothing has been recorded  *)
(* since.  They are reset by the first call that records something, not    *)
(* at midnight (healthReport.ts:7): up to it getCounters() answers with,   *)
(* and printSummary() dates as today's, those of an earlier day.           *)
CountersOfLastDay ==
    /\ lastResetDate <= today
    /\ counters = told[lastResetDate]
    /\ \A d \in (lastResetDate + 1)..today : told[d] = Fresh

(* So they are, and the drawdown of a day's summary is the deepest fall of *)
(* its result from the day's beginning or any later point.  The result     *)
(* reported of several days is that of all exits in them.                  *)
realized(exits, n) == SumTo([i \in 1..n |-> IF i \in exits THEN trade_journal[i].pnl ELSE 0], n)
DayTold ==
    /\ CountersOfLastDay
    /\ LET due == {i \in DOMAIN trade_journal : trade_journal[i].action = "exit" /\ trade_journal[i].date > today - Days}
       IN  totalPnl = realized(due, Len(trade_journal))
    /\ \A date \in 1..today :
           LET cum(n) == realized(exitsOf(date), n)
               points == {p \in (0..Len(trade_journal)) \X (0..Len(trade_journal)) : p[1] <= p[2]}
           IN  getDailySummary(date).dd = Max({cum(p[1]) - cum(p[2]) : p \in points})

(* A pass misses no order that it sees all fills of and whose entry is     *)
(* absent or differs; and, unless its pages were too short, it counts      *)
(* nothing else but orders whose entry is still to be written.             *)
PassTells ==
    passes' # passes =>
        LET page == newest(fills, FillPage)
            parts(o, s) == Cardinality({i \in DOMAIN s : s[i].order = o})
            whole == {o \in orders : parts(o, page) = parts(o, fills)}
            agrees(o) == \E e \in entriesOf(o, trade_journal) : e.qty = parts(o, fills) /\ e.fee = e.qty
            wrong == {o \in orders : ~agrees(o)}
        IN  /\ result'.orphans + result'.mismatches >= Cardinality(whole \intersect wrong)
            /\ (Len(fills) <= FillPage /\ Len(trade_journal) <= JournalPage)
                   => result'.orphans + result'.mismatches = Cardinality(wrong)

(* Both together.                                                          *)
BooksTold == []DayTold /\ [][PassTells]_booksVars
=============================================================================
