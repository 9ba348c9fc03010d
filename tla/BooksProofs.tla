---------------------------- MODULE BooksProofs ----------------------------
(***************************************************************************)
(* Proofs about the parts of Parts that keep and tell what has happened:   *)
(* a backtest and what it measures, the archive of its runs, the books of  *)
(* trades and the history of events.  As in PartsProofs, what is inductive *)
(* in a part is inductive here, guarded by its name; what a loop of the    *)
(* code computes is found by induction along the loop.                     *)
(***************************************************************************)
EXTENDS Parts, Sums, FiniteSetTheorems, SequenceTheorems, TLAPS

-----------------------------------------------------------------------------
(* Sets of numbers: a set of naturals that is not empty has a least one.   *)

LEMMA LeastOf ==
    ASSUME NEW Less, IsWellFoundedOn(Less, Nat), NEW X, X \subseteq Nat, X # {}
    PROVE  \E m \in X : \A x \in X : <<x, m>> \notin Less
  BY WFMin, Zenon

LEMMA LeastIn ==
    ASSUME NEW Less, \A x, y \in Nat : <<x, y>> \in Less <=> x < y,
           NEW X \in SUBSET Nat, \E m \in X : \A x \in X : <<x, m>> \notin Less
    PROVE  \E m \in X : \A x \in X : m <= x
<1>1. \A m, x \in X : <<x, m>> \notin Less => m <= x
  <2> SUFFICES ASSUME NEW m \in X, NEW x \in X, ~(<<x, m>> \in Less) PROVE m <= x
    OBVIOUS
  <2>1. m \in Nat /\ x \in Nat
    OBVIOUS
  <2>2. ~(x < m)
    BY <2>1
  <2> QED
    BY <2>1, <2>2
<1> QED
  BY <1>1

LEMMA Least ==
    ASSUME NEW X \in SUBSET Nat, X # {} PROVE \E m \in X : \A x \in X : m <= x
<1> DEFINE Less == OpToRel(<, Nat)
<1>1. IsWellFoundedOn(Less, Nat)
  BY NatLessThanWellFounded
<1>2. \A x, y \in Nat : <<x, y>> \in Less <=> x < y
  BY DEF OpToRel
<1> HIDE DEF Less
<1>3. \E m \in X : \A x \in X : <<x, m>> \notin Less
  BY <1>1, LeastOf
<1> QED
  BY <1>2, <1>3, LeastIn

-----------------------------------------------------------------------------
(* Backtest, for any candles, windows, costs and distances: the half of    *)
(* TestSound that is about single trades.                                  *)

(* A behaviour of the walk-forward test is one of Backtest.                *)
LEMMA TestMoves ==
    [Next]_vars => part' = part /\ (part = "backtest" => [B!Next]_backtestVars)
  BY DEF Next, vars

Against(side, entry, exit) == IF side = "long" THEN entry - exit ELSE exit - entry
Bounded(t) ==
    /\ t.barsHeld \in 1..MaxHeld
    /\ Against(t.side, t.entry, t.exit) <= StopDistance + Slippage

AllBounded(ts) == \E Z : ts \in Seq(Z) /\ \A t \in Z : Bounded(t)

(* What is open was opened in an earlier bar and is not overdue, and its   *)
(* stop and target are as far from its entry as they were put.             *)
Opened ==
    /\ position.side \in {"long", "short"}
    /\ position.entry \in Int /\ position.opened \in Nat
    /\ position.stop = position.entry + IF position.side = "long" THEN -StopDistance ELSE StopDistance
    /\ position.target = position.entry + IF position.side = "long" THEN TargetDistance ELSE -TargetDistance
    /\ bar - position.opened \in 1..MaxHeld

TestInv ==
    /\ bar \in Nat
    /\ position = B!NoPosition \/ Opened
    /\ AllBounded(trades)

LEMMA NoTrades == AllBounded(<< >>)
<1> DEFINE Z == {}
<1>1. << >> \in Seq(Z)
  OBVIOUS
<1>2. \A t \in Z : Bounded(t)
  OBVIOUS
<1> HIDE DEF Z
<1> QED
  BY <1>1, <1>2, Zenon DEF AllBounded

LEMMA EntryOpens ==
    ASSUME bar \in Nat, NEW side \in {"long", "short"}, NEW close \in Prices,
           position' = B!enter(side, close), bar' = bar + 1
    PROVE  Opened'
<1> DEFINE e == B!enter(side, close)
           fill == B!applySlippage(close, side = "long")
<1>1. /\ close \in Int /\ StopDistance \in Nat /\ TargetDistance \in Nat /\ Slippage \in Nat
      /\ MaxHeld \in Nat \ {0}
  BY BacktestAssumption
<1>2. fill \in Int
  BY <1>1 DEF B!applySlippage
<1>3. /\ e.side = side /\ e.entry = fill /\ e.opened = bar
      /\ e.stop = fill - (IF side = "long" THEN 1 ELSE -1) * StopDistance
      /\ e.target = fill + (IF side = "long" THEN 1 ELSE -1) * TargetDistance
  BY DEF B!enter
<1> HIDE DEF e, fill
<1>4. /\ e.stop = e.entry + IF side = "long" THEN -StopDistance ELSE StopDistance
      /\ e.target = e.entry + IF side = "long" THEN TargetDistance ELSE -TargetDistance
  <2>1. CASE side = "long"
    BY <1>1, <1>2, <1>3, <2>1
  <2>2. CASE side = "short"
    BY <1>1, <1>2, <1>3, <2>2
  <2> QED
    BY <2>1, <2>2
<1>5. (bar + 1) - bar = 1 /\ 1 \in 1..MaxHeld
  BY <1>1
<1>6. position' = e
  BY DEF e
<1> QED
  BY <1>1, <1>2, <1>3, <1>4, <1>5, <1>6 DEF Opened

LEMMA CandleOrdered ==
    ASSUME NEW c \in B!Candle
    PROVE  /\ c.low \in Int /\ c.high \in Int /\ c.close \in Int
           /\ c.low <= c.close /\ c.close <= c.high
<1>1. Prices \subseteq Int
  BY BacktestAssumption
<1>2. /\ c.low \in Prices /\ c.high \in Prices /\ c.close \in Prices
      /\ c.low <= c.close /\ c.close <= c.high
  BY DEF B!Candle
<1> QED
  BY <1>1, <1>2

LEMMA ExitBounded ==
    ASSUME bar \in Nat, Opened, NEW c \in B!Candle, NEW signal, B!exitReason(c, signal) # "none"
    PROVE  Bounded(B!closed(c, B!exitReason(c, signal)))
<1> DEFINE reason == B!exitReason(c, signal)
           level == CASE reason = "stop_loss" -> position.stop
                      [] reason = "take_profit" -> position.target
                      [] OTHER -> c.close
           exit == B!applySlippage(level, position.side = "short")
           t == B!closed(c, reason)
<1>1. /\ c.low \in Int /\ c.high \in Int /\ c.close \in Int
      /\ c.low <= c.close /\ c.close <= c.high
  BY CandleOrdered
<1>2. /\ t.side = position.side /\ t.entry = position.entry /\ t.exit = exit
      /\ t.barsHeld = bar - position.opened
  BY DEF B!closed
<1>3. /\ StopDistance \in Nat /\ TargetDistance \in Nat /\ Slippage \in Nat
  BY BacktestAssumption
<1>4. reason # "stop_loss" => ~B!stopped(c)
  BY DEF B!exitReason
<1>5. exit = IF position.side = "short" THEN level + Slippage ELSE level - Slippage
  BY DEF B!applySlippage
<1>6. level \in Int /\ Against(position.side, position.entry, level) <= StopDistance
  <2> HIDE DEF reason
  <2>1. CASE reason = "stop_loss"
    <3>1. level = position.stop
      BY <2>1
    <3> QED
      BY <3>1, <1>3 DEF Opened, Against
  <2>2. CASE reason = "take_profit"
    <3>1. level = position.target
      BY <2>2
    <3> QED
      BY <3>1, <1>3 DEF Opened, Against
  <2>3. CASE reason \notin {"stop_loss", "take_profit"}
    <3>1. level = c.close
      BY <2>3
    <3>2. ~B!stopped(c)
      BY <1>4, <2>3
    <3> QED
      BY <3>1, <3>2, <1>1, <1>3 DEF Opened, Against, B!stopped
  <2> QED
    BY <2>1, <2>2, <2>3
<1> HIDE DEF level, exit, t
<1>7. Against(position.side, position.entry, exit) <= StopDistance + Slippage
  BY <1>3, <1>5, <1>6 DEF Opened, Against
<1>8. bar - position.opened \in 1..MaxHeld
  BY DEF Opened
<1>9. Bounded(t)
  BY <1>2, <1>7, <1>8 DEF Bounded
<1> QED
  BY <1>9 DEF t

LEMMA NotOverdue ==
    ASSUME bar \in Nat, Opened, NEW c, NEW signal, B!exitReason(c, signal) = "none",
           position' = position, bar' = bar + 1
    PROVE  Opened'
<1>1. ~(bar - position.opened >= MaxHeld)
  BY DEF B!exitReason
<1>2. bar - position.opened \in 1..MaxHeld /\ position.opened \in Nat /\ MaxHeld \in Nat
  BY BacktestAssumption DEF Opened
<1>3. (bar + 1) - position.opened \in 1..MaxHeld
  BY <1>1, <1>2
<1> QED
  BY <1>3 DEF Opened

LEMMA TradesGrow ==
    ASSUME NEW ts, AllBounded(ts), NEW u, Bounded(u)
    PROVE  AllBounded(Append(ts, u))
<1>1. PICK Z : ts \in Seq(Z) /\ \A t \in Z : Bounded(t)
  BY DEF AllBounded
<1> DEFINE Y == Z \union {u}
<1>2. ts \in Seq(Y)
  BY <1>1
<1>3. \A t \in Y : Bounded(t)
  BY <1>1
<1>4. u \in Y
  OBVIOUS
<1> HIDE DEF Y
<1>5. Append(ts, u) \in Seq(Y)
  BY <1>2, <1>4
<1> QED
  BY <1>3, <1>5, Zenon DEF AllBounded

LEMMA BarKeepsTrades ==
    ASSUME TestInv, NEW c \in B!Candle, NEW signal \in {"BUY", "SELL", "HOLD"}, B!Bar(c, signal)
    PROVE  TestInv'
<1>1. bar \in Nat /\ bar' = bar + 1 /\ bar' \in Nat
  BY DEF TestInv, B!Bar
<1>2. AllBounded(trades)
  BY DEF TestInv
<1>3. c.close \in Prices
  BY DEF B!Candle
<1>4. CASE position = B!NoPosition
  <2>1. /\ trades' = trades
        /\ position' = CASE signal = "BUY" -> B!enter("long", c.close)
                         [] signal = "SELL" -> B!enter("short", c.close)
                         [] OTHER -> B!NoPosition
    BY <1>4 DEF B!Bar
  <2>2. CASE signal = "BUY"
    BY <1>1, <1>2, <1>3, <2>1, <2>2, EntryOpens DEF TestInv
  <2>3. CASE signal = "SELL"
    BY <1>1, <1>2, <1>3, <2>1, <2>3, EntryOpens DEF TestInv
  <2>4. CASE signal = "HOLD"
    BY <1>1, <1>2, <2>1, <2>4 DEF TestInv, B!NoPosition
  <2> QED
    BY <2>2, <2>3, <2>4
<1>5. CASE position # B!NoPosition /\ B!exitReason(c, signal) = "none"
  <2>1. position' = position /\ trades' = trades
    BY <1>5 DEF B!Bar
  <2>2. Opened'
    BY <1>1, <1>5, <2>1, NotOverdue DEF TestInv
  <2> QED
    BY <1>1, <1>2, <2>1, <2>2 DEF TestInv
<1>6. CASE position # B!NoPosition /\ B!exitReason(c, signal) # "none"
  <2> DEFINE u == B!closed(c, B!exitReason(c, signal))
  <2>1. position' = B!NoPosition /\ trades' = Append(trades, u)
    BY <1>6 DEF B!Bar
  <2>2. Bounded(u)
    BY <1>1, <1>6, ExitBounded DEF TestInv
  <2> HIDE DEF u
  <2>3. AllBounded(trades')
    BY <1>2, <2>1, <2>2, TradesGrow
  <2> QED
    BY <1>1, <2>1, <2>3 DEF TestInv, B!NoPosition
<1> QED
  BY <1>4, <1>5, <1>6

LEMMA StartKeepsTrades == ASSUME NEW p, NEW amount, B!Start(p, amount) PROVE TestInv'
<1>1. bar' \in Nat /\ position' = B!NoPosition /\ trades' = << >>
  BY BacktestAssumption DEF B!Start
<1>2. AllBounded(trades')
  BY <1>1, NoTrades
<1> QED
  BY <1>1, <1>2 DEF TestInv, B!NoPosition

LEMMA TestStep == TestInv /\ [B!Next]_backtestVars => TestInv'
<1> SUFFICES ASSUME TestInv, [B!Next]_backtestVars PROVE TestInv'
  OBVIOUS
<1>1. ASSUME NEW c \in B!Candle, NEW signal \in {"BUY", "SELL", "HOLD"}, B!Bar(c, signal) PROVE TestInv'
  BY <1>1, BarKeepsTrades
<1>2. CASE B!Test
  BY <1>2, StartKeepsTrades DEF B!Test
<1>3. CASE B!NextWindow
  <2>1. CASE window < Windows
    BY <1>3, <2>1, StartKeepsTrades DEF B!NextWindow
  <2>2. CASE ~(window < Windows)
    <3>1. UNCHANGED <<bar, position, trades>>
      BY <1>3, <2>2 DEF B!NextWindow
    <3> QED
      BY <3>1 DEF TestInv, Opened, B!NoPosition
  <2> QED
    BY <2>1, <2>2
<1>4. CASE UNCHANGED backtestVars
  BY <1>4 DEF backtestVars, TestInv, Opened, B!NoPosition
<1> QED
  BY <1>1, <1>2, <1>3, <1>4 DEF B!Next

LEMMA TestHolds == Spec => [](part = "backtest" => TestInv)
<1>1. Init => (part = "backtest" => TestInv)
  <2> SUFFICES ASSUME Init, part = "backtest" PROVE TestInv
    OBVIOUS
  <2>1. bar \in Nat /\ position = B!NoPosition /\ trades = << >>
    BY BacktestAssumption DEF Init, B!Init
  <2>2. AllBounded(trades)
    BY <2>1, NoTrades
  <2> QED
    BY <2>1, <2>2 DEF TestInv, B!NoPosition
<1>2. (part = "backtest" => TestInv) /\ [Next]_vars => (part = "backtest" => TestInv)'
  BY TestMoves, TestStep
<1> QED
  BY <1>1, <1>2, PTL DEF Spec

(* No trade of a backtest is held past its time, ends in the bar it began  *)
(* in, or loses more per unit than its stop and the slippage of its exit   *)
(* (backtester/engine.ts).                                                 *)
THEOREM TradesStopInTime == Spec => [](part = "backtest" => B!TradesBounded)
<1>1. (part = "backtest" => TestInv) => (part = "backtest" => B!TradesBounded)
  <2> SUFFICES ASSUME TestInv PROVE B!TradesBounded
    OBVIOUS
  <2>1. PICK Z : trades \in Seq(Z) /\ \A t \in Z : Bounded(t)
    BY DEF TestInv, AllBounded
  <2>2. \A i \in DOMAIN trades : Bounded(trades[i])
    BY <2>1
  <2> QED
    BY <2>2 DEF B!TradesBounded, Bounded, Against
<1> QED
  BY <1>1, TestHolds, PTL

-----------------------------------------------------------------------------
(* RunArchive, for any processes and parameters, that write and are        *)
(* stopped in any order.                                                   *)

(* A behaviour of the archive is one of RunArchive.                        *)
LEMMA ArchiveMoves ==
    [Next]_vars => part' = part /\ (part = "archive" => [R!Next]_archiveVars)
  BY DEF Next, vars

(* A list of runs that have ended and whose snapshots are there.           *)
Listed(s) ==
    /\ s \in Seq(Processes)
    /\ \A i \in DOMAIN s : s[i] \in DOMAIN snapshots /\ step[s[i]] = "done"
    /\ \A i, j \in DOMAIN s : s[i] = s[j] => i = j

KeptCosts(w) == w.costs # w.measured.costs => w.sweep

ArchiveInv ==
    /\ step = [p \in Processes |-> step[p]] /\ work = [p \in Processes |-> work[p]]
    /\ loaded = [p \in Processes |-> loaded[p]]
    /\ index = [ok |-> index.ok, runs |-> index.runs] /\ Listed(index.runs)
    /\ \A p \in Processes :
          /\ step[p] \in {"saved", "loaded", "writing"} => p \in DOMAIN snapshots
          /\ step[p] \in {"loaded", "writing"} => Listed(loaded[p].runs)
          /\ step[p] = "tested" => KeptCosts(work[p])
    /\ \A p \in DOMAIN snapshots : KeptCosts(snapshots[p])

(* What is listed stays so while snapshots are added and runs end.         *)
LEMMA ListedStays ==
    ASSUME NEW s, Listed(s), DOMAIN snapshots \subseteq DOMAIN snapshots',
           \A p \in Processes : step[p] = "done" => step'[p] = "done"
    PROVE  Listed(s)'
<1>1. \A i \in DOMAIN s : s[i] \in Processes
  BY DEF Listed
<1> QED
  BY <1>1 DEF Listed

LEMMA RunGoes ==
    ASSUME ArchiveInv, NEW p \in Processes, NEW from, NEW to, R!goes(p, from, to), from # "done"
    PROVE  /\ step[p] = from /\ step'[p] = to
           /\ \A q \in Processes \ {p} : step'[q] = step[q]
           /\ step' = [q \in Processes |-> step'[q]]
           /\ \A q \in Processes : step[q] = "done" => step'[q] = "done"
  BY DEF R!goes, ArchiveInv

LEMMA SnapshotKeepsArchive == ASSUME ArchiveInv, NEW p \in Processes, R!WriteSnapshot(p) PROVE ArchiveInv'
<1>1. /\ step[p] = "tested" /\ step'[p] = "saved"
      /\ \A q \in Processes \ {p} : step'[q] = step[q]
      /\ step' = [q \in Processes |-> step'[q]]
      /\ \A q \in Processes : step[q] = "done" => step'[q] = "done"
  BY RunGoes DEF R!WriteSnapshot
<1>2. /\ UNCHANGED <<work, loaded, index>>
      /\ DOMAIN snapshots' = DOMAIN snapshots \union {p}
      /\ \A q \in DOMAIN snapshots' : snapshots'[q] = IF q = p THEN work[p] ELSE snapshots[q]
  BY DEF R!WriteSnapshot, R!stored
<1>3. \A s : Listed(s) => Listed(s)'
  BY <1>1, <1>2, ListedStays
<1>4. KeptCosts(work[p])
  BY <1>1 DEF ArchiveInv
<1>5. \A q \in DOMAIN snapshots' : KeptCosts(snapshots'[q])
  BY <1>2, <1>4 DEF ArchiveInv
<1> QED
  BY <1>1, <1>2, <1>3, <1>5 DEF ArchiveInv

(* A step of a run that adds no snapshot and nothing to the index.         *)
LEMMA MovesKeepArchive ==
    ASSUME ArchiveInv, NEW p \in Processes, NEW from, NEW to, R!goes(p, from, to), from # "done",
           UNCHANGED snapshots, work' = [q \in Processes |-> work'[q]], loaded' = [q \in Processes |-> loaded'[q]],
           \A q \in Processes \ {p} : work'[q] = work[q] /\ loaded'[q] = loaded[q],
           index' = [ok |-> index'.ok, runs |-> index'.runs], Listed(index'.runs) \/ index'.runs = << >>,
           to \in {"saved", "loaded", "writing"} => p \in DOMAIN snapshots,
           to \in {"loaded", "writing"} => Listed(loaded'[p].runs),
           to = "tested" => KeptCosts(work'[p])
    PROVE  ArchiveInv'
<1>1. /\ step[p] = from /\ step'[p] = to
      /\ \A q \in Processes \ {p} : step'[q] = step[q]
      /\ step' = [q \in Processes |-> step'[q]]
      /\ \A q \in Processes : step[q] = "done" => step'[q] = "done"
  BY RunGoes
<1>2. \A s : Listed(s) => Listed(s)'
  BY <1>1, ListedStays
<1>3. Listed(<< >>)'
  BY DEF Listed
<1>4. Listed(index.runs)'
  BY <1>2, <1>3
<1>5. ASSUME NEW q \in Processes
      PROVE  /\ step'[q] \in {"saved", "loaded", "writing"} => q \in DOMAIN snapshots'
             /\ step'[q] \in {"loaded", "writing"} => Listed(loaded[q].runs)'
             /\ step'[q] = "tested" => KeptCosts(work'[q])
  <2>1. CASE q = p
    BY <1>1, <1>2, <2>1
  <2>2. CASE q # p
    <3>1. step'[q] = step[q] /\ work'[q] = work[q] /\ loaded'[q] = loaded[q]
      BY <1>1, <2>2
    <3> QED
      BY <1>2, <3>1 DEF ArchiveInv
  <2> QED
    BY <2>1, <2>2
<1>6. \A q \in DOMAIN snapshots' : KeptCosts(snapshots'[q])
  BY DEF ArchiveInv
<1> QED
  BY <1>1, <1>4, <1>5, <1>6 DEF ArchiveInv

(* What a run measures it keeps with the costs it measured with, unless it *)
(* sweeps.                                                                 *)
LEMMA TestingKeepsArchive ==
    ASSUME ArchiveInv, NEW p \in Processes, NEW costs, R!Test(p, costs) \/ R!Sweep(p, costs)
    PROVE  ArchiveInv'
<1>1. /\ R!goes(p, "idle", "tested") /\ UNCHANGED <<loaded, snapshots, index>>
      /\ work' = [work EXCEPT ![p] = work'[p]]
      /\ KeptCosts(work'[p])
  <2>1. CASE R!Test(p, costs)
    BY <2>1 DEF R!Test, KeptCosts, ArchiveInv
  <2>2. CASE R!Sweep(p, costs)
    BY <2>2 DEF R!Sweep, KeptCosts, ArchiveInv
  <2> QED
    BY <2>1, <2>2
<1>2. work' = [q \in Processes |-> work'[q]] /\ \A q \in Processes \ {p} : work'[q] = work[q]
  BY <1>1 DEF ArchiveInv
<1>3. index' = [ok |-> index'.ok, runs |-> index'.runs] /\ Listed(index'.runs)
  BY <1>1 DEF ArchiveInv
<1>4. loaded' = [q \in Processes |-> loaded'[q]] /\ \A q \in Processes \ {p} : loaded'[q] = loaded[q]
  BY <1>1 DEF ArchiveInv
<1> QED
  BY <1>1, <1>2, <1>3, <1>4, MovesKeepArchive

LEMMA QuietKeepsArchive ==
    ASSUME ArchiveInv, NEW p \in Processes,
           R!NothingRan(p) \/ R!LoadIndex(p) \/ R!EmptyIndex(p) \/ R!Stop(p)
    PROVE  ArchiveInv'
<1>1. /\ work = [q \in Processes |-> work[q]] /\ loaded = [q \in Processes |-> loaded[q]]
      /\ index = [ok |-> index.ok, runs |-> index.runs] /\ Listed(index.runs)
  BY DEF ArchiveInv
<1>2. CASE R!NothingRan(p)
  <2>1. R!goes(p, "idle", "failed") /\ UNCHANGED <<work, loaded, snapshots, index>>
    BY <1>2 DEF R!NothingRan
  <2> QED
    BY <1>1, <2>1, MovesKeepArchive
<1>3. CASE R!LoadIndex(p)
  <2>1. /\ R!goes(p, "saved", IF index = R!Broken THEN "failed" ELSE "loaded")
        /\ loaded' = [loaded EXCEPT ![p] = index] /\ UNCHANGED <<work, snapshots, index>>
    BY <1>3 DEF R!LoadIndex
  <2>2. p \in DOMAIN snapshots
    BY <2>1 DEF R!goes, ArchiveInv
  <2>3. loaded'[p] = index /\ loaded' = [q \in Processes |-> loaded'[q]]
        /\ \A q \in Processes \ {p} : loaded'[q] = loaded[q]
    BY <1>1, <2>1
  <2> QED
    BY <1>1, <2>1, <2>2, <2>3, MovesKeepArchive
<1>4. CASE R!EmptyIndex(p)
  <2>1. R!goes(p, "loaded", "writing") /\ index' = R!Broken /\ UNCHANGED <<work, loaded, snapshots>>
    BY <1>4 DEF R!EmptyIndex
  <2>2. p \in DOMAIN snapshots /\ Listed(loaded[p].runs)
    BY <2>1 DEF R!goes, ArchiveInv
  <2>3. index' = [ok |-> index'.ok, runs |-> index'.runs] /\ index'.runs = << >>
    BY <2>1 DEF R!Broken
  <2> QED
    BY <1>1, <2>1, <2>2, <2>3, MovesKeepArchive
<1>5. CASE R!Stop(p)
  <2>1. /\ step[p] # "done" /\ R!goes(p, step[p], "failed")
        /\ UNCHANGED <<work, loaded, snapshots, index>>
    BY <1>5 DEF R!Stop, R!goes
  <2> QED
    BY <1>1, <2>1, MovesKeepArchive
<1> QED
  BY <1>2, <1>3, <1>4, <1>5

(* A run that writes the index was in none that was read before it ended.  *)
LEMMA IndexKeepsArchive == ASSUME ArchiveInv, NEW p \in Processes, R!WriteIndex(p) PROVE ArchiveInv'
<1>0. PICK before : before = loaded[p].runs
  OBVIOUS
<1>1. /\ step[p] = "writing" /\ step'[p] = "done"
      /\ \A q \in Processes \ {p} : step'[q] = step[q]
      /\ step' = [q \in Processes |-> step'[q]]
      /\ \A q \in Processes : step[q] = "done" => step'[q] = "done"
  BY RunGoes DEF R!WriteIndex
<1>2. index' = [ok |-> TRUE, runs |-> Append(before, p)] /\ UNCHANGED <<work, loaded, snapshots>>
  BY <1>0 DEF R!WriteIndex
<1>3. p \in DOMAIN snapshots /\ Listed(before)
  BY <1>0, <1>1 DEF ArchiveInv
<1>4. \A s : Listed(s) => Listed(s)'
  BY <1>1, <1>2, ListedStays
<1>5. Listed(Append(before, p))'
  <2>1. before \in Seq(Processes) /\ \A i \in DOMAIN before : before[i] # p
    BY <1>1, <1>3 DEF Listed
  <2>2. PICK n \in Nat : n = Len(before) /\ DOMAIN before = 1..n
    BY <2>1
  <2>3. /\ Append(before, p) \in Seq(Processes) /\ DOMAIN Append(before, p) = 1..(n + 1)
        /\ \A i \in 1..n : Append(before, p)[i] = before[i]
        /\ Append(before, p)[n + 1] = p
    BY <2>1, <2>2
  <2>4. /\ \A i \in 1..n : before[i] \in DOMAIN snapshots' /\ step'[before[i]] = "done"
        /\ \A i, j \in 1..n : before[i] = before[j] => i = j
    BY <1>3, <1>4, <2>2 DEF Listed
  <2>5. \A i \in 1..(n + 1) : i \in 1..n \/ i = n + 1
    BY <2>2
  <2>6. \A i \in 1..(n + 1) :
            Append(before, p)[i] \in DOMAIN snapshots' /\ step'[Append(before, p)[i]] = "done"
    BY <1>1, <1>2, <1>3, <2>3, <2>4, <2>5
  <2>7. \A i, j \in 1..(n + 1) : Append(before, p)[i] = Append(before, p)[j] => i = j
    BY <2>1, <2>2, <2>3, <2>4, <2>5
  <2> QED
    BY <2>3, <2>6, <2>7 DEF Listed
<1>6. index'.runs = Append(before, p) /\ index' = [ok |-> index'.ok, runs |-> index'.runs]
  BY <1>2
<1>7. \A q \in DOMAIN snapshots' : KeptCosts(snapshots'[q])
  BY <1>2 DEF ArchiveInv
<1>8. ASSUME NEW q \in Processes
      PROVE  /\ step'[q] \in {"saved", "loaded", "writing"} => q \in DOMAIN snapshots'
             /\ step'[q] \in {"loaded", "writing"} => Listed(loaded[q].runs)'
             /\ step'[q] = "tested" => KeptCosts(work'[q])
  <2>1. CASE q = p
    BY <1>1, <2>1
  <2>2. CASE q # p
    <3>1. step'[q] = step[q]
      BY <1>1, <2>2
    <3> QED
      BY <1>2, <1>4, <3>1 DEF ArchiveInv
  <2> QED
    BY <2>1, <2>2
<1>9. work' = [q \in Processes |-> work'[q]] /\ loaded' = [q \in Processes |-> loaded'[q]]
  BY <1>2 DEF ArchiveInv
<1> QED
  BY <1>1, <1>5, <1>6, <1>7, <1>8, <1>9 DEF ArchiveInv

LEMMA ArchiveStep == ArchiveInv /\ [R!Next]_archiveVars => ArchiveInv'
<1> SUFFICES ASSUME ArchiveInv, [R!Next]_archiveVars PROVE ArchiveInv'
  OBVIOUS
<1>1. CASE UNCHANGED archiveVars
  BY <1>1 DEF archiveVars, ArchiveInv, Listed
<1>2. CASE R!Next
  <2>1. PICK p \in Processes :
            \/ R!NothingRan(p) \/ R!WriteSnapshot(p) \/ R!LoadIndex(p) \/ R!EmptyIndex(p)
            \/ R!WriteIndex(p) \/ R!Stop(p) \/ \E costs : R!Test(p, costs) \/ R!Sweep(p, costs)
    BY <1>2 DEF R!Next
  <2> QED
    BY <2>1, SnapshotKeepsArchive, TestingKeepsArchive, QuietKeepsArchive, IndexKeepsArchive
<1> QED
  BY <1>1, <1>2

(* Every run the index lists has its snapshot, and is listed once, however *)
(* many processes save theirs at a time and wherever one of them stops;    *)
(* and only a sweep keeps other costs than it measured with                *)
(* (backtester/versioning.ts, run.ts).                                     *)
THEOREM IndexNeverMisleads == Spec => [](part = "archive" => R!IndexLoads /\ R!CostsKept)
<1>1. Init => (part = "archive" => ArchiveInv)
  <2> SUFFICES ASSUME Init, part = "archive" PROVE ArchiveInv
    OBVIOUS
  <2>1. /\ step = [p \in Processes |-> "idle"] /\ work = [p \in Processes |-> << >>]
        /\ loaded = [p \in Processes |-> R!Broken] /\ snapshots = << >>
        /\ index = [ok |-> TRUE, runs |-> << >>]
    BY DEF Init, R!Init
  <2>2. Listed(index.runs) /\ DOMAIN snapshots = {}
    BY <2>1 DEF Listed
  <2>3. \A p \in Processes : step[p] = "idle"
    BY <2>1
  <2>4. step = [p \in Processes |-> step[p]] /\ work = [p \in Processes |-> work[p]]
        /\ loaded = [p \in Processes |-> loaded[p]]
    BY <2>1
  <2> QED
    BY <2>1, <2>2, <2>3, <2>4 DEF ArchiveInv
<1>2. (part = "archive" => ArchiveInv) /\ [Next]_vars => (part = "archive" => ArchiveInv)'
  BY ArchiveMoves, ArchiveStep
<1>3. (part = "archive" => ArchiveInv) => (part = "archive" => R!IndexLoads /\ R!CostsKept)
  BY DEF ArchiveInv, Listed, KeptCosts, R!IndexLoads, R!CostsKept, R!Range, R!IsInjective
<1> QED
  BY <1>1, <1>2, <1>3, PTL DEF Spec

-----------------------------------------------------------------------------
(* TradeBooks, for any number of orders, days and passes: the counters of  *)
(* the health report.                                                      *)

(* A behaviour of the books is one of TradeBooks.                          *)
LEMMA BooksMove ==
    [Next]_vars => part' = part /\ (part = "books" => [J!Next]_booksVars)
  BY DEF Next, vars

(* No day has begun for the counters that is still to come, and nothing is *)
(* told of one that they have not got to.                                  *)
CountersInv ==
    /\ today \in 1..MaxDay /\ lastResetDate \in 1..today
    /\ told = [d \in 1..MaxDay |-> told[d]]
    /\ \A d \in 1..MaxDay : d > lastResetDate => told[d] = J!Fresh
    /\ counters = told[lastResetDate]

LEMMA CountersTell == CountersInv => J!CountersOfLastDay
<1> SUFFICES ASSUME CountersInv PROVE J!CountersOfLastDay
  OBVIOUS
<1>1. today \in 1..MaxDay /\ lastResetDate \in 1..today /\ MaxDay \in Nat
  BY BooksAssumption DEF CountersInv
<1>2. \A d \in (lastResetDate + 1)..today : d \in 1..MaxDay /\ d > lastResetDate
  BY <1>1
<1>3. counters = told[lastResetDate] /\ \A d \in (lastResetDate + 1)..today : told[d] = J!Fresh
  BY <1>2 DEF CountersInv
<1> QED
  BY <1>1, <1>3 DEF J!CountersOfLastDay

LEMMA RecordKeepsCounters == ASSUME CountersInv, NEW what, J!record(what), UNCHANGED today PROVE CountersInv'
<1>1. today \in 1..MaxDay /\ lastResetDate \in 1..today /\ MaxDay \in Nat
  BY BooksAssumption DEF CountersInv
<1>2. J!rotated = told[today]
  <2>1. CASE today = lastResetDate
    BY <2>1 DEF J!rotated, CountersInv
  <2>2. CASE today # lastResetDate
    BY <1>1, <2>2 DEF J!rotated, CountersInv
  <2> QED
    BY <2>1, <2>2
<1>3. /\ counters' = J!plus(told[today], what) /\ lastResetDate' = today
      /\ told' = [told EXCEPT ![today] = J!plus(told[today], what)]
  BY <1>2 DEF J!record
<1> HIDE DEF J!plus
<1>4. /\ told' = [d \in 1..MaxDay |-> told'[d]] /\ told'[today] = counters'
      /\ \A d \in 1..MaxDay : d # today => told'[d] = told[d]
  BY <1>1, <1>3 DEF CountersInv
<1>5. \A d \in 1..MaxDay : d > today => told'[d] = J!Fresh
  BY <1>1, <1>4 DEF CountersInv
<1> QED
  BY <1>1, <1>3, <1>4, <1>5 DEF CountersInv

LEMMA BooksStep == CountersInv /\ [J!Next]_booksVars => CountersInv'
<1> SUFFICES ASSUME CountersInv, [J!Next]_booksVars PROVE CountersInv'
  OBVIOUS
<1>1. (\E what : J!record(what)) /\ UNCHANGED today => CountersInv'
  BY RecordKeepsCounters
<1>2. CASE J!Midnight
  <2>1. /\ today < MaxDay /\ today' = today + 1
        /\ UNCHANGED <<counters, lastResetDate, told>>
    BY <1>2 DEF J!Midnight, J!health
  <2>2. today \in 1..MaxDay /\ lastResetDate \in 1..today /\ MaxDay \in Nat
    BY BooksAssumption DEF CountersInv
  <2>3. today' \in 1..MaxDay /\ lastResetDate \in 1..today'
    BY <2>1, <2>2
  <2> QED
    BY <2>1, <2>3 DEF CountersInv
<1>3. CASE J!Crash
  <2>1. /\ counters' = J!Fresh /\ lastResetDate' = today /\ told' = [d \in 1..MaxDay |-> J!Fresh]
        /\ UNCHANGED today
    BY <1>3 DEF J!Crash
  <2>2. today \in 1..MaxDay /\ today \in 1..today
    BY BooksAssumption DEF CountersInv
  <2>3. told' = [d \in 1..MaxDay |-> told'[d]] /\ \A d \in 1..MaxDay : told'[d] = J!Fresh
    BY <2>1
  <2> QED
    BY <2>1, <2>2, <2>3 DEF CountersInv
<1>4. CASE J!Block
  BY <1>1, <1>4 DEF J!Block
<1>5. CASE J!Reconcile
  BY <1>1, <1>5 DEF J!Reconcile
<1>6. CASE J!ReconcileFails
  BY <1>1, <1>6 DEF J!ReconcileFails
<1>7. ASSUME NEW parts, J!Place(parts) PROVE CountersInv'
  BY <1>1, <1>7 DEF J!Place
<1>8. ASSUME NEW o, NEW fee, NEW kept, NEW pnl, J!Confirm(o, fee, kept, pnl) PROVE CountersInv'
  BY <1>1, <1>8 DEF J!Confirm
<1>9. CASE UNCHANGED booksVars
  BY <1>9 DEF booksVars, CountersInv
<1> QED
  BY <1>2, <1>3, <1>4, <1>5, <1>6, <1>7, <1>8, <1>9 DEF J!Next

LEMMA CountersBegin == Init /\ part = "books" => CountersInv
<1> SUFFICES ASSUME Init, part = "books" PROVE CountersInv
  OBVIOUS
<1>1. /\ today = 1 /\ counters = J!Fresh /\ lastResetDate = 1
      /\ told = [d \in 1..MaxDay |-> J!Fresh]
  BY DEF Init, J!Init
<1>2. today \in 1..MaxDay /\ lastResetDate \in 1..today
  BY <1>1, BooksAssumption
<1>3. told = [d \in 1..MaxDay |-> told[d]] /\ \A d \in 1..MaxDay : told[d] = J!Fresh
  BY <1>1
<1> QED
  BY <1>1, <1>2, <1>3 DEF CountersInv

(* What a reader of the health report is told are the counts of the last   *)
(* day on which anything was recorded, wherever midnight and stops of the  *)
(* process fall, whichever call comes first after it: not those of today   *)
(* before anything is recorded today (healthReport.ts).                    *)
THEOREM CountersAreOfTheLastDay == Spec => [](part = "books" => J!CountersOfLastDay)
<1>1. Init => (part = "books" => CountersInv)
  BY CountersBegin
<1>2. (part = "books" => CountersInv) /\ [Next]_vars => (part = "books" => CountersInv)'
  BY BooksMove, BooksStep
<1>3. (part = "books" => CountersInv) => (part = "books" => J!CountersOfLastDay)
  BY CountersTell
<1> QED
  BY <1>1, <1>2, <1>3, PTL DEF Spec

-----------------------------------------------------------------------------
(* Induction along a loop, without an operator for what is claimed: the    *)
(* set of the turns for which it holds.                                    *)

(* A set of turns that has the first, and with a turn the next, has all.   *)
LEMMA Climb ==
    ASSUME NEW m \in Nat, NEW n \in Nat, NEW X,
           m \in X, \A i \in (m + 1)..n : i - 1 \in X => i \in X
    PROVE  \A i \in m..n : i \in X
<1> DEFINE Missed == {i \in m..n : i \notin X}
<1>1. SUFFICES ASSUME Missed # {} PROVE FALSE
  OBVIOUS
<1>2. Missed \in SUBSET Nat
  OBVIOUS
<1>3. PICK k \in Missed : \A x \in Missed : k <= x
  <2> HIDE DEF Missed
  <2> QED
    BY <1>1, <1>2, Least
<1>4. k \in m..n /\ k \notin X /\ k # m
  BY <1>3
<1>5. k \in (m + 1)..n /\ k - 1 \in m..n
  BY <1>4
<1>6. k - 1 \in X
  <2>1. k - 1 \notin Missed
    BY <1>3, <1>5
  <2> QED
    BY <1>5, <2>1
<1> QED
  BY <1>4, <1>5, <1>6

(* A loop has its results: from any start, whatever a turn makes of the    *)
(* result of the turn before it.                                           *)
Looped(m, n, b, Turn, f) == f[m] = b /\ \A i \in (m + 1)..n : f[i] = Turn[i][f[i - 1]]

LEMMA LoopRuns ==
    ASSUME NEW m \in Nat, NEW n \in Nat, m <= n, NEW V, NEW b \in V,
           NEW Turn \in [(m + 1)..n -> [V -> V]]
    PROVE  \E f \in [m..n -> V] : Looped(m, n, b, Turn, f)
<1> DEFINE X == {k \in m..n : \E f \in [m..k -> V] : Looped(m, k, b, Turn, f)}
<1>1. m \in X
  <2>1. [i \in m..m |-> b] \in [m..m -> V]
    OBVIOUS
  <2>2. Looped(m, m, b, Turn, [i \in m..m |-> b])
    BY DEF Looped
  <2>3. \E f \in [m..m -> V] : Looped(m, m, b, Turn, f)
    BY <2>1, <2>2, Zenon
  <2>4. m \in m..n
    OBVIOUS
  <2> QED
    BY <2>3, <2>4, Zenon
<1>2. ASSUME NEW i \in (m + 1)..n, i - 1 \in X PROVE i \in X
  <2>1. PICK f \in [m..(i - 1) -> V] : Looped(m, i - 1, b, Turn, f)
    BY <1>2
  <2> DEFINE g == [k \in m..i |-> IF k = i THEN Turn[i][f[i - 1]] ELSE f[k]]
  <2>2. Turn[i] \in [V -> V] /\ f[i - 1] \in V
    OBVIOUS
  <2>3. Turn[i][f[i - 1]] \in V
    BY <2>2
  <2>4. \A k \in m..i : k # i => k \in m..(i - 1)
    OBVIOUS
  <2>5. g \in [m..i -> V]
    BY <2>3, <2>4
  <2>6. Looped(m, i, b, Turn, g)
    <3>1. g[m] = b
      BY <2>1 DEF Looped
    <3>2. ASSUME NEW k \in (m + 1)..i PROVE g[k] = Turn[k][g[k - 1]]
      <4>1. CASE k = i
        <5>1. g[k] = Turn[i][f[i - 1]] /\ g[i - 1] = f[i - 1]
          BY <4>1
        <5> QED
          BY <4>1, <5>1
      <4>2. CASE k # i
        <5>1. k \in (m + 1)..(i - 1) /\ k - 1 \in m..i /\ k - 1 # i
          BY <4>2
        <5>2. g[k] = f[k] /\ g[k - 1] = f[k - 1]
          BY <4>2, <5>1
        <5> QED
          BY <2>1, <5>1, <5>2 DEF Looped
      <4> QED
        BY <4>1, <4>2
    <3> QED
      BY <3>1, <3>2 DEF Looped
  <2> HIDE DEF g
  <2>7. i \in m..n
    OBVIOUS
  <2> QED
    BY <2>5, <2>6, <2>7
<1>3. n \in X
  <2> HIDE DEF X
  <2>1. \A i \in m..n : i \in X
    BY <1>1, <1>2, Climb
  <2> QED
    BY <2>1
<1> QED
  BY <1>3

-----------------------------------------------------------------------------
(* RunArchive, for any sweep: the half of ArchiveSound that is about what  *)
(* a snapshot says of itself.                                              *)

Tried == UNION {{Values[k][j] : j \in DOMAIN Values[k]} : k \in DOMAIN Values}
KeysTo(n) == {Keys[i] : i \in 1..n}
Lists == UNION {Seq([Ks -> Tried]) : Ks \in SUBSET DOMAIN Values}

(* One key more in each combination.                                       *)
LEMMA DivMod ==
    ASSUME NEW a \in Nat, NEW w \in Nat \ {0}
    PROVE  /\ a \div w \in Nat /\ a % w \in 0..(w - 1)
           /\ a = (w * (a \div w)) + (a % w)
  OBVIOUS

Within(w, q, r, l) == (w * q) + r < l * w

LEMMA QuotientBelow ==
    ASSUME NEW l \in Nat, NEW w \in Nat, NEW q \in Nat, NEW r \in Nat, Within(w, q, r, l)
    PROVE  q < l
<1>1. SUFFICES ASSUME ~(q < l) PROVE FALSE
  OBVIOUS
<1>2. PICK d \in Nat : q = l + d
  <2>1. q - l \in Nat /\ q = l + (q - l)
    BY <1>1
  <2> QED
    BY <2>1
<1>3. w * q = l * w + w * d /\ w * d \in Nat
  BY <1>2
<1> QED
  BY <1>3 DEF Within

LEMMA SeqByIndex ==
    ASSUME NEW n \in Nat, NEW s, s = [i \in 1..n |-> s[i]], NEW Z, \A i \in 1..n : s[i] \in Z
    PROVE  s \in Seq(Z) /\ Len(s) = n /\ DOMAIN s = 1..n
  OBVIOUS

LEMMA GrownType ==
    ASSUME NEW n \in 1..Len(Keys), NEW Ks \in SUBSET DOMAIN Values, NEW combos \in Seq([Ks -> Tried])
    PROVE  R!grown(combos, n) \in Seq([Ks \union {Keys[n]} -> Tried])
<1>1. Keys[n] \in DOMAIN Values /\ Values[Keys[n]] \in Seq(Int) /\ Values[Keys[n]] # << >>
  BY ArchiveAssumption
<1>2. PICK vals : vals = Values[Keys[n]]
  OBVIOUS
<1>3. PICK w \in Nat : w = Len(vals) /\ w > 0 /\ DOMAIN vals = 1..w
  BY <1>1, <1>2
<1>4. PICK l \in Nat : l = Len(combos) /\ DOMAIN combos = 1..l
  OBVIOUS
<1>5. l * w \in Nat
  BY <1>3, <1>4
<1>6. R!grown(combos, n) =
          [i \in 1..(l * w) |-> R!extended(combos[((i - 1) \div w) + 1], Keys[n], vals[((i - 1) % w) + 1])]
  BY <1>2, <1>3, <1>4 DEF R!grown
<1>7. \A j \in 1..w : vals[j] \in Tried
  BY <1>1, <1>2, <1>3 DEF Tried
<1>8. ASSUME NEW i \in 1..(l * w)
      PROVE  R!extended(combos[((i - 1) \div w) + 1], Keys[n], vals[((i - 1) % w) + 1])
                 \in [Ks \union {Keys[n]} -> Tried]
  <2>0. PICK a \in Nat : a = i - 1 /\ a < l * w
    BY <1>5
  <2>9. PICK q, r : q = a \div w /\ r = a % w
    OBVIOUS
  <2>1. q \in Nat /\ r \in 0..(w - 1) /\ a = (w * q) + r /\ q = a \div w /\ r = a % w
    <3>1. w \in Nat \ {0}
      BY <1>3
    <3>2. a \div w \in Nat /\ a % w \in 0..(w - 1) /\ a = (w * (a \div w)) + (a % w)
      BY <2>0, <3>1, DivMod, Zenon
    <3> QED
      BY <2>9, <3>2
  <2>2. q < l
    <3>1. r \in Nat /\ Within(w, q, r, l)
      BY <2>0, <2>1 DEF Within
    <3> QED
      BY <1>3, <1>4, <2>1, <3>1, QuotientBelow
  <2>3. combos[q + 1] \in [Ks -> Tried] /\ vals[r + 1] \in Tried
    BY <1>3, <1>4, <1>7, <2>1, <2>2
  <2>4. R!extended(combos[q + 1], Keys[n], vals[r + 1]) \in [Ks \union {Keys[n]} -> Tried]
    BY <2>3 DEF R!extended
  <2> QED
    BY <2>0, <2>1, <2>4
<1>9. \A i \in 1..(l * w) : R!grown(combos, n)[i] \in [Ks \union {Keys[n]} -> Tried]
  BY <1>6, <1>8
<1>10. R!grown(combos, n) = [i \in 1..(l * w) |-> R!grown(combos, n)[i]]
  BY <1>6
<1> DEFINE grown == R!grown(combos, n)
           Z == [Ks \union {Keys[n]} -> Tried]
<1>11. grown = [i \in 1..(l * w) |-> grown[i]] /\ \A i \in 1..(l * w) : grown[i] \in Z
  BY <1>9, <1>10
<1>12. grown \in Seq(Z)
  <2> HIDE DEF grown, Z
  <2> QED
    BY <1>5, <1>11, SeqByIndex
<1> QED
  BY <1>12

LEMMA CombinationsGrow ==
    R!combinations = [n \in 0..Len(Keys) |-> IF n = 0 THEN << << >> >> ELSE R!grown(R!combinations[n - 1], n)]
<1> DEFINE Obeys(g) == g = [n \in 0..Len(Keys) |-> IF n = 0 THEN << << >> >> ELSE R!grown(g[n - 1], n)]
           Turn == [n \in 1..Len(Keys) |-> [l \in Lists |-> R!grown(l, n)]]
<1>1. Len(Keys) \in Nat
  BY ArchiveAssumption
<1>2. << << >> >> \in Lists
  <2>1. << >> \in [{} -> Tried]
    OBVIOUS
  <2>2. << << >> >> \in Seq([{} -> Tried])
    BY <2>1
  <2> QED
    BY <2>2 DEF Lists
<1>3. Turn \in [(0 + 1)..Len(Keys) -> [Lists -> Lists]]
  <2>1. ASSUME NEW n \in 1..Len(Keys), NEW l \in Lists PROVE R!grown(l, n) \in Lists
    <3>1. PICK Ks \in SUBSET DOMAIN Values : l \in Seq([Ks -> Tried])
      BY DEF Lists
    <3>2. R!grown(l, n) \in Seq([Ks \union {Keys[n]} -> Tried])
      BY <3>1, GrownType
    <3>3. Ks \union {Keys[n]} \in SUBSET DOMAIN Values
      BY ArchiveAssumption
    <3> QED
      BY <3>2, <3>3 DEF Lists
  <2> QED
    BY <2>1
<1>4. PICK f \in [0..Len(Keys) -> Lists] : Looped(0, Len(Keys), << << >> >>, Turn, f)
  <2> HIDE DEF Turn
  <2>1. 0 \in Nat /\ 0 <= Len(Keys)
    BY <1>1
  <2> QED
    BY <1>1, <1>2, <1>3, <2>1, LoopRuns, Zenon
<1>5. f[0] = << << >> >> /\ \A n \in 1..Len(Keys) : f[n] = R!grown(f[n - 1], n)
  <2>1. f[0] = << << >> >> /\ \A n \in 1..Len(Keys) : f[n] = Turn[n][f[n - 1]]
    BY <1>4 DEF Looped
  <2>2. \A n \in 1..Len(Keys) : f[n - 1] \in Lists
    BY <1>1
  <2> QED
    BY <2>1, <2>2
<1>6. Obeys(f)
  <2>1. f = [n \in 0..Len(Keys) |-> f[n]]
    BY <1>4
  <2>2. ASSUME NEW n \in 0..Len(Keys) PROVE f[n] = IF n = 0 THEN << << >> >> ELSE R!grown(f[n - 1], n)
    <3>1. CASE n = 0
      BY <1>5, <3>1, Zenon
    <3>2. CASE n # 0
      <4>1. n \in 1..Len(Keys)
        BY <1>1, <3>2
      <4> QED
        BY <1>5, <3>2, <4>1, Zenon
    <3> QED
      BY <3>1, <3>2
  <2> QED
    BY <2>1, <2>2, Zenon
<1>7. R!combinations = CHOOSE g : Obeys(g)
  BY DEF R!combinations
<1> HIDE DEF Obeys
<1>8. Obeys(CHOOSE g : Obeys(g))
  BY <1>6
<1>9. Obeys(R!combinations)
  BY <1>7, <1>8
<1> QED
  BY <1>9 DEF Obeys

(* Every combination has a value for each key.                             *)
LEMMA CombosHaveKeys == R!cartesian \in Seq([KeysTo(Len(Keys)) -> Tried])
<1> DEFINE X == {n \in 0..Len(Keys) : R!combinations[n] \in Seq([KeysTo(n) -> Tried])}
<1>1. Len(Keys) \in Nat
  BY ArchiveAssumption
<1>2. 0 \in X
  <2>1. R!combinations[0] = << << >> >> /\ KeysTo(0) = {}
    BY <1>1, CombinationsGrow DEF KeysTo
  <2>2. << >> \in [{} -> Tried]
    OBVIOUS
  <2>3. << << >> >> \in Seq([{} -> Tried])
    BY <2>2
  <2>4. 0 \in 0..Len(Keys)
    BY <1>1
  <2> QED
    BY <2>1, <2>3, <2>4, Zenon
<1>3. ASSUME NEW n \in (0 + 1)..Len(Keys), n - 1 \in X PROVE n \in X
  <2>1. R!combinations[n] = R!grown(R!combinations[n - 1], n)
    BY <1>1, CombinationsGrow
  <2>2. KeysTo(n - 1) \in SUBSET DOMAIN Values
    BY ArchiveAssumption DEF KeysTo
  <2>3. KeysTo(n) = KeysTo(n - 1) \union {Keys[n]}
    BY <1>1 DEF KeysTo
  <2>4. R!combinations[n] \in Seq([KeysTo(n - 1) \union {Keys[n]} -> Tried])
    <3>1. R!combinations[n - 1] \in Seq([KeysTo(n - 1) -> Tried]) /\ n \in 1..Len(Keys)
      BY <1>3
    <3> QED
      BY <2>1, <2>2, <3>1, GrownType, Zenon
  <2>5. n \in 0..Len(Keys)
    BY <1>1
  <2> QED
    BY <2>3, <2>4, <2>5, Zenon
<1> HIDE DEF X
<1>4. \A n \in 0..Len(Keys) : n \in X
  BY <1>1, <1>2, <1>3, Climb
<1> QED
  BY <1>1, <1>4 DEF X, R!cartesian

(* The combinations that ran are those whose test did not fail.            *)
Image(s) == {s[j] : j \in DOMAIN s}
Combos == {R!cartesian[i] : i \in 1..Len(R!cartesian)}

LEMMA ImageAppend ==
    ASSUME NEW Z, NEW s \in Seq(Z), NEW x \in Z
    PROVE  Append(s, x) \in Seq(Z) /\ Image(Append(s, x)) = Image(s) \union {x}
<1>1. PICK n \in Nat : n = Len(s) /\ DOMAIN s = 1..n
  OBVIOUS
<1>2. /\ Append(s, x) \in Seq(Z) /\ DOMAIN Append(s, x) = 1..(n + 1)
      /\ \A i \in 1..n : Append(s, x)[i] = s[i]
      /\ Append(s, x)[n + 1] = x
  BY <1>1
<1>3. 1..(n + 1) = (1..n) \union {n + 1}
  OBVIOUS
<1> QED
  BY <1>1, <1>2, <1>3 DEF Image

LEMMA RanRuns ==
    R!ran = [i \in 0..Len(R!cartesian) |->
                IF i = 0 THEN << >> ELSE R!tried(R!ran[i - 1], R!cartesian[i])]
<1> DEFINE last == Len(R!cartesian)
           Obeys(g) == g = [i \in 0..last |-> IF i = 0 THEN << >> ELSE R!tried(g[i - 1], R!cartesian[i])]
           V == Seq(Combos)
           Turn == [i \in 1..last |-> [l \in V |-> R!tried(l, R!cartesian[i])]]
<1>1. last \in Nat
  BY CombosHaveKeys
<1>2. << >> \in V
  OBVIOUS
<1>3. Turn \in [(0 + 1)..last -> [V -> V]]
  <2>1. ASSUME NEW i \in 1..last, NEW l \in V PROVE R!tried(l, R!cartesian[i]) \in V
    BY DEF R!tried, Combos
  <2> QED
    BY <2>1
<1>4. PICK f \in [0..last -> V] : Looped(0, last, << >>, Turn, f)
  <2> HIDE DEF Turn, last, V
  <2>1. 0 \in Nat /\ 0 <= last
    BY <1>1
  <2> QED
    BY <1>1, <1>2, <1>3, <2>1, LoopRuns, Zenon
<1>5. f[0] = << >> /\ \A i \in 1..last : f[i] = R!tried(f[i - 1], R!cartesian[i])
  <2>1. f[0] = << >> /\ \A i \in 1..last : f[i] = Turn[i][f[i - 1]]
    BY <1>4 DEF Looped
  <2>2. \A i \in 1..last : f[i - 1] \in V
    <3> HIDE DEF V
    <3> QED
      BY <1>1
  <2> HIDE DEF V, last
  <2> QED
    BY <2>1, <2>2
<1>6. Obeys(f)
  <2> HIDE DEF last, V
  <2>1. f = [i \in 0..last |-> f[i]]
    BY <1>4
  <2>2. ASSUME NEW i \in 0..last PROVE f[i] = IF i = 0 THEN << >> ELSE R!tried(f[i - 1], R!cartesian[i])
    <3>1. CASE i = 0
      BY <1>5, <3>1, Zenon
    <3>2. CASE i # 0
      <4>1. i \in 1..last
        BY <1>1, <3>2
      <4> QED
        BY <1>5, <3>2, <4>1, Zenon
    <3> QED
      BY <3>1, <3>2
  <2> QED
    BY <2>1, <2>2, Zenon
<1>7. R!ran = CHOOSE g : Obeys(g)
  BY DEF R!ran
<1> HIDE DEF Obeys
<1>8. Obeys(CHOOSE g : Obeys(g))
  BY <1>6
<1>9. Obeys(R!ran)
  BY <1>7, <1>8
<1> QED
  BY <1>9 DEF Obeys

LEMMA RanAre ==
    /\ R!results \in Seq(Combos)
    /\ Image(R!results) = {c \in Combos : sharpe[c] >= 0}
<1> DEFINE last == Len(R!cartesian)
           RanTo(i) == {c \in {R!cartesian[j] : j \in 1..i} : sharpe[c] >= 0}
           X == {i \in 0..last : R!ran[i] \in Seq(Combos) /\ Image(R!ran[i]) = RanTo(i)}
<1>1. last \in Nat
  BY CombosHaveKeys
<1>2. 0 \in X
  <2>1. R!ran[0] = << >>
    BY <1>1, RanRuns
  <2>2. Image(<< >>) = {} /\ RanTo(0) = {} /\ << >> \in Seq(Combos)
    BY DEF Image
  <2>3. 0 \in 0..last
    BY <1>1
  <2> HIDE DEF last, RanTo
  <2> QED
    BY <2>1, <2>2, <2>3, Zenon
<1>3. ASSUME NEW i \in (0 + 1)..last, i - 1 \in X PROVE i \in X
  <2> DEFINE c == R!cartesian[i]
             before == R!ran[i - 1]
  <2>1. R!ran[i] = R!tried(before, c) /\ i \in 1..last
    BY <1>1, RanRuns
  <2>2. before \in Seq(Combos) /\ Image(before) = RanTo(i - 1)
    BY <1>3
  <2>3. c \in Combos
    BY <2>1 DEF Combos
  <2>4. RanTo(i) = RanTo(i - 1) \union {d \in {c} : sharpe[d] >= 0}
    <3>1. 1..i = (1..(i - 1)) \union {i}
      BY <1>1
    <3> QED
      BY <3>1
  <2> HIDE DEF c, before, RanTo, last
  <2>5. CASE sharpe[c] >= 0
    <3>1. R!ran[i] = Append(before, c)
      BY <2>1, <2>5 DEF R!tried
    <3>2. RanTo(i) = RanTo(i - 1) \union {c}
      BY <2>4, <2>5
    <3>3. R!ran[i] \in Seq(Combos) /\ Image(R!ran[i]) = RanTo(i)
      BY <2>2, <2>3, <3>1, <3>2, ImageAppend
    <3> QED
      BY <1>1, <3>3
  <2>6. CASE ~(sharpe[c] >= 0)
    <3>1. R!ran[i] = before
      BY <2>1, <2>6 DEF R!tried
    <3>2. RanTo(i) = RanTo(i - 1)
      BY <2>4, <2>6
    <3>3. R!ran[i] \in Seq(Combos) /\ Image(R!ran[i]) = RanTo(i)
      BY <2>2, <3>1, <3>2
    <3> QED
      BY <1>1, <3>3
  <2> QED
    BY <2>5, <2>6
<1>4. last \in X
  <2> HIDE DEF X, last
  <2>1. \A i \in 0..last : i \in X
    BY <1>1, <1>2, <1>3, Climb
  <2> QED
    BY <1>1, <2>1
<1> QED
  BY <1>4 DEF R!results, Combos

LEMMA BestsRun ==
    ASSUME R!results # << >>
    PROVE  R!bests = [i \in 1..Len(R!results) |->
                         IF i = 1 THEN R!results[1] ELSE R!better(R!bests[i - 1], R!results[i])]
<1> DEFINE last == Len(R!results)
           Obeys(g) == g = [i \in 1..last |-> IF i = 1 THEN R!results[1] ELSE R!better(g[i - 1], R!results[i])]
           Turn == [i \in 2..last |-> [c \in Combos |-> R!better(c, R!results[i])]]
<1>1. last \in Nat /\ 1 <= last /\ \A i \in 1..last : R!results[i] \in Combos
  BY RanAre
<1>2. Turn \in [(1 + 1)..last -> [Combos -> Combos]]
  <2>1. ASSUME NEW i \in 2..last, NEW c \in Combos PROVE R!better(c, R!results[i]) \in Combos
    BY <1>1 DEF R!better
  <2> QED
    BY <2>1
<1>3. PICK f \in [1..last -> Combos] : Looped(1, last, R!results[1], Turn, f)
  <2> HIDE DEF Turn, last
  <2>1. R!results[1] \in Combos /\ 1 \in Nat
    BY <1>1
  <2> QED
    BY <1>1, <1>2, <2>1, LoopRuns, Zenon
<1>4. f[1] = R!results[1] /\ \A i \in 2..last : f[i] = R!better(f[i - 1], R!results[i])
  <2>1. f[1] = R!results[1] /\ \A i \in 2..last : f[i] = Turn[i][f[i - 1]]
    BY <1>3 DEF Looped
  <2>2. \A i \in 2..last : f[i - 1] \in Combos
    BY <1>1
  <2> HIDE DEF last
  <2> QED
    BY <2>1, <2>2
<1>5. Obeys(f)
  <2> HIDE DEF last
  <2>1. f = [i \in 1..last |-> f[i]]
    BY <1>3
  <2>2. ASSUME NEW i \in 1..last
        PROVE  f[i] = IF i = 1 THEN R!results[1] ELSE R!better(f[i - 1], R!results[i])
    <3>1. CASE i = 1
      BY <1>4, <3>1, Zenon
    <3>2. CASE i # 1
      <4>1. i \in 2..last
        BY <1>1, <3>2
      <4> QED
        BY <1>4, <3>2, <4>1, Zenon
    <3> QED
      BY <3>1, <3>2
  <2> QED
    BY <2>1, <2>2, Zenon
<1>6. R!bests = CHOOSE g : Obeys(g)
  BY DEF R!bests
<1> HIDE DEF Obeys
<1>7. Obeys(CHOOSE g : Obeys(g))
  BY <1>5
<1>8. Obeys(R!bests)
  BY <1>6, <1>7
<1> QED
  BY <1>8 DEF Obeys

(* The best is one of those that ran, and none of them is better.          *)
LEMMA BestIsBest ==
    ASSUME sharpe \in [Combos -> Int], R!results # << >>
    PROVE  /\ R!bestBySharpe \in Combos
           /\ \A c \in Image(R!results) : sharpe[c] <= sharpe[R!bestBySharpe]
<1> DEFINE last == Len(R!results)
           Top(i) == /\ R!bests[i] \in Combos
                     /\ \A j \in 1..i : sharpe[R!results[j]] <= sharpe[R!bests[i]]
           X == {i \in 1..last : Top(i)}
<1>1. last \in Nat /\ 1 <= last /\ DOMAIN R!results = 1..last /\ \A i \in 1..last : R!results[i] \in Combos
  BY RanAre
<1>2. R!bests[1] = R!results[1] /\ \A i \in 2..last : R!bests[i] = R!better(R!bests[i - 1], R!results[i])
  <2>1. R!bests = [i \in 1..last |-> IF i = 1 THEN R!results[1] ELSE R!better(R!bests[i - 1], R!results[i])]
    BY BestsRun
  <2> HIDE DEF last
  <2> QED
    BY <1>1, <2>1
<1>3. \A c \in Combos : sharpe[c] \in Int
  OBVIOUS
<1>4. 1 \in X
  <2> HIDE DEF last
  <2>1. Top(1)
    BY <1>1, <1>2, <1>3
  <2> QED
    BY <1>1, <2>1
<1>5. ASSUME NEW i \in (1 + 1)..last, i - 1 \in X PROVE i \in X
  <2> HIDE DEF last
  <2>1. PICK a : a = R!bests[i - 1]
    OBVIOUS
  <2>2. PICK b : b = R!results[i]
    OBVIOUS
  <2>3. i \in 2..last /\ i \in 1..last
    BY <1>1
  <2>4. a \in Combos /\ b \in Combos /\ \A j \in 1..(i - 1) : sharpe[R!results[j]] <= sharpe[a]
    BY <1>1, <1>5, <2>1, <2>2, <2>3
  <2>5. R!bests[i] = IF sharpe[a] > sharpe[b] THEN a ELSE b
    BY <1>2, <2>1, <2>2, <2>3 DEF R!better
  <2>6. sharpe[a] \in Int /\ sharpe[b] \in Int
    BY <1>3, <2>4
  <2>7. /\ R!bests[i] \in Combos
        /\ sharpe[a] <= sharpe[R!bests[i]] /\ sharpe[b] <= sharpe[R!bests[i]]
    BY <2>4, <2>5, <2>6
  <2>8. ASSUME NEW j \in 1..i PROVE sharpe[R!results[j]] <= sharpe[R!bests[i]]
    <3>1. CASE j = i
      BY <2>2, <2>7, <3>1
    <3>2. CASE j # i
      <4>1. j \in 1..(i - 1) /\ R!results[j] \in Combos
        BY <1>1, <2>3, <3>2
      <4>2. sharpe[R!results[j]] <= sharpe[a] /\ sharpe[R!results[j]] \in Int /\ sharpe[R!bests[i]] \in Int
        BY <1>3, <2>4, <2>7, <4>1
      <4> QED
        BY <2>6, <2>7, <4>2
    <3> QED
      BY <3>1, <3>2
  <2> QED
    BY <2>3, <2>7, <2>8
<1>6. Top(last)
  <2> HIDE DEF X, last
  <2>1. 1 \in Nat /\ \A i \in 1..last : i \in X
    BY <1>1, <1>4, <1>5, Climb
  <2>2. last \in X
    BY <1>1, <2>1
  <2> QED
    BY <2>2 DEF X
<1> QED
  BY <1>1, <1>6 DEF R!bestBySharpe, Image

(* The best has a value of each parameter, so what it is saved with is it. *)
LEMMA ConfigIsBest ==
    ASSUME R!bestBySharpe \in Combos
    PROVE  R!bestConfig = R!bestBySharpe
<1>1. R!bestBySharpe \in [KeysTo(Len(Keys)) -> Tried]
  BY CombosHaveKeys DEF Combos
<1>2. DOMAIN R!Default = KeysTo(Len(Keys))
  <2>1. DOMAIN Keys = 1..Len(Keys)
    BY ArchiveAssumption
  <2>2. DOMAIN R!Default = R!Range(Keys)
    BY DEF R!Default
  <2>3. R!Range(Keys) = {Keys[i] : i \in DOMAIN Keys}
    BY DEF R!Range
  <2> QED
    BY <2>1, <2>2, <2>3 DEF KeysTo
<1>3. DOMAIN R!bestBySharpe \union DOMAIN R!Default = DOMAIN R!bestBySharpe
  BY <1>1, <1>2
<1>4. R!bestConfig = [k \in DOMAIN R!bestBySharpe |-> R!bestBySharpe[k]]
  BY <1>3 DEF R!bestConfig
<1> QED
  BY <1>1, <1>4

(* What a snapshot says of itself: the parameters it was measured with,    *)
(* and of a sweep that none that ran did better.                           *)
Measured(w) ==
    /\ w.params = w.measured.params
    /\ w.sweep => \A c \in Combos : sharpe[c] >= 0 => sharpe[c] <= sharpe[w.params]

MeasuredInv ==
    /\ sharpe \in [Combos -> Int]
    /\ step = [p \in Processes |-> step[p]] /\ work = [p \in Processes |-> work[p]]
    /\ \A p \in Processes : step[p] = "tested" => Measured(work[p])
    /\ \A p \in DOMAIN snapshots : Measured(snapshots[p])

LEMMA SweepMeasures ==
    ASSUME MeasuredInv, NEW p \in Processes, NEW costs, R!Sweep(p, costs)
    PROVE  Measured(work'[p])
<1>1. R!results # << >> /\ work'[p] = [sweep |-> TRUE, params |-> R!bestConfig, costs |-> costs, warned |-> R!warning,
                          measured |-> [params |-> R!bestBySharpe, costs |-> R!DefaultCosts]]
  BY DEF R!Sweep, MeasuredInv
<1>2. R!bestBySharpe \in Combos /\ \A c \in Image(R!results) : sharpe[c] <= sharpe[R!bestBySharpe]
  BY <1>1, BestIsBest DEF MeasuredInv
<1>3. \A c \in Combos : sharpe[c] >= 0 => c \in Image(R!results)
  BY RanAre
<1>4. R!bestConfig = R!bestBySharpe
  BY <1>2, ConfigIsBest
<1> QED
  BY <1>1, <1>2, <1>3, <1>4 DEF Measured

LEMMA MeasuredStep == MeasuredInv /\ [R!Next]_archiveVars => MeasuredInv'
<1> SUFFICES ASSUME MeasuredInv, [R!Next]_archiveVars PROVE MeasuredInv'
  OBVIOUS
<1>1. sharpe' = sharpe
  BY DEF archiveVars, R!Next, R!NothingRan, R!WriteSnapshot, R!LoadIndex, R!EmptyIndex, R!WriteIndex,
         R!Stop, R!Test, R!Sweep
<1>2. \A w : Measured(w) => Measured(w)'
  BY <1>1 DEF Measured
<1>3. CASE UNCHANGED archiveVars
  BY <1>3 DEF archiveVars, MeasuredInv, Measured
<1>4. ASSUME NEW p \in Processes, NEW from, NEW to, R!goes(p, from, to), to # "tested",
             UNCHANGED <<work, snapshots>>
      PROVE  MeasuredInv'
  <2>1. /\ step'[p] = to /\ \A q \in Processes \ {p} : step'[q] = step[q]
        /\ step' = [q \in Processes |-> step'[q]]
    BY <1>4 DEF R!goes, MeasuredInv
  <2> QED
    BY <1>1, <1>2, <1>4, <2>1 DEF MeasuredInv
<1>5. ASSUME NEW p \in Processes, NEW costs, R!Test(p, costs) \/ R!Sweep(p, costs) PROVE MeasuredInv'
  <2>1. /\ R!goes(p, "idle", "tested") /\ UNCHANGED snapshots
        /\ work' = [work EXCEPT ![p] = work'[p]]
    BY <1>5 DEF R!Test, R!Sweep, MeasuredInv
  <2>2. Measured(work'[p])
    <3>1. CASE R!Test(p, costs)
      BY <3>1 DEF R!Test, MeasuredInv, Measured
    <3>2. CASE R!Sweep(p, costs)
      BY <3>2, SweepMeasures
    <3> QED
      BY <1>5, <3>1, <3>2
  <2>3. /\ \A q \in Processes \ {p} : step'[q] = step[q] /\ work'[q] = work[q]
        /\ step' = [q \in Processes |-> step'[q]] /\ work' = [q \in Processes |-> work'[q]]
    BY <2>1 DEF R!goes, MeasuredInv
  <2> QED
    BY <1>1, <1>2, <2>1, <2>2, <2>3 DEF MeasuredInv
<1>6. ASSUME NEW p \in Processes, R!WriteSnapshot(p) PROVE MeasuredInv'
  <2>1. /\ step[p] = "tested" /\ step' = [step EXCEPT ![p] = "saved"] /\ work' = work
        /\ DOMAIN snapshots' = DOMAIN snapshots \union {p}
        /\ \A q \in DOMAIN snapshots' : snapshots'[q] = IF q = p THEN work[p] ELSE snapshots[q]
    BY <1>6 DEF R!WriteSnapshot, R!stored, R!goes
  <2>2. \A q \in DOMAIN snapshots' : Measured(snapshots'[q])
    BY <2>1 DEF MeasuredInv
  <2>3. /\ \A q \in Processes : step'[q] = "tested" => step[q] = "tested"
        /\ step' = [q \in Processes |-> step'[q]]
    BY <2>1 DEF MeasuredInv
  <2> QED
    BY <1>1, <1>2, <2>1, <2>2, <2>3 DEF MeasuredInv
<1>7. CASE R!Next
  <2>1. PICK p \in Processes :
            \/ R!NothingRan(p) \/ R!WriteSnapshot(p) \/ R!LoadIndex(p) \/ R!EmptyIndex(p)
            \/ R!WriteIndex(p) \/ R!Stop(p) \/ \E costs : R!Test(p, costs) \/ R!Sweep(p, costs)
    BY <1>7 DEF R!Next
  <2>2. CASE R!NothingRan(p)
    BY <1>4, <2>2 DEF R!NothingRan
  <2>3. CASE R!LoadIndex(p)
    BY <1>4, <2>3 DEF R!LoadIndex
  <2>4. CASE R!EmptyIndex(p)
    BY <1>4, <2>4 DEF R!EmptyIndex
  <2>5. CASE R!WriteIndex(p)
    BY <1>4, <2>5 DEF R!WriteIndex
  <2>6. CASE R!Stop(p)
    BY <1>4, <2>6 DEF R!Stop, R!goes
  <2> QED
    BY <1>5, <1>6, <2>1, <2>2, <2>3, <2>4, <2>5, <2>6
<1> QED
  BY <1>3, <1>7

LEMMA MeasuredHolds == Spec => [](part = "archive" => MeasuredInv)
<1>1. Init => (part = "archive" => MeasuredInv)
  <2> SUFFICES ASSUME Init, part = "archive" PROVE MeasuredInv
    OBVIOUS
  <2>1. /\ step = [p \in Processes |-> "idle"] /\ work = [p \in Processes |-> << >>] /\ snapshots = << >>
        /\ sharpe \in [R!Range(R!cartesian) -> Sharpes \union {-1}]
    BY DEF Init, R!Init
  <2>2. R!Range(R!cartesian) = Combos
    BY CombosHaveKeys DEF R!Range, Combos
  <2>3. sharpe \in [Combos -> Int]
    BY <2>1, <2>2, ArchiveAssumption
  <2>4. \A p \in Processes : step[p] = "idle"
    BY <2>1
  <2>5. step = [p \in Processes |-> step[p]] /\ work = [p \in Processes |-> work[p]]
    BY <2>1
  <2> QED
    BY <2>1, <2>3, <2>4, <2>5 DEF MeasuredInv
<1>2. (part = "archive" => MeasuredInv) /\ [Next]_vars => (part = "archive" => MeasuredInv)'
  BY ArchiveMoves, MeasuredStep
<1> QED
  BY <1>1, <1>2, PTL DEF Spec

(* A snapshot tells of itself what is so: it can be found through the      *)
(* index, has the parameters it was measured with, and, after a sweep, no  *)
(* combination that ran did better (backtester/paramSweep.ts, run.ts).     *)
THEOREM ArchiveHolds == Spec => [](part = "archive" => R!ArchiveSound)
<1>1. MeasuredInv => \A p \in DOMAIN snapshots :
                        /\ snapshots[p].params = snapshots[p].measured.params
                        /\ snapshots[p].sweep => \A c \in R!Range(R!results) : sharpe[c] <= sharpe[snapshots[p].params]
  <2>1. \A c \in R!Range(R!results) : c \in Combos /\ sharpe[c] >= 0
    BY RanAre DEF R!Range, Image
  <2> QED
    BY <2>1 DEF MeasuredInv, Measured
<1>2. (part = "archive" => MeasuredInv) /\ (part = "archive" => R!IndexLoads /\ R!CostsKept)
          => (part = "archive" => R!ArchiveSound)
  BY <1>1 DEF R!ArchiveSound
<1> QED
  BY <1>2, MeasuredHolds, IndexNeverMisleads, PTL

-----------------------------------------------------------------------------
(* A sum along a sequence.                                                 *)
Terms(f, n) == \A i \in 1..n : f[i] \in Int

LEMMA SumRuns ==
    ASSUME NEW f, NEW n \in Nat, Terms(f, n)
    PROVE  /\ SumsTo(f, n) \in [0..n -> Int]
           /\ SumsTo(f, n)[0] = 0
           /\ \A i \in 1..n : SumsTo(f, n)[i] = SumsTo(f, n)[i - 1] + f[i]
<1> DEFINE Obeys(g) == g = [i \in 0..n |-> IF i = 0 THEN 0 ELSE g[i - 1] + f[i]]
           Turn == [i \in 1..n |-> [x \in Int |-> x + f[i]]]
<1>1. Turn \in [(0 + 1)..n -> [Int -> Int]]
  BY DEF Terms
<1>2. PICK g \in [0..n -> Int] : Looped(0, n, 0, Turn, g)
  <2> HIDE DEF Turn
  <2>1. 0 \in Nat /\ 0 \in Int /\ 0 <= n
    OBVIOUS
  <2> QED
    BY <1>1, <2>1, LoopRuns
<1>3. g[0] = 0 /\ \A i \in 1..n : g[i] = g[i - 1] + f[i]
  <2>1. g[0] = 0 /\ \A i \in 1..n : g[i] = Turn[i][g[i - 1]]
    BY <1>2 DEF Looped
  <2>2. \A i \in 1..n : g[i - 1] \in Int
    OBVIOUS
  <2> QED
    BY <2>1, <2>2
<1>4. Obeys(g)
  <2>1. g = [i \in 0..n |-> g[i]]
    BY <1>2
  <2>2. \A i \in 0..n : g[i] = IF i = 0 THEN 0 ELSE g[i - 1] + f[i]
    BY <1>3
  <2> QED
    BY <2>1, <2>2
<1>5. SumsTo(f, n) = CHOOSE h : Obeys(h)
  BY DEF SumsTo
<1> HIDE DEF Obeys
<1>6. Obeys(CHOOSE h : Obeys(h))
  BY <1>4
<1>7. Obeys(SumsTo(f, n))
  BY <1>5, <1>6
<1>8. PICK s : s = SumsTo(f, n)
  OBVIOUS
<1>9. s = [i \in 0..n |-> IF i = 0 THEN 0 ELSE s[i - 1] + f[i]]
  BY <1>7, <1>8 DEF Obeys
<1>10. s[0] = 0 /\ \A i \in 1..n : s[i] = s[i - 1] + f[i]
  BY <1>9
<1>11. s \in [0..n -> Int]
  <2> DEFINE X == {i \in 0..n : s[i] \in Int}
  <2>1. 0 \in X
    BY <1>10
  <2>2. ASSUME NEW i \in (0 + 1)..n, i - 1 \in X PROVE i \in X
    <3>1. i \in 1..n /\ i \in 0..n /\ s[i - 1] \in Int
      BY <2>2
    <3>2. s[i] = s[i - 1] + f[i] /\ f[i] \in Int
      BY <1>10, <3>1 DEF Terms
    <3> QED
      BY <3>1, <3>2
  <2>3. \A i \in 0..n : i \in X
    <3> HIDE DEF X
    <3> QED
      BY <2>1, <2>2, Climb
  <2>4. \A i \in 0..n : s[i] \in Int
    BY <2>3
  <2>5. s = [i \in 0..n |-> s[i]]
    BY <1>9
  <2> QED
    BY <2>4, <2>5
<1> QED
  BY <1>8, <1>10, <1>11

(* Loops over the same terms have the same results on the way.             *)
LEMMA SumsAgree ==
    ASSUME NEW f, NEW g, NEW m \in Nat, NEW n \in Nat, Terms(f, m), Terms(g, n),
           NEW l \in Nat, l <= m, l <= n, \A i \in 1..l : f[i] = g[i]
    PROVE  SumsTo(f, m)[l] = SumsTo(g, n)[l]
<1> DEFINE s == SumsTo(f, m)
           t == SumsTo(g, n)
           X == {i \in 0..l : s[i] = t[i]}
<1>1. s[0] = 0 /\ t[0] = 0
  BY SumRuns
<1>2. \A i \in 1..m : s[i] = s[i - 1] + f[i]
  BY SumRuns
<1>3. \A i \in 1..n : t[i] = t[i - 1] + g[i]
  BY SumRuns
<1> HIDE DEF s, t
<1>4. 0 \in X
  BY <1>1
<1>5. ASSUME NEW i \in (0 + 1)..l, i - 1 \in X PROVE i \in X
  <2>1. i \in 1..m /\ i \in 1..n /\ i \in 1..l /\ i \in 0..l
    OBVIOUS
  <2>2. s[i - 1] = t[i - 1] /\ f[i] = g[i]
    BY <1>5, <2>1
  <2>3. s[i] = s[i - 1] + f[i] /\ t[i] = t[i - 1] + g[i]
    BY <1>2, <1>3, <2>1
  <2> QED
    BY <2>1, <2>2, <2>3
<1>6. \A i \in 0..l : i \in X
  <2> HIDE DEF X
  <2> QED
    BY <1>4, <1>5, Climb
<1> QED
  BY <1>6 DEF s, t

LEMMA SumNone == ASSUME NEW f PROVE SumTo(f, 0) = 0
<1>1. Terms(f, 0)
  BY DEF Terms
<1> QED
  BY <1>1, SumRuns DEF SumTo

LEMMA SumType == ASSUME NEW f, NEW n \in Nat, Terms(f, n) PROVE SumTo(f, n) \in Int
<1>1. SumsTo(f, n) \in [0..n -> Int]
  BY SumRuns
<1> QED
  BY <1>1 DEF SumTo

LEMMA SumNext ==
    ASSUME NEW f, NEW n \in Nat, Terms(f, n + 1)
    PROVE  SumTo(f, n + 1) = SumTo(f, n) + f[n + 1]
<1>1. n + 1 \in Nat /\ (n + 1) - 1 = n /\ n + 1 \in 1..(n + 1) /\ n <= n + 1
  OBVIOUS
<1>2. Terms(f, n)
  BY DEF Terms
<1>3. SumsTo(f, n + 1)[n + 1] = SumsTo(f, n + 1)[n] + f[n + 1]
  <2>1. \A i \in 1..(n + 1) : SumsTo(f, n + 1)[i] = SumsTo(f, n + 1)[i - 1] + f[i]
    BY <1>1, SumRuns
  <2>2. SumsTo(f, n + 1)[n + 1] = SumsTo(f, n + 1)[(n + 1) - 1] + f[n + 1]
    BY <1>1, <2>1
  <2> QED
    BY <1>1, <2>2
<1>4. SumsTo(f, n + 1)[n] = SumsTo(f, n)[n]
  BY <1>1, <1>2, SumsAgree
<1> QED
  BY <1>3, <1>4 DEF SumTo

LEMMA SumSame ==
    ASSUME NEW f, NEW g, NEW n \in Nat, Terms(f, n), \A i \in 1..n : f[i] = g[i]
    PROVE  SumTo(f, n) = SumTo(g, n)
<1>1. Terms(g, n) /\ n <= n
  BY DEF Terms
<1> QED
  BY <1>1, SumsAgree DEF SumTo

(* Of two sequences, one after the other.                                  *)
LEMMA SumJoined ==
    ASSUME NEW f, NEW g, NEW h, NEW m \in Nat, NEW n \in Nat, Terms(f, m), Terms(g, n),
           \A i \in 1..m : h[i] = f[i], \A i \in 1..n : h[m + i] = g[i]
    PROVE  SumTo(h, m + n) = SumTo(f, m) + SumTo(g, n)
<1> DEFINE X == {i \in 0..n : SumTo(h, m + i) = SumTo(f, m) + SumTo(g, i)}
<1>1. \A i \in 1..(m + n) : h[i] \in Int
  <2> TAKE i \in 1..(m + n)
  <2>1. CASE i <= m
    BY <2>1 DEF Terms
  <2>2. CASE i > m
    <3>1. i - m \in 1..n /\ i = m + (i - m)
      BY <2>2
    <3> QED
      BY <3>1 DEF Terms
  <2> QED
    BY <2>1, <2>2
<1>2. 0 \in X
  <2>1. SumTo(h, m) = SumTo(f, m)
    BY SumSame
  <2>2. SumTo(f, m) \in Int
    BY SumType
  <2>3. SumTo(g, 0) = 0
    BY SumNone
  <2> QED
    BY <2>1, <2>2, <2>3
<1>3. ASSUME NEW i \in (0 + 1)..n, i - 1 \in X PROVE i \in X
  <2>1. PICK k \in Nat : k = i - 1 /\ i = k + 1 /\ m + i = (m + k) + 1 /\ k + 1 \in 1..n
    OBVIOUS
  <2>2. Terms(h, (m + k) + 1) /\ Terms(g, k + 1) /\ Terms(g, k)
    BY <1>1, <2>1 DEF Terms
  <2>3. SumTo(h, (m + k) + 1) = SumTo(h, m + k) + h[(m + k) + 1]
    BY <2>1, <2>2, SumNext
  <2>4. SumTo(g, k + 1) = SumTo(g, k) + g[k + 1]
    BY <2>1, <2>2, SumNext
  <2>5. h[(m + k) + 1] = g[k + 1] /\ g[k + 1] \in Int
    <3>1. m + (k + 1) = (m + k) + 1
      OBVIOUS
    <3>2. h[m + (k + 1)] = g[k + 1]
      BY <2>1
    <3> QED
      BY <2>1, <3>1, <3>2 DEF Terms
  <2>6. SumTo(h, m + k) = SumTo(f, m) + SumTo(g, k)
    BY <1>3, <2>1
  <2>7. SumTo(f, m) \in Int /\ SumTo(g, k) \in Int
    BY <2>2, SumType
  <2>8. SumTo(h, (m + k) + 1) = SumTo(f, m) + SumTo(g, k + 1)
    BY <2>3, <2>4, <2>5, <2>6, <2>7
  <2> QED
    BY <2>1, <2>8
<1>4. n \in X
  <2> HIDE DEF X
  <2>1. \A i \in 0..n : i \in X
    BY <1>2, <1>3, Climb
  <2> QED
    BY <2>1
<1> QED
  BY <1>4

-----------------------------------------------------------------------------
(* Backtest, for any curve and any trades: what computeMetrics says of     *)
(* them.                                                                   *)
LEMMA DivInt ==
    ASSUME NEW n \in Int, NEW p \in Nat \ {0}
    PROVE  /\ n \div p \in Int
           /\ p * (n \div p) <= n /\ n < p * (n \div p) + p
  OBVIOUS

LEMMA DivAtLeast ==
    ASSUME NEW n \in Int, NEW p \in Nat \ {0}, NEW q \in Int, p * q <= n
    PROVE  q <= n \div p
<1>1. PICK d \in Int : d = n \div p /\ n < p * d + p
  BY DivInt
<1>2. SUFFICES ASSUME q >= d + 1 PROVE FALSE
  BY <1>1
<1>3. PICK k : k = q - (d + 1)
  OBVIOUS
<1>4. k \in Nat /\ q = (d + 1) + k
  BY <1>2, <1>3
<1>5. p * q = p * d + p + p * k /\ p * k \in Nat
  BY <1>4
<1>6. p * d \in Int
  OBVIOUS
<1> QED
  BY <1>1, <1>5, <1>6

(* The higher the peak, the deeper the fall from it to the same value.     *)
Depth(a, e) == (100 * (a - e)) \div a

LEMMA DepthType == ASSUME NEW a \in Nat \ {0}, NEW e \in Nat PROVE Depth(a, e) \in Int /\ Depth(a, e) <= 100
<1>1. PICK q \in Int : q = Depth(a, e) /\ a * q <= 100 * (a - e)
  BY DivInt DEF Depth
<1>2. q <= 100
  <2>1. SUFFICES ASSUME q >= 101 PROVE FALSE
    OBVIOUS
  <2>2. PICK k : k = q - 101
    OBVIOUS
  <2>3. k \in Nat /\ q = 101 + k
    BY <2>1, <2>2
  <2>4. a * q = 101 * a + a * k /\ a * k \in Nat
    BY <2>3
  <2> QED
    BY <1>1, <2>4
<1> QED
  BY <1>1, <1>2

LEMMA DepthGrows ==
    ASSUME NEW a \in Nat \ {0}, NEW p \in Nat \ {0}, a <= p, NEW e \in Nat
    PROVE  Depth(a, e) <= Depth(p, e)
<1>1. PICK q \in Int : q = Depth(a, e) /\ a * q <= 100 * (a - e)
  BY DivInt DEF Depth
<1>2. q <= 100
  BY <1>1, DepthType
<1>3. PICK k \in Nat, r \in Nat : p = a + k /\ 100 = q + r
  <2>1. p - a \in Nat /\ p = a + (p - a) /\ 100 - q \in Nat /\ 100 = q + (100 - q)
    BY <1>2
  <2> QED
    BY <2>1
<1>4. k * q = 100 * k - k * r /\ k * r \in Nat
  <2>1. k * 100 = k * q + k * r
    BY <1>3
  <2> QED
    BY <2>1
<1>5. p * q = a * q + k * q
  BY <1>3
<1>6. a * q \in Int /\ k * q \in Int /\ p * q \in Int
  OBVIOUS
<1>7. p * q <= 100 * (p - e)
  BY <1>1, <1>3, <1>4, <1>5, <1>6
<1>8. 100 * (p - e) \in Int
  OBVIOUS
<1>9. q <= (100 * (p - e)) \div p
  BY <1>7, <1>8, DivAtLeast
<1> QED
  BY <1>1, <1>9 DEF Depth

LEMMA LargestTested ==
    ASSUME NEW X \in SUBSET Int, NEW m \in X, \A y \in X : y <= m
    PROVE  B!Max(X) = m
<1>1. m \in X /\ \A y \in X : m >= y
  OBVIOUS
<1>2. B!Max(X) \in X /\ \A y \in X : B!Max(X) >= y
  BY <1>1, Zenon DEF B!Max
<1>3. PICK k : k = B!Max(X)
  OBVIOUS
<1>4. k \in Int /\ m \in Int /\ k >= m /\ k <= m
  BY <1>2, <1>3
<1> QED
  BY <1>3, <1>4

Fallen == [peak : Nat \ {0}, start : Nat, max : Int, duration : Int]

LEMMA FallenType ==
    ASSUME NEW acc \in Fallen, NEW curve \in Seq(Nat), NEW i \in 1..Len(curve)
    PROVE  /\ B!fallen(acc, curve, i) \in Fallen
           /\ B!fallen(acc, curve, i).peak = IF curve[i] > acc.peak THEN curve[i] ELSE acc.peak
           /\ B!fallen(acc, curve, i).max =
                  LET dd == Depth(B!fallen(acc, curve, i).peak, curve[i])
                  IN  IF dd > acc.max THEN dd ELSE acc.max
<1>1. PICK e \in Nat : e = curve[i]
  OBVIOUS
<1>2. PICK p : p = IF e > acc.peak THEN e ELSE acc.peak
  OBVIOUS
<1>3. PICK s : s = IF e > acc.peak THEN i ELSE acc.start
  OBVIOUS
<1>4. PICK dd : dd = Depth(p, e)
  OBVIOUS
<1>5. /\ acc.peak \in Nat \ {0} /\ acc.start \in Nat /\ acc.max \in Int /\ acc.duration \in Int
      /\ i \in Nat
  BY DEF Fallen
<1>6. p \in Nat \ {0} /\ s \in Nat
  BY <1>2, <1>3, <1>5
<1>7. dd \in Int
  BY <1>4, <1>6, DepthType
<1>8. B!fallen(acc, curve, i) =
          [peak |-> p, start |-> s, max |-> IF dd > acc.max THEN dd ELSE acc.max,
           duration |-> IF dd > acc.max THEN i - s ELSE acc.duration]
  BY <1>1, <1>2, <1>3, <1>4 DEF B!fallen, Depth
<1>9. PICK m \in Int : m = IF dd > acc.max THEN dd ELSE acc.max
  BY <1>5, <1>7
<1>10. PICK t : t \in Int /\ t = IF dd > acc.max THEN i - s ELSE acc.duration
  <2>1. PICK u : u = i - s
    OBVIOUS
  <2>2. u \in Int
    BY <1>5, <1>6, <2>1
  <2>3. CASE dd > acc.max
    BY <2>1, <2>2, <2>3
  <2>4. CASE ~(dd > acc.max)
    BY <1>5, <2>4
  <2> QED
    BY <2>3, <2>4
<1>11. B!fallen(acc, curve, i) = [peak |-> p, start |-> s, max |-> m, duration |-> t]
  BY <1>8, <1>9, <1>10
<1>12. B!fallen(acc, curve, i) \in Fallen
  <2>1. s \in Nat /\ p \in Nat \ {0} /\ m \in Int /\ t \in Int
    BY <1>6, <1>9, <1>10
  <2> QED
    BY <1>11, <2>1 DEF Fallen
<1> QED
  BY <1>1, <1>2, <1>4, <1>9, <1>11, <1>12

LEMMA DrawdownRuns ==
    ASSUME NEW curve \in Seq(Nat), Len(curve) >= 1, curve[1] > 0
    PROVE  /\ \A i \in 0..Len(curve) : B!drawdowns(curve)[i] \in Fallen
           /\ B!drawdowns(curve)[0] = [peak |-> curve[1], start |-> 1, max |-> 0, duration |-> 0]
           /\ \A i \in 1..Len(curve) :
                  B!drawdowns(curve)[i] = B!fallen(B!drawdowns(curve)[i - 1], curve, i)
<1> DEFINE n == Len(curve)
           base == [peak |-> curve[1], start |-> 1, max |-> 0, duration |-> 0]
           Obeys(g) == g = [i \in 0..n |-> IF i = 0 THEN base ELSE B!fallen(g[i - 1], curve, i)]
           Turn == [i \in 1..n |-> [acc \in Fallen |-> B!fallen(acc, curve, i)]]
<1>1. n \in Nat /\ 0 <= n /\ 0 \in Nat
  OBVIOUS
<1>2. base \in Fallen
  <2>1. curve[1] \in Nat \ {0}
    OBVIOUS
  <2> QED
    BY <2>1 DEF Fallen
<1>3. Turn \in [(0 + 1)..n -> [Fallen -> Fallen]]
  <2>1. \A i \in 1..n, acc \in Fallen : B!fallen(acc, curve, i) \in Fallen
    BY FallenType
  <2> QED
    BY <2>1
<1>4. PICK f \in [0..n -> Fallen] : Looped(0, n, base, Turn, f)
  <2> HIDE DEF Turn, n, base
  <2> QED
    BY <1>1, <1>2, <1>3, LoopRuns, Zenon
<1>5. f[0] = base /\ \A i \in 1..n : f[i] = B!fallen(f[i - 1], curve, i)
  <2> HIDE DEF n, base
  <2>1. f[0] = base /\ \A i \in 1..n : f[i] = Turn[i][f[i - 1]]
    BY <1>4 DEF Looped
  <2>2. \A i \in 1..n : f[i - 1] \in Fallen
    BY <1>1
  <2> QED
    BY <2>1, <2>2
<1>6. Obeys(f)
  <2> HIDE DEF n, base
  <2>1. f = [i \in 0..n |-> f[i]]
    BY <1>4
  <2>2. ASSUME NEW i \in 0..n PROVE f[i] = IF i = 0 THEN base ELSE B!fallen(f[i - 1], curve, i)
    <3>1. CASE i = 0
      BY <1>5, <3>1, Zenon
    <3>2. CASE i # 0
      <4>1. i \in 1..n
        BY <1>1, <3>2
      <4> QED
        BY <1>5, <3>2, <4>1, Zenon
    <3> QED
      BY <3>1, <3>2
  <2> QED
    BY <2>1, <2>2, Zenon
<1>7. B!drawdowns(curve) = CHOOSE g : Obeys(g)
  BY DEF B!drawdowns
<1> HIDE DEF Obeys
<1>8. Obeys(CHOOSE g : Obeys(g))
  BY <1>6
<1>9. Obeys(B!drawdowns(curve))
  BY <1>7, <1>8
<1>10. PICK d : d = B!drawdowns(curve)
  OBVIOUS
<1> HIDE DEF n, base
<1>11. d = [i \in 0..n |-> IF i = 0 THEN base ELSE B!fallen(d[i - 1], curve, i)]
  BY <1>9, <1>10 DEF Obeys
<1>12. d[0] = base /\ \A i \in 1..n : d[i] = B!fallen(d[i - 1], curve, i)
  <2>1. \A i \in 0..n : d[i] = IF i = 0 THEN base ELSE B!fallen(d[i - 1], curve, i)
    BY <1>11
  <2>2. 0 \in 0..n /\ \A i \in 1..n : i \in 0..n /\ i # 0
    BY <1>1
  <2> QED
    BY <2>1, <2>2
<1>13. \A i \in 0..n : d[i] \in Fallen
  <2> DEFINE X == {i \in 0..n : d[i] \in Fallen}
  <2>1. 0 \in X
    BY <1>1, <1>2, <1>12
  <2>2. ASSUME NEW i \in (0 + 1)..n, i - 1 \in X PROVE i \in X
    <3>1. i \in 1..n /\ i \in 0..n /\ d[i - 1] \in Fallen
      BY <1>1, <2>2
    <3>2. B!fallen(d[i - 1], curve, i) \in Fallen
      BY <3>1, FallenType DEF n
    <3> QED
      BY <1>12, <3>1, <3>2
  <2>3. \A i \in 0..n : i \in X
    <3> HIDE DEF X
    <3> QED
      BY <1>1, <2>1, <2>2, Climb
  <2> QED
    BY <2>3
<1> QED
  BY <1>10, <1>12, <1>13 DEF n, base

(* What the loop knows after i points: the peak of them, and the deepest   *)
(* fall between two of them.                                               *)
Deepest(curve, i, acc) ==
    /\ \E k \in 1..i : acc.peak = curve[k]
    /\ \A k \in 1..i : curve[k] <= acc.peak
    /\ acc.max >= 0
    /\ acc.max = 0 \/ \E x, y \in 1..i : x <= y /\ curve[x] > 0 /\ acc.max = Depth(curve[x], curve[y])
    /\ \A x, y \in 1..i : x <= y /\ curve[x] > 0 => Depth(curve[x], curve[y]) <= acc.max

LEMMA DeepestStep ==
    ASSUME NEW curve \in Seq(Nat), NEW acc \in Fallen, NEW i \in 2..Len(curve), Deepest(curve, i - 1, acc)
    PROVE  Deepest(curve, i, B!fallen(acc, curve, i))
<1>1. i \in 1..Len(curve) /\ i \in Nat /\ i \in 1..i /\ \A k \in 1..i : k # i => k \in 1..(i - 1)
  OBVIOUS
<1>2. PICK new \in Fallen : new = B!fallen(acc, curve, i)
  BY <1>1, FallenType
<1>3. PICK e \in Nat : e = curve[i]
  BY <1>1
<1>4. PICK p \in Nat \ {0} : p = new.peak
  BY DEF Fallen
<1>5. PICK dd \in Int : dd = Depth(p, e)
  BY DepthType
<1>6. /\ acc.peak \in Nat \ {0} /\ acc.max \in Int /\ new.max \in Int
  BY DEF Fallen
<1>7. /\ p = IF e > acc.peak THEN e ELSE acc.peak
      /\ new.max = IF dd > acc.max THEN dd ELSE acc.max
  BY <1>1, <1>2, <1>3, <1>4, <1>5, FallenType
<1>8. \A k \in 1..i : curve[k] \in Nat
  BY <1>1
<1>9. \A k \in 1..i : curve[k] <= p
  <2> TAKE k \in 1..i
  <2>1. CASE k = i
    BY <1>3, <1>6, <1>7, <2>1
  <2>2. CASE k # i
    <3>1. curve[k] <= acc.peak /\ curve[k] \in Nat
      BY <1>1, <1>8, <2>2 DEF Deepest
    <3> QED
      BY <1>6, <1>7, <3>1
  <2> QED
    BY <2>1, <2>2
<1>10. PICK t \in 1..i : p = curve[t]
  <2>1. CASE e > acc.peak
    BY <1>1, <1>3, <1>7, <2>1
  <2>2. CASE ~(e > acc.peak)
    <3>1. PICK k \in 1..(i - 1) : acc.peak = curve[k]
      BY DEF Deepest
    <3> QED
      BY <1>1, <1>7, <2>2, <3>1
  <2> QED
    BY <2>1, <2>2
<1>11. new.max >= acc.max /\ new.max >= dd /\ new.max >= 0
  BY <1>6, <1>7 DEF Deepest
<1>12. new.max = 0 \/ \E x, y \in 1..i : x <= y /\ curve[x] > 0 /\ new.max = Depth(curve[x], curve[y])
  <2>1. CASE dd > acc.max
    <3>1. t <= i /\ curve[t] > 0 /\ new.max = Depth(curve[t], curve[i])
      BY <1>1, <1>3, <1>5, <1>7, <1>10, <2>1
    <3> QED
      BY <1>1, <3>1
  <2>2. CASE ~(dd > acc.max)
    <3>1. new.max = acc.max
      BY <1>7, <2>2
    <3>2. 1..(i - 1) \subseteq 1..i
      OBVIOUS
    <3> QED
      BY <3>1, <3>2 DEF Deepest
  <2> QED
    BY <2>1, <2>2
<1>13. ASSUME NEW x \in 1..i, NEW y \in 1..i, x <= y, curve[x] > 0
       PROVE  Depth(curve[x], curve[y]) <= new.max
  <2>1. CASE y = i
    <3>1. PICK a \in Nat \ {0} : a = curve[x] /\ a <= p
      BY <1>8, <1>9, <1>13
    <3>2. Depth(a, e) <= dd /\ Depth(a, e) \in Int
      BY <1>5, <3>1, DepthGrows, DepthType
    <3> QED
      BY <1>3, <1>6, <1>11, <2>1, <3>1, <3>2
  <2>2. CASE y # i
    <3>1. x \in 1..(i - 1) /\ y \in 1..(i - 1)
      BY <1>13, <2>2
    <3>2. Depth(curve[x], curve[y]) <= acc.max
      BY <1>13, <3>1 DEF Deepest
    <3>3. curve[x] \in Nat \ {0} /\ curve[y] \in Nat
      BY <1>8, <1>13
    <3>4. Depth(curve[x], curve[y]) \in Int
      BY <3>3, DepthType
    <3> QED
      BY <1>6, <1>11, <3>2, <3>4
  <2> QED
    BY <2>1, <2>2
<1>14. \A x, y \in 1..i : x <= y /\ curve[x] > 0 => Depth(curve[x], curve[y]) <= new.max
  BY <1>13
<1>15. \E k \in 1..i : new.peak = curve[k]
  BY <1>4, <1>10
<1>16. \A k \in 1..i : curve[k] <= new.peak
  BY <1>4, <1>9
<1>17. Deepest(curve, i, new)
  BY <1>11, <1>12, <1>14, <1>15, <1>16 DEF Deepest
<1> QED
  BY <1>2, <1>17

(* The drawdown reported of a curve is its deepest fall.                   *)
LEMMA DrawdownRight == ASSUME NEW curve \in Seq(Int) PROVE B!DrawdownMatches(curve)
<1> DEFINE falls == {f \in (DOMAIN curve) \X (DOMAIN curve) : f[1] <= f[2] /\ curve[f[1]] > 0}
           depths == {0} \union {(100 * (curve[f[1]] - curve[f[2]])) \div curve[f[1]] : f \in falls}
<1>1. SUFFICES ASSUME Len(curve) >= 2, curve[1] > 0, \A i \in DOMAIN curve : curve[i] >= 0
               PROVE  B!drawdown(curve).max = B!Max(depths)
  BY DEF B!DrawdownMatches
<1>2. PICK n \in Nat : n = Len(curve) /\ DOMAIN curve = 1..n /\ n >= 2
  BY <1>1
<1>3. curve \in Seq(Nat) /\ \A i \in 1..n : curve[i] \in Nat
  <2>1. \A i \in 1..n : curve[i] \in Nat
    BY <1>1, <1>2
  <2>2. curve = [i \in 1..n |-> curve[i]]
    BY <1>2
  <2> QED
    BY <2>1, <2>2, SeqByIndex
<1>4. PICK d : d = B!drawdowns(curve)
  OBVIOUS
<1>5. /\ \A i \in 0..n : d[i] \in Fallen
      /\ d[0] = [peak |-> curve[1], start |-> 1, max |-> 0, duration |-> 0]
      /\ \A i \in 1..n : d[i] = B!fallen(d[i - 1], curve, i)
  <2>1. Len(curve) >= 1
    BY <1>2
  <2> QED
    BY <1>1, <1>2, <1>3, <1>4, <2>1, DrawdownRuns
<1> DEFINE X == {i \in 1..n : Deepest(curve, i, d[i])}
<1>6. 1 \in X
  <2>1. PICK e \in Nat \ {0} : e = curve[1]
    BY <1>1, <1>2, <1>3
  <2>2. d[0] \in Fallen /\ d[0].peak = e /\ d[0].max = 0 /\ 1 \in 1..Len(curve) /\ 1 \in 1..n
    BY <1>2, <1>5, <2>1
  <2>3. d[1] = B!fallen(d[0], curve, 1)
    BY <1>5, <2>2
  <2>4. d[1].peak = e
    BY <1>3, <2>1, <2>2, <2>3, FallenType
  <2>5. Depth(e, e) = 0
    <3>1. e - e = 0 /\ 100 * 0 = 0 /\ 0 \div e = 0
      OBVIOUS
    <3> QED
      BY <3>1 DEF Depth
  <2>6. d[1].max = IF Depth(d[1].peak, curve[1]) > d[0].max THEN Depth(d[1].peak, curve[1]) ELSE d[0].max
    BY <1>3, <2>2, <2>3, FallenType
  <2>7. d[1].max = 0
    BY <2>1, <2>2, <2>4, <2>5, <2>6
  <2>8. \A k \in 1..1 : k = 1
    OBVIOUS
  <2>9. Deepest(curve, 1, d[1])
    BY <2>1, <2>4, <2>5, <2>7, <2>8 DEF Deepest
  <2> QED
    BY <2>2, <2>9
<1>7. ASSUME NEW i \in (1 + 1)..n, i - 1 \in X PROVE i \in X
  <2>1. i \in 2..Len(curve) /\ i \in 1..n /\ i - 1 \in 0..n
    BY <1>2
  <2>2. d[i - 1] \in Fallen /\ d[i] = B!fallen(d[i - 1], curve, i) /\ Deepest(curve, i - 1, d[i - 1])
    BY <1>5, <1>7, <2>1
  <2>3. Deepest(curve, i, d[i])
    BY <1>3, <2>1, <2>2, DeepestStep
  <2> QED
    BY <2>1, <2>3
<1>8. Deepest(curve, n, d[n])
  <2> HIDE DEF X
  <2>1. 1 \in Nat /\ n \in 1..n
    BY <1>2
  <2>2. \A i \in 1..n : i \in X
    BY <1>6, <1>7, <2>1, Climb
  <2> QED
    BY <2>1, <2>2 DEF X
<1>9. PICK m \in Int : m = d[n].max
  BY <1>2, <1>5 DEF Fallen
<1>10. \A f \in falls : f[1] \in 1..n /\ f[2] \in 1..n /\ f[1] <= f[2] /\ curve[f[1]] > 0
  BY <1>2
<1>11. depths = {0} \union {Depth(curve[f[1]], curve[f[2]]) : f \in falls}
  BY DEF Depth
<1>12. \A x, y \in 1..n : x <= y /\ curve[x] > 0 => <<x, y>> \in falls
  BY <1>2
<1> HIDE DEF falls, depths
<1>13. m \in depths
  <2>1. CASE m = 0
    BY <1>11, <2>1
  <2>2. CASE m # 0
    <3>1. PICK x, y \in 1..n : x <= y /\ curve[x] > 0 /\ m = Depth(curve[x], curve[y])
      BY <1>8, <1>9, <2>2 DEF Deepest
    <3>2. <<x, y>> \in falls /\ <<x, y>>[1] = x /\ <<x, y>>[2] = y
      BY <1>12, <3>1
    <3> QED
      BY <1>11, <3>1, <3>2
  <2> QED
    BY <2>1, <2>2
<1>14. \A z \in depths : z \in Int /\ z <= m
  <2> TAKE z \in depths
  <2>1. CASE z = 0
    BY <1>8, <1>9, <2>1 DEF Deepest
  <2>2. CASE z # 0
    <3>1. PICK f \in falls : z = Depth(curve[f[1]], curve[f[2]])
      BY <1>11, <2>2
    <3>2. z <= m
      BY <1>8, <1>9, <1>10, <3>1 DEF Deepest
    <3>3. curve[f[1]] \in Nat \ {0} /\ curve[f[2]] \in Nat
      BY <1>3, <1>10
    <3> QED
      BY <3>1, <3>2, <3>3, DepthType
  <2> QED
    BY <2>1, <2>2
<1>15. B!Max(depths) = m
  <2>1. depths \in SUBSET Int /\ \A z \in depths : z <= m
    BY <1>14
  <2> QED
    BY <1>13, <2>1, LargestTested
<1> QED
  BY <1>2, <1>4, <1>9, <1>15 DEF B!drawdown

(* What the loop over the trades knows after i of them: how many the last  *)
(* of them are in a row of wins, and how long the longest row is.          *)
Runs == [row : Nat, max : Nat]
Wins(results) == {i \in DOMAIN results : results[i].pnl > 0}
Longest(won, i, acc) ==
    /\ acc.row \in 0..i /\ ((i - acc.row) + 1)..i \subseteq won
    /\ acc.row = i \/ i - acc.row \notin won
    /\ acc.max = 0 \/ \E x, y \in 1..i : x <= y /\ x..y \subseteq won /\ acc.max = (y - x) + 1
    /\ \A x, y \in 1..i : x <= y /\ x..y \subseteq won => (y - x) + 1 <= acc.max

LEMMA WonType ==
    ASSUME NEW acc \in Runs, NEW results, NEW i \in DOMAIN results
    PROVE  /\ B!won(acc, results[i]) \in Runs
           /\ B!won(acc, results[i]).row = IF i \in Wins(results) THEN acc.row + 1 ELSE 0
           /\ B!won(acc, results[i]).max =
                  IF B!won(acc, results[i]).row > acc.max THEN B!won(acc, results[i]).row ELSE acc.max
<1>1. acc.row \in Nat /\ acc.max \in Nat
  BY DEF Runs
<1>2. PICK r \in Nat : r = IF i \in Wins(results) THEN acc.row + 1 ELSE 0
  BY <1>1
<1>3. PICK m \in Nat : m = IF r > acc.max THEN r ELSE acc.max
  BY <1>1
<1>4. B!won(acc, results[i]) = [row |-> r, max |-> m]
  <2>1. i \in Wins(results) <=> results[i].pnl > 0
    BY DEF Wins
  <2>2. CASE i \in Wins(results)
    <3>1. r = acc.row + 1
      BY <1>2, <2>2
    <3>2. m = IF acc.row + 1 > acc.max THEN acc.row + 1 ELSE acc.max
      BY <1>3, <3>1
    <3> QED
      BY <2>1, <2>2, <3>1, <3>2, Zenon DEF B!won
  <2>3. CASE i \notin Wins(results)
    <3>1. r = 0
      BY <1>2, <2>3
    <3>2. m = IF 0 > acc.max THEN 0 ELSE acc.max
      BY <1>3, <3>1
    <3> QED
      BY <2>1, <2>3, <3>1, <3>2, Zenon DEF B!won
  <2> QED
    BY <2>2, <2>3
<1> QED
  BY <1>2, <1>3, <1>4 DEF Runs

LEMMA StreaksRun ==
    ASSUME NEW Z, NEW results \in Seq(Z)
    PROVE  /\ \A i \in 0..Len(results) : B!streaks(results)[i] \in Runs
           /\ B!streaks(results)[0] = [row |-> 0, max |-> 0]
           /\ \A i \in 1..Len(results) :
                  B!streaks(results)[i] = B!won(B!streaks(results)[i - 1], results[i])
<1> DEFINE n == Len(results)
           base == [row |-> 0, max |-> 0]
           Obeys(g) == g = [i \in 0..n |-> IF i = 0 THEN base ELSE B!won(g[i - 1], results[i])]
           Turn == [i \in 1..n |-> [acc \in Runs |-> B!won(acc, results[i])]]
<1>1. n \in Nat /\ 0 <= n /\ 0 \in Nat /\ DOMAIN results = 1..n
  OBVIOUS
<1>2. base \in Runs
  BY DEF Runs
<1>3. Turn \in [(0 + 1)..n -> [Runs -> Runs]]
  <2>1. \A i \in 1..n, acc \in Runs : B!won(acc, results[i]) \in Runs
    BY <1>1, WonType
  <2> QED
    BY <2>1
<1>4. PICK f \in [0..n -> Runs] : Looped(0, n, base, Turn, f)
  <2> HIDE DEF Turn, n, base
  <2> QED
    BY <1>1, <1>2, <1>3, LoopRuns, Zenon
<1>5. f[0] = base /\ \A i \in 1..n : f[i] = B!won(f[i - 1], results[i])
  <2> HIDE DEF n, base
  <2>1. f[0] = base /\ \A i \in 1..n : f[i] = Turn[i][f[i - 1]]
    BY <1>4 DEF Looped
  <2>2. \A i \in 1..n : f[i - 1] \in Runs
    BY <1>1
  <2> QED
    BY <2>1, <2>2
<1>6. Obeys(f)
  <2> HIDE DEF n, base
  <2>1. f = [i \in 0..n |-> f[i]]
    BY <1>4
  <2>2. ASSUME NEW i \in 0..n PROVE f[i] = IF i = 0 THEN base ELSE B!won(f[i - 1], results[i])
    <3>1. CASE i = 0
      BY <1>5, <3>1, Zenon
    <3>2. CASE i # 0
      <4>1. i \in 1..n
        BY <1>1, <3>2
      <4> QED
        BY <1>5, <3>2, <4>1, Zenon
    <3> QED
      BY <3>1, <3>2
  <2> QED
    BY <2>1, <2>2, Zenon
<1>7. B!streaks(results) = CHOOSE g : Obeys(g)
  BY DEF B!streaks
<1> HIDE DEF Obeys
<1>8. Obeys(CHOOSE g : Obeys(g))
  BY <1>6
<1>9. Obeys(B!streaks(results))
  BY <1>7, <1>8
<1>10. PICK d : d = B!streaks(results)
  OBVIOUS
<1> HIDE DEF n, base
<1>11. d = [i \in 0..n |-> IF i = 0 THEN base ELSE B!won(d[i - 1], results[i])]
  BY <1>9, <1>10 DEF Obeys
<1>12. d[0] = base /\ \A i \in 1..n : d[i] = B!won(d[i - 1], results[i])
  <2>1. \A i \in 0..n : d[i] = IF i = 0 THEN base ELSE B!won(d[i - 1], results[i])
    BY <1>11
  <2>2. 0 \in 0..n /\ \A i \in 1..n : i \in 0..n /\ i # 0
    BY <1>1
  <2> QED
    BY <2>1, <2>2
<1>13. \A i \in 0..n : d[i] \in Runs
  <2> DEFINE X == {i \in 0..n : d[i] \in Runs}
  <2>1. 0 \in X
    BY <1>1, <1>2, <1>12
  <2>2. ASSUME NEW i \in (0 + 1)..n, i - 1 \in X PROVE i \in X
    <3>1. i \in 1..n /\ i \in 0..n /\ d[i - 1] \in Runs
      BY <1>1, <2>2
    <3>2. B!won(d[i - 1], results[i]) \in Runs
      BY <1>1, <3>1, WonType
    <3> QED
      BY <1>12, <3>1, <3>2
  <2>3. \A i \in 0..n : i \in X
    <3> HIDE DEF X
    <3> QED
      BY <1>1, <2>1, <2>2, Climb
  <2> QED
    BY <2>3
<1> QED
  BY <1>10, <1>12, <1>13 DEF n, base

LEMMA LongestStep ==
    ASSUME NEW W, NEW i \in Nat \ {0}, NEW acc \in Runs, NEW new \in Runs, Longest(W, i - 1, acc),
           new.row = IF i \in W THEN acc.row + 1 ELSE 0,
           new.max = IF new.row > acc.max THEN new.row ELSE acc.max
    PROVE  Longest(W, i, new)
<1>1. /\ acc.row \in Nat /\ acc.max \in Nat /\ new.row \in Nat /\ new.max \in Nat
      /\ acc.row \in 0..(i - 1) /\ i \in 1..i
  BY DEF Runs, Longest
<1>2. new.row \in 0..i /\ ((i - new.row) + 1)..i \subseteq W
  <2>1. CASE i \in W
    <3>1. new.row = acc.row + 1 /\ ((i - 1 - acc.row) + 1)..(i - 1) \subseteq W
      BY <2>1 DEF Longest
    <3>2. (i - new.row) + 1 = (i - 1 - acc.row) + 1
      BY <1>1, <3>1
    <3>3. \A k \in ((i - new.row) + 1)..i : k = i \/ k \in ((i - 1 - acc.row) + 1)..(i - 1)
      BY <1>1, <3>1, <3>2
    <3> QED
      BY <1>1, <2>1, <3>1, <3>3
  <2>2. CASE i \notin W
    <3>1. new.row = 0 /\ (i - 0) + 1 > i
      BY <2>2
    <3> QED
      BY <3>1
  <2> QED
    BY <2>1, <2>2
<1>3. new.row = i \/ i - new.row \notin W
  <2>1. CASE i \in W
    <3>1. new.row = acc.row + 1 /\ (acc.row = i - 1 \/ i - 1 - acc.row \notin W)
      BY <2>1 DEF Longest
    <3>2. i - new.row = i - 1 - acc.row
      BY <1>1, <3>1
    <3> QED
      BY <1>1, <3>1, <3>2
  <2>2. CASE i \notin W
    <3>1. new.row = 0 /\ i - 0 = i
      BY <2>2
    <3> QED
      BY <2>2, <3>1
  <2> QED
    BY <2>1, <2>2
<1>4. new.max = 0 \/ \E x, y \in 1..i : x <= y /\ x..y \subseteq W /\ new.max = (y - x) + 1
  <2>1. CASE new.row > acc.max
    <3>1. new.max = new.row /\ new.row > 0
      BY <1>1, <2>1
    <3>2. PICK s \in 1..i : s = (i - new.row) + 1
      BY <1>1, <1>2, <3>1
    <3>3. s <= i /\ s..i \subseteq W /\ new.max = (i - s) + 1
      BY <1>1, <1>2, <3>1, <3>2
    <3> QED
      BY <1>1, <3>3
  <2>2. CASE ~(new.row > acc.max)
    <3>1. new.max = acc.max /\ 1..(i - 1) \subseteq 1..i
      BY <2>2
    <3> QED
      BY <3>1 DEF Longest
  <2> QED
    BY <2>1, <2>2
<1>5. ASSUME NEW x \in 1..i, NEW y \in 1..i, x <= y, x..y \subseteq W PROVE (y - x) + 1 <= new.max
  <2>0. new.max >= new.row /\ new.max >= acc.max
    BY <1>1
  <2>1. CASE y = i
    <3>1. i \in W
      BY <1>5, <2>1
    <3>2. x > i - new.row
      <4>1. CASE new.row = i
        BY <4>1
      <4>2. CASE new.row # i
        <5>1. PICK k \in Nat : k = i - new.row /\ k <= i /\ k \notin W
          BY <1>1, <1>2, <1>3, <4>2
        <5>2. ~(k \in x..y)
          BY <1>5, <5>1
        <5> QED
          BY <1>1, <2>1, <5>1, <5>2
      <4> QED
        BY <4>1, <4>2
    <3> QED
      BY <1>1, <2>0, <2>1, <3>2
  <2>2. CASE y # i
    <3>1. x \in 1..(i - 1) /\ y \in 1..(i - 1)
      BY <1>5, <2>2
    <3>2. (y - x) + 1 <= acc.max
      BY <1>5, <3>1 DEF Longest
    <3> QED
      BY <1>1, <2>0, <3>2
  <2> QED
    BY <2>1, <2>2
<1>6. \A x, y \in 1..i : x <= y /\ x..y \subseteq W => (y - x) + 1 <= new.max
  BY <1>5
<1> QED
  BY <1>2, <1>3, <1>4, <1>6 DEF Longest

(* The streak reported of any trades is their longest row of wins.         *)
LEMMA StreakRight == ASSUME NEW Z, NEW results \in Seq(Z) PROVE B!StreakMatches(results)
<1> DEFINE W == Wins(results)
           spans == {r \in (DOMAIN results) \X (DOMAIN results) :
                       r[1] <= r[2] /\ \A k \in r[1]..r[2] : results[k].pnl > 0}
           lengths == {0} \union {r[2] - r[1] + 1 : r \in spans}
<1>1. PICK n \in Nat : n = Len(results) /\ DOMAIN results = 1..n
  OBVIOUS
<1>2. PICK d : d = B!streaks(results)
  OBVIOUS
<1>3. /\ \A i \in 0..n : d[i] \in Runs
      /\ d[0] = [row |-> 0, max |-> 0]
      /\ \A i \in 1..n : d[i] = B!won(d[i - 1], results[i])
  BY <1>1, <1>2, StreaksRun
<1> DEFINE X == {i \in 0..n : Longest(W, i, d[i])}
<1>4. 0 \in X
  <2>1. d[0].row = 0 /\ d[0].max = 0
    BY <1>3
  <2>2. 0 - 0 = 0 /\ (0 - 0) + 1 = 1 /\ 1..0 = {} /\ 0 \in 0..0 /\ 0 \in 0..n
    BY <1>1
  <2>3. Longest(W, 0, d[0])
    <3> HIDE DEF W
    <3> QED
      BY <2>1, <2>2 DEF Longest
  <2> QED
    BY <2>2, <2>3
<1>5. ASSUME NEW i \in (0 + 1)..n, i - 1 \in X PROVE i \in X
  <2>1. i \in Nat \ {0} /\ i \in 1..n /\ i \in 0..n /\ i - 1 \in 0..n /\ i \in DOMAIN results
    BY <1>1
  <2>2. d[i - 1] \in Runs /\ d[i] \in Runs /\ Longest(W, i - 1, d[i - 1]) /\ d[i] = B!won(d[i - 1], results[i])
    BY <1>3, <1>5, <2>1
  <2>3. /\ d[i].row = IF i \in W THEN d[i - 1].row + 1 ELSE 0
        /\ d[i].max = IF d[i].row > d[i - 1].max THEN d[i].row ELSE d[i - 1].max
    BY <2>1, <2>2, WonType
  <2> HIDE DEF W
  <2>4. Longest(W, i, d[i])
    BY <2>1, <2>2, <2>3, LongestStep
  <2> QED
    BY <2>1, <2>4
<1>6. Longest(W, n, d[n]) /\ d[n] \in Runs
  <2>1. n \in 0..n /\ 0 \in Nat
    BY <1>1
  <2>2. \A i \in 0..n : i \in X
    <3> HIDE DEF X
    <3> QED
      BY <1>4, <1>5, <2>1, Climb
  <2> QED
    BY <1>3, <2>1, <2>2
<1>7. PICK m \in Nat : m = d[n].max
  BY <1>6 DEF Runs
<1>8. \A r \in spans : r[1] \in 1..n /\ r[2] \in 1..n /\ r[1] <= r[2] /\ r[1]..r[2] \subseteq W
  BY <1>1 DEF Wins
<1>9. \A x, y \in 1..n : x <= y /\ x..y \subseteq W => <<x, y>> \in spans
  <2> SUFFICES ASSUME NEW x \in 1..n, NEW y \in 1..n, x <= y, x..y \subseteq W PROVE <<x, y>> \in spans
    OBVIOUS
  <2>1. \A k \in x..y : results[k].pnl > 0
    BY DEF Wins
  <2> QED
    BY <1>1, <2>1
<1> HIDE DEF spans, W
<1>10. m \in lengths
  <2>1. CASE m # 0
    <3>1. PICK x, y \in 1..n : x <= y /\ x..y \subseteq W /\ m = (y - x) + 1
      BY <1>6, <1>7, <2>1 DEF Longest
    <3>2. <<x, y>> \in spans /\ <<x, y>>[1] = x /\ <<x, y>>[2] = y
      BY <1>9, <3>1
    <3> QED
      BY <3>1, <3>2
  <2> QED
    BY <2>1
<1>11. \A l \in lengths : l \in Int /\ l <= m
  <2> SUFFICES ASSUME NEW l \in lengths PROVE l \in Int /\ l <= m
    OBVIOUS
  <2>1. CASE l = 0
    BY <2>1
  <2>2. CASE l # 0
    <3>1. PICK r \in spans : l = r[2] - r[1] + 1
      BY <2>2
    <3>2. PICK x, y \in 1..n : x = r[1] /\ y = r[2] /\ x <= y /\ x..y \subseteq W
      BY <1>8, <3>1
    <3>3. l = (y - x) + 1
      BY <3>1, <3>2
    <3>4. (y - x) + 1 <= m
      BY <1>6, <1>7, <3>2 DEF Longest
    <3> QED
      BY <1>7, <3>2, <3>3, <3>4
  <2> QED
    BY <2>1, <2>2
<1> HIDE DEF lengths
<1>12. B!Max(lengths) = m
  BY <1>10, <1>11, LargestTested
<1>13. B!streak(results) = m
  BY <1>1, <1>2, <1>7 DEF B!streak
<1> QED
  BY <1>12, <1>13 DEF lengths, spans, B!StreakMatches

(* The bars that some trades were held.                                    *)
HeldOf(ts) == [i \in DOMAIN ts |-> ts[i].barsHeld]
Held(ts) == SumTo(HeldOf(ts), Len(ts))

LEMMA MarketIsHeld == ASSUME NEW ts PROVE B!barsInMarket(ts) = Held(ts)
  BY Zenon DEF B!barsInMarket, B!SumTo, B!SumsTo, Held, HeldOf, SumTo, SumsTo

LEMMA BoundedTerms ==
    ASSUME NEW ts, AllBounded(ts)
    PROVE  Len(ts) \in Nat /\ DOMAIN ts = 1..Len(ts) /\ Terms(HeldOf(ts), Len(ts)) /\ Held(ts) \in Int
<1>1. PICK Z : ts \in Seq(Z) /\ \A t \in Z : Bounded(t)
  BY DEF AllBounded
<1>2. Len(ts) \in Nat /\ DOMAIN ts = 1..Len(ts)
  BY <1>1
<1>3. \A i \in 1..Len(ts) : ts[i].barsHeld \in Int
  <2>1. \A i \in 1..Len(ts) : Bounded(ts[i])
    BY <1>1
  <2> QED
    BY <2>1, BacktestAssumption DEF Bounded
<1>4. Terms(HeldOf(ts), Len(ts))
  BY <1>2, <1>3 DEF Terms, HeldOf
<1> QED
  BY <1>2, <1>4, SumType DEF Held

LEMMA HeldOne ==
    ASSUME NEW ts, AllBounded(ts), NEW u, Bounded(u)
    PROVE  Held(Append(ts, u)) = Held(ts) + u.barsHeld
<1>1. PICK n \in Nat : n = Len(ts) /\ DOMAIN ts = 1..n
  BY BoundedTerms
<1>2. PICK Z : ts \in Seq(Z)
  BY DEF AllBounded
<1>3. /\ Len(Append(ts, u)) = n + 1 /\ DOMAIN Append(ts, u) = 1..(n + 1)
      /\ \A i \in 1..n : Append(ts, u)[i] = ts[i]
      /\ Append(ts, u)[n + 1] = u
  <2>1. ts \in Seq(Z \union {u}) /\ u \in Z \union {u}
    BY <1>2
  <2> QED
    BY <1>1, <2>1
<1>4. AllBounded(Append(ts, u))
  BY TradesGrow
<1> DEFINE f == HeldOf(ts)
           g == HeldOf(Append(ts, u))
<1>5. Terms(g, n + 1) /\ Terms(f, n)
  BY <1>1, <1>3, <1>4, BoundedTerms
<1>6. (\A i \in 1..n : g[i] = f[i]) /\ g[n + 1] = u.barsHeld
  <2>1. \A i \in 1..n : i \in 1..(n + 1)
    BY <1>1
  <2>2. n + 1 \in 1..(n + 1)
    BY <1>1
  <2> QED
    BY <1>1, <1>3, <2>1, <2>2 DEF HeldOf
<1> HIDE DEF f, g
<1>7. SumTo(g, n + 1) = SumTo(g, n) + g[n + 1]
  BY <1>5, SumNext
<1>8. SumTo(g, n) = SumTo(f, n)
  <2>1. \A i \in 1..n : f[i] = g[i]
    BY <1>6
  <2>2. SumTo(f, n) = SumTo(g, n)
    BY <1>5, <2>1, SumSame
  <2> QED
    BY <2>2
<1> QED
  BY <1>1, <1>3, <1>6, <1>7, <1>8 DEF Held, f, g

LEMMA BothBounded ==
    ASSUME NEW ts, NEW us, AllBounded(ts), AllBounded(us)
    PROVE  AllBounded(ts \o us) /\ Held(ts \o us) = Held(ts) + Held(us)
<1>1. PICK Y : ts \in Seq(Y) /\ \A t \in Y : Bounded(t)
  BY DEF AllBounded
<1>2. PICK Z : us \in Seq(Z) /\ \A t \in Z : Bounded(t)
  BY DEF AllBounded
<1>3. PICK V : V = Y \union Z
  OBVIOUS
<1>4. ts \in Seq(V) /\ us \in Seq(V) /\ \A t \in V : Bounded(t)
  BY <1>1, <1>2, <1>3
<1>5. ts \o us \in Seq(V)
  BY <1>4
<1>6. AllBounded(ts \o us)
  BY <1>4, <1>5, Zenon DEF AllBounded
<1>7. PICK m \in Nat : m = Len(ts) /\ DOMAIN ts = 1..m
  BY <1>4
<1>8. PICK n \in Nat : n = Len(us) /\ DOMAIN us = 1..n
  BY <1>4
<1>9. /\ Len(ts \o us) = m + n /\ DOMAIN (ts \o us) = 1..(m + n)
      /\ \A i \in 1..m : (ts \o us)[i] = ts[i]
      /\ \A i \in 1..n : (ts \o us)[m + i] = us[i]
  BY <1>4, <1>7, <1>8
<1> DEFINE f == HeldOf(ts)
           g == HeldOf(us)
           h == HeldOf(ts \o us)
<1>10. Terms(f, m) /\ Terms(g, n)
  BY <1>7, <1>8, BoundedTerms
<1>11. (\A i \in 1..m : h[i] = f[i]) /\ \A i \in 1..n : h[m + i] = g[i]
  <2>1. (\A i \in 1..m : i \in 1..(m + n)) /\ \A i \in 1..n : m + i \in 1..(m + n)
    BY <1>7, <1>8
  <2> QED
    BY <1>7, <1>8, <1>9, <2>1 DEF HeldOf
<1> HIDE DEF f, g, h
<1>12. SumTo(h, m + n) = SumTo(f, m) + SumTo(g, n)
  BY <1>10, <1>11, SumJoined
<1> QED
  BY <1>6, <1>7, <1>8, <1>9, <1>12 DEF Held, f, g, h

(* The books of a pass and of all tests: every bar has its point of the    *)
(* curve, and what is open began after what is closed had ended.           *)
Financed == position.size \in Int /\ position.commission \in Int /\ position.entry \in Nat \ {0}
MarketInv ==
    /\ capital \in Int /\ runningCapital \in Int
    /\ equityCurve \in Seq(Int) /\ allTestEquity \in Seq(Int) /\ AllBounded(allTestTrades)
    /\ bar \in Nat /\ Len(equityCurve) = bar - Lookback
    /\ position = B!NoPosition => Held(trades) <= bar - Lookback
    /\ position # B!NoPosition => Financed /\ Held(trades) <= position.opened - Lookback
    /\ Held(allTestTrades) <= Len(allTestEquity)

LEMMA NoneHeld == Held(<< >>) = 0
<1>1. Len(<< >>) = 0
  OBVIOUS
<1> QED
  BY <1>1, SumNone DEF Held

LEMMA EntryFinanced ==
    ASSUME capital \in Int, bar \in Nat, NEW side \in {"long", "short"}, NEW close \in Prices,
           position' = B!enter(side, close)
    PROVE  Financed' /\ position' # B!NoPosition /\ position'.opened = bar
<1>1. /\ close \in Nat /\ Slippage \in Nat /\ close > Slippage /\ CommissionPct \in Nat
  BY BacktestAssumption
<1>2. PICK e : e = B!applySlippage(close, side = "long")
  OBVIOUS
<1>3. e \in Nat \ {0}
  BY <1>1, <1>2 DEF B!applySlippage
<1>4. PICK c \in Int : c = (capital * CommissionPct) \div 100
  <2>1. PICK x \in Int : x = capital * CommissionPct
    BY <1>1
  <2>2. x \div 100 \in Int
    OBVIOUS
  <2> QED
    BY <2>1, <2>2
<1>5. /\ position'.side = side /\ position'.entry = e /\ position'.size = capital - c
      /\ position'.commission = c /\ position'.opened = bar
  BY <1>2, <1>4 DEF B!enter
<1>6. capital - c \in Int
  BY <1>4
<1>7. B!NoPosition.side = "none"
  BY DEF B!NoPosition
<1> QED
  BY <1>3, <1>4, <1>5, <1>6, <1>7 DEF Financed

LEMMA CloseIs == ASSUME NEW c \in B!Candle PROVE c.close \in Prices /\ c.close \in Int
<1>1. c.close \in Prices
  BY DEF B!Candle
<1>2. Prices \subseteq Nat
  BY BacktestAssumption
<1>3. PICK x : x = c.close
  OBVIOUS
<1>4. x \in Prices
  BY <1>1, <1>3
<1>5. x \in Int
  BY <1>2, <1>4
<1> QED
  BY <1>3, <1>4, <1>5

LEMMA ClosedPnl ==
    ASSUME Financed, Opened, bar \in Nat, NEW c \in B!Candle, NEW reason
    PROVE  B!closed(c, reason).pnl \in Int /\ B!closed(c, reason).barsHeld = bar - position.opened
<1>1. PICK level : level = CASE reason = "stop_loss" -> position.stop
                             [] reason = "take_profit" -> position.target
                             [] OTHER -> c.close
  OBVIOUS
<1>2. /\ StopDistance \in Nat /\ TargetDistance \in Nat /\ Slippage \in Nat /\ CommissionPct \in Nat
      /\ c.close \in Int
  BY CloseIs, BacktestAssumption
<1>3. position.stop \in Int /\ position.target \in Int
  BY <1>2 DEF Opened
<1>4. level \in Int
  BY <1>1, <1>2, <1>3
<1>5. PICK exit \in Int : exit = B!applySlippage(level, position.side = "short")
  BY <1>2, <1>4 DEF B!applySlippage
<1>6. PICK gained \in Int : gained = B!gain(exit)
  <2>1. PICK d \in Int : d = IF position.side = "long" THEN exit - position.entry ELSE position.entry - exit
    BY DEF Financed
  <2>2. PICK x \in Int : x = position.size * d
    BY DEF Financed
  <2>3. x \div position.entry \in Int
    BY DEF Financed
  <2> QED
    BY <2>1, <2>2, <2>3 DEF B!gain
<1>7. PICK cost \in Int : cost = (position.size * CommissionPct) \div 100
  <2>1. PICK x \in Int : x = position.size * CommissionPct
    BY <1>2 DEF Financed
  <2>2. x \div 100 \in Int
    OBVIOUS
  <2> QED
    BY <2>1, <2>2
<1>8. /\ B!closed(c, reason).pnl = gained - position.commission - cost
      /\ B!closed(c, reason).barsHeld = bar - position.opened
  BY <1>1, <1>5, <1>6, <1>7 DEF B!closed
<1>9. gained - position.commission - cost \in Int
  BY DEF Financed
<1> QED
  BY <1>8, <1>9

LEMMA EquityGrows ==
    ASSUME equityCurve \in Seq(Int), capital' \in Int, position' # B!NoPosition => Financed',
           NEW c \in B!Candle, NEW signal, B!Bar(c, signal)
    PROVE  equityCurve' \in Seq(Int) /\ Len(equityCurve') = Len(equityCurve) + 1
<1>1. c.close \in Int
  BY CloseIs
<1>2. PICK worth \in Int : worth = IF position' = B!NoPosition THEN 0
                                   ELSE (position'.size * (IF position'.side = "long"
                                            THEN c.close - position'.entry
                                            ELSE position'.entry - c.close)) \div position'.entry
  <2>1. CASE position' # B!NoPosition
    <3>1. PICK e \in Nat \ {0}, s \in Int : e = position'.entry /\ s = position'.size
      BY <2>1 DEF Financed
    <3>2. PICK d \in Int : d = IF position'.side = "long" THEN c.close - e ELSE e - c.close
      BY <1>1, <3>1
    <3>3. PICK x \in Int : x = s * d
      OBVIOUS
    <3>4. PICK y \in Int : y = x \div e
      BY <3>1
    <3> QED
      BY <2>1, <3>1, <3>2, <3>3, <3>4
  <2>2. CASE position' = B!NoPosition
    BY <2>2
  <2> QED
    BY <2>1, <2>2
<1>3. equityCurve' = Append(equityCurve, capital' + worth)
  BY <1>2 DEF B!Bar
<1>4. capital' + worth \in Int
  OBVIOUS
<1> QED
  BY <1>3, <1>4

LEMMA BarKeepsMarket ==
    ASSUME TestInv, MarketInv, NEW c \in B!Candle, NEW signal \in {"BUY", "SELL", "HOLD"}, B!Bar(c, signal)
    PROVE  MarketInv'
<1>1. /\ bar' = bar + 1 /\ UNCHANGED <<runningCapital, allTestTrades, allTestEquity>>
      /\ bar \in Nat /\ Lookback \in Nat /\ capital \in Int
      /\ equityCurve \in Seq(Int) /\ Len(equityCurve) = bar - Lookback /\ AllBounded(trades)
  BY BacktestAssumption DEF B!Bar, B!books, TestInv, MarketInv
<1>2. Held(trades) \in Int
  BY <1>1, BoundedTerms
<1>3. SUFFICES /\ capital' \in Int
               /\ position' = B!NoPosition => Held(trades') <= bar' - Lookback
               /\ position' # B!NoPosition => Financed' /\ Held(trades') <= position'.opened - Lookback
  <2>1. ASSUME capital' \in Int, position' # B!NoPosition => Financed'
        PROVE  equityCurve' \in Seq(Int) /\ Len(equityCurve') = bar' - Lookback
    <3>1. equityCurve' \in Seq(Int) /\ Len(equityCurve') = Len(equityCurve) + 1
      BY <1>1, <2>1, EquityGrows
    <3> QED
      BY <1>1, <3>1
  <2>2. /\ bar' \in Nat /\ runningCapital' \in Int /\ allTestEquity' \in Seq(Int)
        /\ AllBounded(allTestTrades') /\ Held(allTestTrades') <= Len(allTestEquity')
    BY <1>1 DEF MarketInv
  <2>3. (B!NoPosition)' = B!NoPosition
    BY DEF B!NoPosition
  <2> QED
    BY <2>1, <2>2, <2>3 DEF MarketInv
<1>4. c.close \in Prices
  BY CloseIs
<1>5. CASE position = B!NoPosition
  <2>1. /\ trades' = trades /\ capital' = capital
        /\ position' = CASE signal = "BUY" -> B!enter("long", c.close)
                         [] signal = "SELL" -> B!enter("short", c.close)
                         [] OTHER -> B!NoPosition
    BY <1>5 DEF B!Bar
  <2>2. Held(trades) <= bar - Lookback
    BY <1>5 DEF MarketInv
  <2>3. ASSUME NEW side \in {"long", "short"}, position' = B!enter(side, c.close)
        PROVE  position' # B!NoPosition /\ Financed' /\ Held(trades') <= position'.opened - Lookback
    <3>1. Financed' /\ position' # B!NoPosition /\ position'.opened = bar
      BY <1>1, <1>4, <2>3, EntryFinanced
    <3> QED
      BY <2>1, <2>2, <3>1
  <2>4. CASE signal \in {"BUY", "SELL"}
    <3>1. PICK side \in {"long", "short"} : position' = B!enter(side, c.close)
      BY <2>1, <2>4
    <3> QED
      BY <1>1, <2>1, <2>3, <3>1
  <2>5. CASE signal = "HOLD"
    <3>1. position' = B!NoPosition
      BY <2>1, <2>5
    <3>2. Held(trades) <= (bar + 1) - Lookback
      BY <1>1, <1>2, <2>2
    <3> QED
      BY <1>1, <2>1, <3>1, <3>2
  <2> QED
    BY <2>4, <2>5
<1>6. CASE position # B!NoPosition /\ B!exitReason(c, signal) = "none"
  <2>1. position' = position /\ trades' = trades /\ capital' = capital
    BY <1>6 DEF B!Bar
  <2>2. Financed /\ Held(trades) <= position.opened - Lookback
    BY <1>6 DEF MarketInv
  <2>3. Financed'
    BY <2>1, <2>2 DEF Financed
  <2> QED
    BY <1>1, <1>6, <2>1, <2>2, <2>3
<1>7. CASE position # B!NoPosition /\ B!exitReason(c, signal) # "none"
  <2>1. PICK u : u = B!closed(c, B!exitReason(c, signal))
    OBVIOUS
  <2>2. position' = B!NoPosition /\ trades' = Append(trades, u) /\ capital' = capital + u.pnl
    BY <1>7, <2>1 DEF B!Bar
  <2>3. Financed /\ Opened /\ Held(trades) <= position.opened - Lookback
    BY <1>7 DEF MarketInv, TestInv
  <2>4. u.pnl \in Int /\ u.barsHeld = bar - position.opened
    BY <1>1, <2>1, <2>3, ClosedPnl
  <2>5. Bounded(u)
    BY <1>1, <1>7, <2>1, <2>3, ExitBounded
  <2>6. Held(trades') = Held(trades) + u.barsHeld
    BY <1>1, <2>2, <2>5, HeldOne
  <2>7. PICK o \in Nat : o = position.opened
    BY <2>3 DEF Opened
  <2>8. Held(trades) + (bar - o) <= (bar + 1) - Lookback
    BY <1>1, <1>2, <2>3, <2>7
  <2>9. capital + u.pnl \in Int
    BY <1>1, <2>4
  <2> QED
    BY <1>1, <2>2, <2>4, <2>6, <2>7, <2>8, <2>9
<1> QED
  BY <1>5, <1>6, <1>7

LEMMA StartKeepsMarket ==
    ASSUME NEW p, NEW amount \in Int, B!Start(p, amount), runningCapital' \in Int,
           allTestEquity' \in Seq(Int), AllBounded(allTestTrades'), Held(allTestTrades') <= Len(allTestEquity')
    PROVE  MarketInv'
<1>1. bar' = Lookback /\ Lookback \in Nat /\ capital' = amount /\ position' = B!NoPosition
      /\ trades' = << >> /\ equityCurve' = << >>
  BY BacktestAssumption DEF B!Start
<1>2. Len(equityCurve') = bar' - Lookback /\ equityCurve' \in Seq(Int)
  BY <1>1
<1>3. Held(trades') <= bar' - Lookback
  BY <1>1, NoneHeld
<1>4. (B!NoPosition)' = B!NoPosition
  BY DEF B!NoPosition
<1> QED
  BY <1>1, <1>2, <1>3, <1>4 DEF MarketInv

LEMMA MarketIsLeft == ASSUME TestInv, MarketInv PROVE Held(trades) <= Len(equityCurve)
<1>1. AllBounded(trades)
  BY DEF TestInv
<1>2. Held(trades) \in Int
  BY <1>1, BoundedTerms
<1>3. CASE position = B!NoPosition
  BY <1>3 DEF MarketInv
<1>4. CASE position # B!NoPosition
  <2>1. Held(trades) <= position.opened - Lookback /\ Opened /\ bar \in Nat /\ Lookback \in Nat
        /\ Len(equityCurve) = bar - Lookback
    BY <1>4, BacktestAssumption DEF MarketInv, TestInv
  <2>2. PICK o \in Nat : o = position.opened /\ bar - o \in 1..MaxHeld
    BY <2>1 DEF Opened
  <2>3. o <= bar
    BY <2>1, <2>2, BacktestAssumption
  <2> QED
    BY <1>2, <2>1, <2>2, <2>3
<1> QED
  BY <1>3, <1>4

LEMMA WindowKeepsMarket == ASSUME TestInv, MarketInv, B!NextWindow PROVE MarketInv'
<1>1. AllBounded(trades) /\ AllBounded(allTestTrades) /\ equityCurve \in Seq(Int) /\ allTestEquity \in Seq(Int)
  BY DEF TestInv, MarketInv
<1>2. runningCapital' \in Int
  <2>1. CASE equityCurve = << >>
    BY <2>1 DEF B!NextWindow, MarketInv
  <2>2. CASE equityCurve # << >>
    <3>1. PICK n \in Nat \ {0} : n = Len(equityCurve) /\ equityCurve[n] \in Int
      BY <1>1, <2>2
    <3>2. runningCapital' = equityCurve[n]
      BY <2>2, <3>1 DEF B!NextWindow, B!Last
    <3> QED
      BY <3>1, <3>2
  <2> QED
    BY <2>1, <2>2
<1>3. allTestTrades' = allTestTrades \o trades /\ allTestEquity' = allTestEquity \o equityCurve
  BY DEF B!NextWindow
<1>4. AllBounded(allTestTrades') /\ Held(allTestTrades') = Held(allTestTrades) + Held(trades)
  BY <1>1, <1>3, BothBounded
<1>5. allTestEquity' \in Seq(Int) /\ Len(allTestEquity') = Len(allTestEquity) + Len(equityCurve)
  BY <1>1, <1>3
<1>6. Held(trades) \in Int /\ Held(allTestTrades) \in Int
  BY <1>1, BoundedTerms
<1>7. Held(trades) <= Len(equityCurve)
  BY MarketIsLeft
<1>8. Held(allTestTrades') <= Len(allTestEquity')
  <2>1. Held(allTestTrades) <= Len(allTestEquity) /\ Len(allTestEquity) \in Nat /\ Len(equityCurve) \in Nat
    BY <1>1 DEF MarketInv
  <2> QED
    BY <1>4, <1>5, <1>6, <1>7, <2>1
<1>9. CASE window < Windows
  <2>1. B!Start("train", InitialCapital) /\ InitialCapital \in Int
    BY <1>9, BacktestAssumption DEF B!NextWindow
  <2> QED
    BY <1>2, <1>4, <1>5, <1>8, <2>1, StartKeepsMarket
<1>10. CASE ~(window < Windows)
  <2>1. UNCHANGED <<bar, capital, position, trades, equityCurve>>
    BY <1>10 DEF B!NextWindow
  <2>2. (B!NoPosition)' = B!NoPosition
    BY DEF B!NoPosition
  <2>3. Financed => Financed'
    BY <2>1 DEF Financed
  <2> QED
    BY <1>2, <1>4, <1>5, <1>8, <2>1, <2>2, <2>3 DEF MarketInv
<1> QED
  BY <1>9, <1>10

LEMMA MarketStep == TestInv /\ MarketInv /\ [B!Next]_backtestVars => MarketInv'
<1> SUFFICES ASSUME TestInv, MarketInv, [B!Next]_backtestVars PROVE MarketInv'
  OBVIOUS
<1>1. ASSUME NEW c \in B!Candle, NEW signal \in {"BUY", "SELL", "HOLD"}, B!Bar(c, signal) PROVE MarketInv'
  BY <1>1, BarKeepsMarket
<1>2. CASE B!Test
  <2>1. /\ B!Start("test", runningCapital) /\ runningCapital \in Int
        /\ runningCapital' = runningCapital /\ allTestEquity' = allTestEquity /\ allTestTrades' = allTestTrades
    BY <1>2 DEF B!Test, B!books, MarketInv
  <2> QED
    BY <2>1, StartKeepsMarket DEF MarketInv
<1>3. CASE B!NextWindow
  BY <1>3, WindowKeepsMarket
<1>4. CASE UNCHANGED backtestVars
  BY <1>4 DEF backtestVars, MarketInv, Financed, B!NoPosition
<1> QED
  BY <1>1, <1>2, <1>3, <1>4 DEF B!Next

LEMMA MarketHolds == Spec => [](part = "backtest" => MarketInv)
<1>1. Init => (part = "backtest" => MarketInv)
  <2> SUFFICES ASSUME Init, part = "backtest" PROVE MarketInv
    OBVIOUS
  <2>1. /\ bar = Lookback /\ capital = InitialCapital /\ position = B!NoPosition /\ trades = << >>
        /\ equityCurve = << >> /\ runningCapital = InitialCapital /\ allTestTrades = << >> /\ allTestEquity = << >>
        /\ Lookback \in Nat /\ InitialCapital \in Int
    BY BacktestAssumption DEF Init, B!Init
  <2>2. Len(<< >>) = 0 /\ << >> \in Seq(Int) /\ Lookback - Lookback = 0
    BY <2>1
  <2> QED
    BY <2>1, <2>2, NoTrades, NoneHeld DEF MarketInv
<1>2. (part = "backtest" => TestInv) /\ (part = "backtest" => MarketInv) /\ [Next]_vars
          => (part = "backtest" => MarketInv)'
  BY TestMoves, MarketStep
<1> QED
  BY <1>1, <1>2, TestHolds, PTL DEF Spec

(* The metrics of a backtest are those of what happened: the drawdown is   *)
(* the deepest fall of the curve, the streak the longest row of wins, and  *)
(* the market is not left later than there are bars; and no trade costs    *)
(* more than its stop (backtester/engine.ts, metrics.ts).                  *)
THEOREM TestAlwaysSound == Spec => []TestSound
<1>1. (part = "backtest" => TestInv) /\ (part = "backtest" => MarketInv) => (part = "backtest" => B!MetricsMatch)
  <2> SUFFICES ASSUME TestInv, MarketInv PROVE B!MetricsMatch
    OBVIOUS
  <2>1. AllBounded(trades) /\ AllBounded(allTestTrades) /\ equityCurve \in Seq(Int) /\ allTestEquity \in Seq(Int)
    BY DEF TestInv, MarketInv
  <2>2. B!DrawdownMatches(equityCurve) /\ B!DrawdownMatches(allTestEquity)
    BY <2>1, DrawdownRight
  <2>3. \A ts : AllBounded(ts) => B!StreakMatches(ts)
    BY StreakRight DEF AllBounded
  <2>4. Held(trades) <= Len(equityCurve)
    BY MarketIsLeft
  <2>5. Held(allTestTrades) <= Len(allTestEquity)
    BY DEF MarketInv
  <2>6. B!barsInMarket(trades) = Held(trades) /\ B!barsInMarket(allTestTrades) = Held(allTestTrades)
    BY MarketIsHeld
  <2> SUFFICES ASSUME NEW pass \in {<<equityCurve, trades>>, <<allTestEquity, allTestTrades>>}
               PROVE  /\ B!DrawdownMatches(pass[1]) /\ B!StreakMatches(pass[2])
                      /\ B!barsInMarket(pass[2]) <= Len(pass[1])
    BY DEF B!MetricsMatch
  <2>7. CASE pass = <<equityCurve, trades>>
    <3>1. pass[1] = equityCurve /\ pass[2] = trades
      BY <2>7
    <3> QED
      BY <2>1, <2>2, <2>3, <2>4, <2>6, <3>1
  <2>8. CASE pass = <<allTestEquity, allTestTrades>>
    <3>1. pass[1] = allTestEquity /\ pass[2] = allTestTrades
      BY <2>8
    <3> QED
      BY <2>1, <2>2, <2>3, <2>5, <2>6, <3>1
  <2> QED
    BY <2>7, <2>8
<1>2. (part = "backtest" => B!MetricsMatch) /\ (part = "backtest" => B!TradesBounded)
          /\ (part = "archive" => R!ArchiveSound) => TestSound
  BY DEF TestSound, B!TestSound
<1> QED
  BY <1>1, <1>2, TestHolds, MarketHolds, TradesStopInTime, ArchiveHolds, PTL

-----------------------------------------------------------------------------
(* The first members of a finite set, in an order in which what comes      *)
(* before a member is known for each of them.                              *)
Ordered(Z, Before) ==
    /\ \A a \in Z : a \notin Before[a]
    /\ \A a, b \in Z : a # b => a \in Before[b] \/ b \in Before[a]
    /\ \A a, b \in Z : a \in Before[b] => Before[a] \subseteq Before[b]
Firsts(Z, Before, n) == {a \in Z : Cardinality(Before[a]) < n}

LEMMA Ranks ==
    ASSUME NEW Z, IsFiniteSet(Z), NEW Before \in [Z -> SUBSET Z], Ordered(Z, Before)
    PROVE  /\ Cardinality(Z) \in Nat
           /\ \A a \in Z : Cardinality(Before[a]) \in 0..(Cardinality(Z) - 1)
           /\ \A a, b \in Z : a \in Before[b] => Cardinality(Before[a]) < Cardinality(Before[b])
           /\ \A k \in 0..(Cardinality(Z) - 1) : \E a \in Z : Cardinality(Before[a]) = k
<1>1. PICK n \in Nat : n = Cardinality(Z)
  BY FS_CardinalityType
<1>2. ASSUME NEW Y \in SUBSET Z, NEW X \in SUBSET Y, X # Y
      PROVE  Cardinality(X) \in Nat /\ Cardinality(Y) \in Nat /\ Cardinality(X) < Cardinality(Y)
  <2>1. IsFiniteSet(Y)
    BY FS_Subset
  <2>2. IsFiniteSet(X) /\ Cardinality(X) <= Cardinality(Y) /\ Cardinality(X) # Cardinality(Y)
    BY <1>2, <2>1, FS_Subset
  <2>3. Cardinality(X) \in Nat /\ Cardinality(Y) \in Nat
    BY <2>1, <2>2, FS_CardinalityType
  <2> QED
    BY <2>2, <2>3
<1>3. ASSUME NEW a \in Z PROVE Cardinality(Before[a]) \in 0..(n - 1)
  <2>1. Before[a] \in SUBSET Z /\ Before[a] # Z
    BY DEF Ordered
  <2>2. Cardinality(Before[a]) \in Nat /\ Cardinality(Before[a]) < n
    BY <1>1, <1>2, <2>1
  <2> QED
    BY <2>2
<1>4. ASSUME NEW a \in Z, NEW b \in Z, a \in Before[b]
      PROVE  Cardinality(Before[a]) < Cardinality(Before[b])
  <2>1. Before[b] \in SUBSET Z /\ Before[a] \in SUBSET Before[b] /\ Before[a] # Before[b]
    BY <1>4 DEF Ordered
  <2> QED
    BY <1>2, <2>1
<1> DEFINE f == [a \in Z |-> Cardinality(Before[a]) + 1]
<1>5. f \in [Z -> 1..n]
  BY <1>1, <1>3
<1>6. \A a, b \in Z : f[a] = f[b] => a = b
  <2> SUFFICES ASSUME NEW a \in Z, NEW b \in Z, a # b PROVE f[a] # f[b]
    OBVIOUS
  <2>1. a \in Before[b] \/ b \in Before[a]
    BY DEF Ordered
  <2>2. Cardinality(Before[a]) \in Nat /\ Cardinality(Before[b]) \in Nat
    BY <1>3
  <2>3. Cardinality(Before[a]) # Cardinality(Before[b])
    BY <1>4, <2>1, <2>2
  <2> QED
    BY <2>2, <2>3
<1>7. f \in Injection(Z, 1..n)
  BY <1>5, <1>6 DEF Injection, IsInjective
<1>8. IsFiniteSet(1..n) /\ Cardinality(1..n) = n
  <2>1. 1 \in Int /\ n \in Int
    OBVIOUS
  <2>2. IsFiniteSet(1..n) /\ Cardinality(1..n) = IF 1 > n THEN 0 ELSE n - 1 + 1
    BY <2>1, FS_Interval
  <2> QED
    BY <2>2
<1>9. f \in Surjection(Z, 1..n)
  BY <1>1, <1>7, <1>8, FS_Injection
<1>10. ASSUME NEW k \in 0..(n - 1) PROVE \E a \in Z : Cardinality(Before[a]) = k
  <2>1. k + 1 \in 1..n
    OBVIOUS
  <2>2. PICK a \in Z : f[a] = k + 1
    BY <1>9, <2>1 DEF Surjection
  <2>3. Cardinality(Before[a]) \in Nat /\ Cardinality(Before[a]) + 1 = k + 1
    BY <1>3, <2>2
  <2> QED
    BY <2>3
<1> QED
  BY <1>1, <1>3, <1>4, <1>10

(* Of more than n members, n are the first.                                *)
LEMMA FirstsAre ==
    ASSUME NEW Z, IsFiniteSet(Z), NEW Before \in [Z -> SUBSET Z], Ordered(Z, Before),
           NEW n \in Nat, NEW e \in Z, e \notin Firsts(Z, Before, n)
    PROVE  /\ IsFiniteSet(Firsts(Z, Before, n)) /\ Cardinality(Firsts(Z, Before, n)) = n
           /\ Cardinality(Z) > n
           /\ \A a \in Firsts(Z, Before, n) : a \in Before[e]
<1>1. PICK m \in Nat : m = Cardinality(Z)
  BY Ranks
<1>2. /\ \A a \in Z : Cardinality(Before[a]) \in 0..(m - 1)
      /\ \A a, b \in Z : a \in Before[b] => Cardinality(Before[a]) < Cardinality(Before[b])
      /\ \A k \in 0..(m - 1) : \E a \in Z : Cardinality(Before[a]) = k
  BY <1>1, Ranks
<1>3. PICK W : W = Firsts(Z, Before, n)
  OBVIOUS
<1>4. W \in SUBSET Z /\ \A a \in W : Cardinality(Before[a]) \in 0..(n - 1)
  BY <1>2, <1>3 DEF Firsts
<1>5. n <= Cardinality(Before[e]) /\ n < m
  BY <1>2 DEF Firsts
<1>6. \A a \in W : a \in Before[e]
  <2> SUFFICES ASSUME NEW a \in W PROVE a \in Before[e]
    OBVIOUS
  <2>1. a \in Z /\ a # e
    BY <1>3, <1>4
  <2>2. Cardinality(Before[a]) < Cardinality(Before[e])
    BY <1>2, <1>4, <1>5
  <2>3. ~(e \in Before[a])
    BY <1>2, <2>1, <2>2
  <2> QED
    BY <2>1, <2>3 DEF Ordered
<1> DEFINE g == [a \in W |-> Cardinality(Before[a]) + 1]
<1>7. g \in [W -> 1..n]
  BY <1>4
<1>8. \A a, b \in W : g[a] = g[b] => a = b
  <2> SUFFICES ASSUME NEW a \in W, NEW b \in W, a # b PROVE g[a] # g[b]
    OBVIOUS
  <2>1. a \in Z /\ b \in Z /\ (a \in Before[b] \/ b \in Before[a])
    BY <1>4 DEF Ordered
  <2>2. Cardinality(Before[a]) \in Nat /\ Cardinality(Before[b]) \in Nat
    BY <1>4
  <2>3. Cardinality(Before[a]) # Cardinality(Before[b])
    BY <1>2, <2>1, <2>2
  <2> QED
    BY <2>2, <2>3
<1>9. \A k \in 1..n : \E a \in W : g[a] = k
  <2> SUFFICES ASSUME NEW k \in 1..n PROVE \E a \in W : g[a] = k
    OBVIOUS
  <2>1. k - 1 \in 0..(m - 1) /\ k - 1 < n /\ (k - 1) + 1 = k
    BY <1>5
  <2>2. PICK a \in Z : Cardinality(Before[a]) = k - 1
    BY <1>2, <2>1
  <2>3. a \in W
    BY <1>3, <2>1, <2>2 DEF Firsts
  <2> QED
    BY <2>1, <2>2, <2>3
<1>10. g \in Injection(W, 1..n) /\ g \in Surjection(W, 1..n)
  BY <1>7, <1>8, <1>9 DEF Injection, IsInjective, Surjection
<1>11. IsFiniteSet(1..n) /\ Cardinality(1..n) = n
  <2>1. 1 \in Int /\ n \in Int
    OBVIOUS
  <2>2. IsFiniteSet(1..n) /\ Cardinality(1..n) = IF 1 > n THEN 0 ELSE n - 1 + 1
    BY <2>1, FS_Interval
  <2> QED
    BY <2>2
<1>12. IsFiniteSet(W) /\ (Cardinality(W) = Cardinality(1..n) <=> g \in Surjection(W, 1..n))
  BY <1>10, <1>11, FS_Injection
<1> QED
  BY <1>1, <1>3, <1>5, <1>6, <1>10, <1>11, <1>12

-----------------------------------------------------------------------------
(* EventHistory, for any rows, alerts and limits.                          *)

(* The rows of a source: each has a number, that is larger than those of   *)
(* its older rows.                                                         *)
IsSource(Z) ==
    /\ IsFiniteSet(Z)
    /\ \A a \in Z : a.id \in Nat /\ a.time \in Nat
    /\ \A a, b \in Z : a.id = b.id => a = b
    /\ \A a, b \in Z : a.id > b.id => a.time >= b.time

LEMMA HistoryCounts == ASSUME NEW Z PROVE H!Cardinality(Z) = Cardinality(Z)
  BY Zenon DEF H!Cardinality, Cardinality

LEMMA NewestAre ==
    ASSUME NEW Z, IsSource(Z), NEW n \in Nat
    PROVE  /\ H!newest(Z, n) \in SUBSET Z /\ IsFiniteSet(H!newest(Z, n))
           /\ \A e \in Z \ H!newest(Z, n) :
                  /\ Cardinality(H!newest(Z, n)) = n
                  /\ \A a \in H!newest(Z, n) : a.id > e.id /\ a.time >= e.time
<1> DEFINE Before == [r \in Z |-> {s \in Z : s.id > r.id}]
<1>1. Before \in [Z -> SUBSET Z]
  OBVIOUS
<1>2. Ordered(Z, Before)
  <2>1. \A a \in Z : a \notin Before[a]
    BY DEF IsSource
  <2>2. \A a, b \in Z : a # b => a \in Before[b] \/ b \in Before[a]
    BY DEF IsSource
  <2>3. \A a, b \in Z : a \in Before[b] => Before[a] \subseteq Before[b]
    BY DEF IsSource
  <2> HIDE DEF Before
  <2> QED
    BY <2>1, <2>2, <2>3 DEF Ordered
<1>3. H!newest(Z, n) = Firsts(Z, Before, n)
  <2>1. \A r \in Z : Before[r] = {s \in Z : s.id > r.id}
    OBVIOUS
  <2> HIDE DEF Before
  <2>2. ASSUME NEW r \in Z PROVE r \in H!newest(Z, n) <=> Cardinality(Before[r]) < n
    <3>1. r \in H!newest(Z, n) <=> Cardinality({s \in Z : s.id > r.id}) < n
      BY HistoryCounts, Zenon DEF H!newest
    <3> QED
      BY <2>1, <3>1, Zenon
  <2>3. H!newest(Z, n) \subseteq Z
    BY DEF H!newest
  <2> QED
    BY <2>2, <2>3, Zenon DEF Firsts
<1>4. H!newest(Z, n) \in SUBSET Z
  BY DEF H!newest
<1>5. IsFiniteSet(H!newest(Z, n))
  BY <1>4, FS_Subset DEF IsSource
<1>6. ASSUME NEW e \in Z, e \notin H!newest(Z, n)
      PROVE  Cardinality(H!newest(Z, n)) = n /\ \A a \in H!newest(Z, n) : a.id > e.id /\ a.time >= e.time
  <2>1. \A a \in H!newest(Z, n) : a \in Before[e] => a \in Z /\ a.id > e.id
    BY <1>4
  <2> HIDE DEF Before
  <2>2. e \notin Firsts(Z, Before, n) /\ IsFiniteSet(Z)
    BY <1>3, <1>6 DEF IsSource
  <2>3. Cardinality(Firsts(Z, Before, n)) = n /\ \A a \in Firsts(Z, Before, n) : a \in Before[e]
    BY <1>1, <1>2, <2>2, FirstsAre
  <2> QED
    BY <1>3, <2>1, <2>3 DEF IsSource
<1> QED
  BY <1>4, <1>5, <1>6

LEMMA SincePart == ASSUME NEW Z, IsSource(Z), NEW X \in SUBSET Z PROVE IsSource(X)
<1>1. IsFiniteSet(X)
  BY FS_Subset DEF IsSource
<1> QED
  BY <1>1 DEF IsSource

(* The events of a source, as many as its rows.                            *)
Types == {"trade", "signal", "alert"}
Told == [type : Types, id : Nat, time : Nat]
EventsOf(type, Z) == {H!event(type, r) : r \in Z}

LEMMA EventsAre ==
    ASSUME NEW type \in Types, NEW Z, IsSource(Z)
    PROVE  /\ EventsOf(type, Z) \in SUBSET Told /\ IsFiniteSet(EventsOf(type, Z))
           /\ Cardinality(EventsOf(type, Z)) = Cardinality(Z)
<1> DEFINE f == [r \in Z |-> H!event(type, r)]
           X == EventsOf(type, Z)
<1>1. \A r \in Z : H!event(type, r) \in Told /\ H!event(type, r).id = r.id
  BY DEF H!event, Told, IsSource
<1>2. f \in [Z -> X] /\ \A x \in X : \E r \in Z : f[r] = x
  BY DEF EventsOf
<1>3. \A a, b \in Z : f[a] = f[b] => a = b
  <2> SUFFICES ASSUME NEW a \in Z, NEW b \in Z, f[a] = f[b] PROVE a = b
    OBVIOUS
  <2>1. f[a].id = a.id /\ f[b].id = b.id
    BY <1>1
  <2> QED
    BY <2>1 DEF IsSource
<1> HIDE DEF f, X
<1>4. f \in Injection(Z, X) /\ f \in Surjection(Z, X)
  BY <1>2, <1>3 DEF Injection, IsInjective, Surjection
<1>5. IsFiniteSet(X) /\ (Cardinality(X) = Cardinality(Z) <=> f \in Injection(Z, X))
  BY <1>4, FS_Surjection DEF IsSource
<1>6. X \in SUBSET Told
  BY <1>1 DEF X, EventsOf
<1> QED
  BY <1>4, <1>5, <1>6 DEF X

(* The events come by their times, and of one time in the order merged.    *)
Earlier(Z) == [e \in Z |-> {d \in Z : H!before(d, e)}]

LEMMA TurnsDiffer ==
    ASSUME NEW d \in Told, NEW e \in Told
    PROVE  /\ H!turn(d) \in Nat /\ H!turn(e) \in Nat
           /\ H!turn(d) = H!turn(e) => d.type = e.type
  BY DEF H!turn, Told, Types

LEMMA EarlierOrders ==
    ASSUME NEW Z \in SUBSET Told
    PROVE  Earlier(Z) \in [Z -> SUBSET Z] /\ Ordered(Z, Earlier(Z))
<1>1. \A a, b \in Z : a \in Earlier(Z)[b] <=> H!before(a, b)
  BY DEF Earlier
<1>2. \A a \in Z : a.time \in Nat /\ a.id \in Nat /\ H!turn(a) \in Nat
  BY TurnsDiffer DEF Told
<1>3. ASSUME NEW a \in Z, NEW b \in Z, a # b PROVE H!before(a, b) \/ H!before(b, a)
  <2>1. CASE a.time = b.time /\ H!turn(a) = H!turn(b)
    <3>1. a.type = b.type
      BY <2>1, TurnsDiffer
    <3>2. a = [type |-> a.type, id |-> a.id, time |-> a.time] /\ b = [type |-> b.type, id |-> b.id, time |-> b.time]
      BY DEF Told
    <3>3. a.id # b.id
      BY <1>3, <2>1, <3>1, <3>2
    <3> QED
      BY <1>2, <2>1, <3>3 DEF H!before
  <2>2. CASE ~(a.time = b.time /\ H!turn(a) = H!turn(b))
    BY <1>2, <2>2 DEF H!before
  <2> QED
    BY <2>1, <2>2
<1>4. \A a \in Z : ~H!before(a, a)
  BY <1>2 DEF H!before
<1>5. \A a, b, c \in Z : H!before(a, b) /\ H!before(b, c) => H!before(a, c)
  BY <1>2 DEF H!before
<1>6. Earlier(Z) \in [Z -> SUBSET Z]
  BY DEF Earlier
<1>7. \A a, b \in Z : a \in Earlier(Z)[b] => Earlier(Z)[a] \subseteq Earlier(Z)[b]
  <2> SUFFICES ASSUME NEW a \in Z, NEW b \in Z, a \in Earlier(Z)[b], NEW c \in Earlier(Z)[a]
               PROVE  c \in Earlier(Z)[b]
    OBVIOUS
  <2>1. c \in Z
    BY <1>6
  <2> QED
    BY <1>1, <1>5, <2>1
<1> QED
  BY <1>1, <1>3, <1>4, <1>6, <1>7 DEF Ordered

LEMMA LineIs ==
    ASSUME NEW limit \in Nat, NEW from, H!merged(limit, from) \in SUBSET Told, IsFiniteSet(H!merged(limit, from))
    PROVE  LET line == H!timeline(limit, from)
               Z == H!merged(limit, from)
           IN  /\ DOMAIN line = 1..Len(line) /\ Len(line) \in Nat
               /\ Len(line) = IF Cardinality(Z) < limit THEN Cardinality(Z) ELSE limit
               /\ \A k \in 1..Len(line) : line[k] \in Z /\ Cardinality(Earlier(Z)[line[k]]) = k - 1
<1> DEFINE Z == H!merged(limit, from)
<1>0. Z \in SUBSET Told /\ IsFiniteSet(Z)
  OBVIOUS
<1>1. PICK m \in Nat : m = Cardinality(Z)
  BY FS_CardinalityType
<1>2. PICK n \in Nat : n = (IF m < limit THEN m ELSE limit) /\ n <= m
  OBVIOUS
<1>3. \A e \in Z : H!Cardinality({d \in Z : H!before(d, e)}) = Cardinality(Earlier(Z)[e])
  <2> SUFFICES ASSUME NEW e \in Z PROVE H!Cardinality({d \in Z : H!before(d, e)}) = Cardinality(Earlier(Z)[e])
    OBVIOUS
  <2>1. Earlier(Z)[e] = {d \in Z : H!before(d, e)}
    BY DEF Earlier
  <2> QED
    BY <2>1, HistoryCounts, Zenon
<1>4. PICK line : line = H!timeline(limit, from)
  OBVIOUS
<1> DEFINE of(k) == CHOOSE e \in Z : H!Cardinality({d \in Z : H!before(d, e)}) = k - 1
<1>5. line = [k \in 1..n |-> of(k)]
  <2>1. H!Cardinality(Z) = m
    BY <1>1, HistoryCounts
  <2>2. H!timeline(limit, from) =
            [k \in 1..(IF H!Cardinality(Z) < limit THEN H!Cardinality(Z) ELSE limit) |-> of(k)]
    BY Zenon DEF H!timeline
  <2> HIDE DEF Z
  <2> QED
    BY <1>2, <1>4, <2>1, <2>2, Zenon
<1> HIDE DEF Z
<1>6. ASSUME NEW k \in 1..n PROVE of(k) \in Z /\ Cardinality(Earlier(Z)[of(k)]) = k - 1
  <2>1. k - 1 \in 0..(m - 1)
    BY <1>2
  <2>2. PICK e \in Z : Cardinality(Earlier(Z)[e]) = k - 1
    BY <1>0, <1>1, <2>1, EarlierOrders, Ranks
  <2>3. H!Cardinality({d \in Z : H!before(d, e)}) = k - 1
    BY <1>3, <2>2
  <2>4. of(k) \in Z /\ H!Cardinality({d \in Z : H!before(d, of(k))}) = k - 1
    BY <2>3, Zenon
  <2> QED
    BY <1>3, <2>4
<1> HIDE DEF of
<1>7. \A k \in 1..n : line[k] = of(k)
  BY <1>5
<1>8. line = [k \in 1..n |-> line[k]] /\ \A k \in 1..n : line[k] \in Z
  BY <1>5, <1>6, <1>7
<1>9. Len(line) = n /\ DOMAIN line = 1..n
  BY <1>8, SeqByIndex
<1>10. \A k \in 1..n : Cardinality(Earlier(Z)[line[k]]) = k - 1
  BY <1>6, <1>7
<1> QED
  BY <1>1, <1>2, <1>4, <1>8, <1>9, <1>10 DEF Z

(* What was merged is left out only for what is no older, and so is what   *)
(* was cut by a source that still has as many as are asked for.            *)
LEMMA LineKeeps ==
    ASSUME NEW limit \in Nat, NEW from, NEW Z \in SUBSET Told, Z = H!merged(limit, from), IsFiniteSet(Z),
           NEW e \in Z, e \notin H!Range(H!timeline(limit, from))
    PROVE  LET line == H!timeline(limit, from)
           IN  Len(line) = limit /\ \A i \in DOMAIN line : line[i].time >= e.time
<1>1. PICK line : line = H!timeline(limit, from)
  OBVIOUS
<1>2. PICK m \in Nat : m = Cardinality(Z)
  BY FS_CardinalityType
<1>3. /\ DOMAIN line = 1..Len(line) /\ Len(line) \in Nat
      /\ Len(line) = IF m < limit THEN m ELSE limit
      /\ \A k \in 1..Len(line) : line[k] \in Z /\ Cardinality(Earlier(Z)[line[k]]) = k - 1
  BY <1>1, <1>2, LineIs
<1>4. Earlier(Z) \in [Z -> SUBSET Z] /\ Ordered(Z, Earlier(Z))
  BY EarlierOrders
<1>5. /\ \A a \in Z : Cardinality(Earlier(Z)[a]) \in 0..(m - 1)
      /\ \A a, b \in Z : a \in Earlier(Z)[b] => Cardinality(Earlier(Z)[a]) < Cardinality(Earlier(Z)[b])
  BY <1>2, <1>4, Ranks
<1>6. e \notin Firsts(Z, Earlier(Z), limit)
  <2> SUFFICES ASSUME e \in Firsts(Z, Earlier(Z), limit) PROVE FALSE
    OBVIOUS
  <2>1. PICK r \in 0..(m - 1) : r = Cardinality(Earlier(Z)[e]) /\ r < limit
    BY <1>5 DEF Firsts
  <2>2. r + 1 \in 1..Len(line) /\ (r + 1) - 1 = r
    BY <1>3, <2>1
  <2>3. line[r + 1] \in Z /\ Cardinality(Earlier(Z)[line[r + 1]]) = r
    BY <1>3, <2>2
  <2>4. line[r + 1] # e
    BY <1>1, <1>3, <2>2 DEF H!Range
  <2>5. line[r + 1] \in Earlier(Z)[e] \/ e \in Earlier(Z)[line[r + 1]]
    BY <1>4, <2>3, <2>4 DEF Ordered
  <2> QED
    BY <1>5, <2>1, <2>3, <2>5
<1>7. m > limit /\ \A a \in Firsts(Z, Earlier(Z), limit) : a \in Earlier(Z)[e]
  BY <1>2, <1>4, <1>6, FirstsAre
<1>8. Len(line) = limit
  BY <1>3, <1>7
<1>9. ASSUME NEW i \in 1..limit PROVE line[i].time >= e.time
  <2>1. line[i] \in Z /\ Cardinality(Earlier(Z)[line[i]]) = i - 1 /\ i - 1 < limit
    BY <1>3, <1>8
  <2>2. line[i] \in Firsts(Z, Earlier(Z), limit)
    BY <2>1 DEF Firsts
  <2>3. H!before(line[i], e)
    BY <1>7, <2>2 DEF Earlier
  <2>4. line[i].time \in Nat /\ e.time \in Nat
    BY <2>1 DEF Told
  <2> QED
    BY <2>3, <2>4 DEF H!before
<1> QED
  BY <1>1, <1>3, <1>8, <1>9

LEMMA LineFull ==
    ASSUME NEW limit \in Nat, NEW from, NEW Z \in SUBSET Told, Z = H!merged(limit, from), IsFiniteSet(Z),
           NEW X \in SUBSET Z, Cardinality(X) = limit, NEW t \in Nat, \A x \in X : x.time >= t
    PROVE  LET line == H!timeline(limit, from)
           IN  Len(line) = limit /\ \A i \in DOMAIN line : line[i].time >= t
<1>1. PICK line : line = H!timeline(limit, from)
  OBVIOUS
<1>2. PICK m \in Nat : m = Cardinality(Z) /\ limit <= m
  <2>1. Cardinality(X) <= Cardinality(Z)
    BY FS_Subset
  <2> QED
    BY <2>1, FS_CardinalityType
<1>3. /\ DOMAIN line = 1..Len(line) /\ Len(line) = limit
      /\ \A k \in 1..Len(line) : line[k] \in Z /\ Cardinality(Earlier(Z)[line[k]]) = k - 1
  BY <1>1, <1>2, LineIs
<1>4. ASSUME NEW i \in 1..limit, ~(line[i].time >= t) PROVE FALSE
  <2>1. line[i] \in Z /\ Cardinality(Earlier(Z)[line[i]]) = i - 1
    BY <1>3
  <2>2. line[i].time \in Nat /\ \A x \in X : x.time \in Nat /\ x \in Z
    BY <2>1 DEF Told
  <2>3. \A x \in X : H!before(x, line[i])
    BY <1>4, <2>2 DEF H!before
  <2>4. X \in SUBSET Earlier(Z)[line[i]] /\ Earlier(Z)[line[i]] \in SUBSET Z
    BY <2>1, <2>2, <2>3 DEF Earlier
  <2>5. IsFiniteSet(Earlier(Z)[line[i]])
    BY <2>4, FS_Subset
  <2>6. Cardinality(X) <= Cardinality(Earlier(Z)[line[i]])
    BY <2>4, <2>5, FS_Subset
  <2>7. limit <= i - 1
    BY <2>1, <2>6
  <2> QED
    BY <2>7
<1> QED
  BY <1>1, <1>3, <1>4

(* A log whose rows are a source, none numbered past n or after a time.    *)
Log(s, n, t) ==
    /\ s \in Seq(H!Range(s)) /\ IsSource(H!Range(s))
    /\ \A a \in H!Range(s) : a.id <= n /\ a.time <= t

LEMMA LogEmpty == ASSUME NEW n, NEW t PROVE Log(<< >>, n, t)
<1>1. H!Range(<< >>) = {}
  BY DEF H!Range
<1>2. IsSource({})
  BY FS_EmptySet DEF IsSource
<1> QED
  BY <1>1, <1>2 DEF Log

LEMMA LogGrows ==
    ASSUME NEW n \in Nat, NEW t \in Nat, NEW s, Log(s, n, t), NEW x, x.id = n + 1, x.time = t
    PROVE  Log(Append(s, x), n + 1, t) /\ Len(Append(s, x)) = Len(s) + 1 /\ Len(s) \in Nat
<1> DEFINE Z == H!Range(s)
           Y == Z \union {x}
<1>1. s \in Seq(Z) /\ IsSource(Z) /\ \A a \in Z : a.id <= n /\ a.time <= t
  BY DEF Log
<1>2. H!Range(Append(s, x)) = Y
  <2>1. Z = {s[i] : i \in DOMAIN s} /\ H!Range(Append(s, x)) = {Append(s, x)[i] : i \in DOMAIN Append(s, x)}
    BY DEF H!Range
  <2> HIDE DEF Z
  <2>2. PICK m \in Nat : m = Len(s) /\ DOMAIN s = 1..m
    BY <1>1
  <2>3. /\ DOMAIN Append(s, x) = 1..(m + 1) /\ Append(s, x)[m + 1] = x
        /\ \A i \in 1..m : Append(s, x)[i] = s[i]
    BY <1>1, <2>2
  <2>4. 1..(m + 1) = (1..m) \union {m + 1}
    BY <2>2
  <2> QED
    BY <2>1, <2>2, <2>3, <2>4
<1> HIDE DEF Z
<1>3. IsFiniteSet(Y)
  BY <1>1, FS_AddElement DEF IsSource
<1>4. IsSource(Y)
  <2>1. \A a \in Y : a.id \in Nat /\ a.time \in Nat
    BY <1>1 DEF IsSource
  <2>2. \A a, b \in Y : a.id = b.id => a = b
    BY <1>1 DEF IsSource
  <2>3. \A a, b \in Y : a.id > b.id => a.time >= b.time
    BY <1>1 DEF IsSource
  <2> HIDE DEF Y
  <2> QED
    BY <1>3, <2>1, <2>2, <2>3 DEF IsSource
<1>5. \A a \in Y : a.id <= n + 1 /\ a.time <= t
  BY <1>1 DEF IsSource
<1>6. s \in Seq(Y) /\ x \in Y
  BY <1>1
<1> HIDE DEF Y
<1>7. Append(s, x) \in Seq(Y) /\ Len(Append(s, x)) = Len(s) + 1 /\ Len(s) \in Nat
  BY <1>6
<1> QED
  BY <1>2, <1>4, <1>5, <1>7 DEF Log

LEMMA LogShrinks == ASSUME NEW n, NEW t, NEW s, Log(s, n, t), Len(s) > 0 PROVE Log(Tail(s), n, t)
<1>1. PICK m \in Nat : m = Len(s) /\ DOMAIN s = 1..m /\ m > 0
  BY DEF Log
<1>2. PICK u : u = Tail(s)
  OBVIOUS
<1>3. /\ DOMAIN u = 1..(m - 1) /\ Len(u) = m - 1 /\ u = [i \in 1..(m - 1) |-> u[i]]
      /\ \A i \in 1..(m - 1) : u[i] = s[i + 1]
  <2>1. s # << >> /\ s \in Seq(H!Range(s))
    BY <1>1 DEF Log
  <2>2. u \in Seq(H!Range(s)) /\ Len(u) = m - 1 /\ \A i \in 1..Len(u) : u[i] = s[i + 1]
    BY <1>1, <1>2, <2>1, HeadTailProperties
  <2> QED
    BY <1>1, <2>2
<1>4. H!Range(u) \subseteq H!Range(s)
  <2>1. \A i \in 1..(m - 1) : i + 1 \in 1..m
    BY <1>1
  <2> QED
    BY <1>1, <1>3, <2>1 DEF H!Range
<1>5. u \in Seq(H!Range(u))
  <2>1. \A i \in 1..(m - 1) : u[i] \in H!Range(u)
    BY <1>3 DEF H!Range
  <2>2. m - 1 \in Nat
    BY <1>1
  <2> QED
    BY <1>3, <2>1, <2>2, SeqByIndex
<1>6. IsSource(H!Range(u))
  BY <1>4, SincePart DEF Log
<1> QED
  BY <1>2, <1>4, <1>5, <1>6 DEF Log

LEMMA LogOlder ==
    ASSUME NEW n, NEW t \in Nat, NEW s, Log(s, n, t)
    PROVE  Log(s, n, t + 1)
  BY DEF Log, IsSource

(* What is written is a source: the tables, and the alerts that are kept.  *)
HistoryInv ==
    /\ time \in Nat
    /\ Len(trade_rows) \in Nat /\ Log(trade_rows, Len(trade_rows), time)
    /\ Len(signal_log) \in Nat /\ Log(signal_log, Len(signal_log), time)
    /\ \E n \in Nat : nextAlert = n + 1 /\ Log(ring, n, time)

LEMMA HistoryMoves ==
    [Next]_vars => part' = part /\ (part = "history" => [H!Next]_historyVars)
  BY DEF Next, vars

LEMMA SignalLogged ==
    ASSUME HistoryInv, NEW outcome,
           signal_log' = Append(signal_log, [id |-> Len(signal_log) + 1, outcome |-> outcome, time |-> time]),
           time' = time
    PROVE  Len(signal_log') \in Nat /\ Log(signal_log', Len(signal_log'), time')
<1>1. PICK x : x = [id |-> Len(signal_log) + 1, outcome |-> outcome, time |-> time]
  OBVIOUS
<1>2. PICK n \in Nat : n = Len(signal_log)
  BY DEF HistoryInv
<1>3. x.id = n + 1 /\ x.time = time /\ time \in Nat /\ Log(signal_log, n, time)
  BY <1>1, <1>2 DEF HistoryInv
<1>4. Log(Append(signal_log, x), n + 1, time) /\ Len(Append(signal_log, x)) = n + 1
  BY <1>2, <1>3, LogGrows
<1> QED
  BY <1>1, <1>2, <1>4

LEMMA HistoryStep == HistoryInv /\ [H!Next]_historyVars => HistoryInv'
<1> SUFFICES ASSUME HistoryInv, [H!Next]_historyVars PROVE HistoryInv'
  OBVIOUS
<1>1. CASE H!Tick
  <2>1. time' = time + 1 /\ UNCHANGED <<trade_rows, signal_log, ring, nextAlert>> /\ time \in Nat
    BY <1>1 DEF H!Tick, HistoryInv
  <2>2. PICK n \in Nat : nextAlert = n + 1 /\ Log(ring, n, time)
    BY DEF HistoryInv
  <2>3. Log(ring, n, time + 1)
    BY <2>1, <2>2, LogOlder
  <2>4. Log(trade_rows, Len(trade_rows), time + 1) /\ Log(signal_log, Len(signal_log), time + 1)
    BY <2>1, LogOlder DEF HistoryInv
  <2> QED
    BY <2>1, <2>2, <2>3, <2>4 DEF HistoryInv
<1>2. ASSUME NEW outcome, H!Judge(outcome) PROVE HistoryInv'
  <2>1. /\ UNCHANGED <<time, trade_rows, ring, nextAlert>>
        /\ signal_log' = Append(signal_log, [id |-> Len(signal_log) + 1, outcome |-> outcome, time |-> time])
    BY <1>2 DEF H!Judge
  <2> QED
    BY <2>1, SignalLogged DEF HistoryInv
<1>3. ASSUME NEW journalled, H!Execute(journalled) PROVE HistoryInv'
  <2>1. /\ UNCHANGED <<time, ring, nextAlert>>
        /\ signal_log' = Append(signal_log, [id |-> Len(signal_log) + 1, outcome |-> "executed", time |-> time])
        /\ \/ trade_rows' = trade_rows
           \/ trade_rows' = Append(trade_rows, [id |-> Len(trade_rows) + 1, time |-> time])
    BY <1>3 DEF H!Execute
  <2>2. Len(trade_rows') \in Nat /\ Log(trade_rows', Len(trade_rows'), time)
    <3>1. CASE trade_rows' = trade_rows
      BY <3>1 DEF HistoryInv
    <3>2. CASE trade_rows' = Append(trade_rows, [id |-> Len(trade_rows) + 1, time |-> time])
      <4>1. PICK x : x = [id |-> Len(trade_rows) + 1, time |-> time]
        OBVIOUS
      <4>2. PICK n \in Nat : n = Len(trade_rows)
        BY DEF HistoryInv
      <4>3. x.id = n + 1 /\ x.time = time /\ time \in Nat /\ Log(trade_rows, n, time)
        BY <4>1, <4>2 DEF HistoryInv
      <4>4. Log(Append(trade_rows, x), n + 1, time) /\ Len(Append(trade_rows, x)) = n + 1
        BY <4>2, <4>3, LogGrows
      <4> QED
        BY <3>2, <4>1, <4>2, <4>4
    <3> QED
      BY <2>1, <3>1, <3>2
  <2> QED
    BY <2>1, <2>2, SignalLogged DEF HistoryInv
<1>4. CASE H!Alert
  <2>1. PICK n \in Nat : nextAlert = n + 1 /\ Log(ring, n, time)
    BY DEF HistoryInv
  <2>2. PICK x : x = [id |-> n + 1, time |-> time]
    OBVIOUS
  <2>3. PICK all : all = Append(ring, x)
    OBVIOUS
  <2>4. /\ ring' = IF Len(all) > RingSize THEN Tail(all) ELSE all
        /\ nextAlert' = nextAlert + 1 /\ UNCHANGED <<time, trade_rows, signal_log>>
    BY <1>4, <2>1, <2>2, <2>3 DEF H!Alert
  <2>5. Log(all, n + 1, time) /\ Len(all) > 0
    <3>1. x.id = n + 1 /\ x.time = time /\ time \in Nat
      BY <2>2 DEF HistoryInv
    <3>2. Log(all, n + 1, time) /\ Len(all) = Len(ring) + 1 /\ Len(ring) \in Nat
      BY <2>1, <2>3, <3>1, LogGrows
    <3> QED
      BY <3>2
  <2>6. Log(Tail(all), n + 1, time)
    BY <2>5, LogShrinks
  <2>7. Log(ring', n + 1, time)
    BY <2>4, <2>5, <2>6
  <2> QED
    BY <2>1, <2>4, <2>7 DEF HistoryInv
<1>5. CASE H!Restart
  <2>1. ring' = << >> /\ nextAlert' = 1 /\ UNCHANGED <<time, trade_rows, signal_log>>
    BY <1>5 DEF H!Restart
  <2>2. nextAlert' = 0 + 1 /\ Log(ring', 0, time')
    BY <2>1, LogEmpty
  <2> QED
    BY <2>1, <2>2 DEF HistoryInv
<1>6. CASE UNCHANGED historyVars
  BY <1>6 DEF historyVars, HistoryInv
<1> QED
  BY <1>1, <1>2, <1>3, <1>4, <1>5, <1>6 DEF H!Next

LEMMA HistoryHolds == Spec => [](part = "history" => HistoryInv)
<1>1. Init => (part = "history" => HistoryInv)
  <2> SUFFICES ASSUME Init, part = "history" PROVE HistoryInv
    OBVIOUS
  <2>1. time = 0 /\ trade_rows = << >> /\ signal_log = << >> /\ ring = << >> /\ nextAlert = 0 + 1
    BY DEF Init, H!Init
  <2>2. Len(<< >>) \in Nat
    OBVIOUS
  <2> QED
    BY <2>1, <2>2, LogEmpty DEF HistoryInv
<1>2. (part = "history" => HistoryInv) /\ [Next]_vars => (part = "history" => HistoryInv)'
  BY HistoryMoves, HistoryStep
<1> QED
  BY <1>1, <1>2, PTL DEF Spec
(* What is merged are events, of which there are finitely many.            *)
Merged(limit, from) ==
    EventsOf("trade", H!ofTime(H!newest(H!Range(trade_rows), limit), from))
        \union EventsOf("signal", H!blocked(limit, from))
        \union EventsOf("alert", H!newest(H!ofTime(H!Range(ring), from), limit))

LEMMA MergedIs == ASSUME NEW limit, NEW from PROVE H!merged(limit, from) = Merged(limit, from)
  BY DEF H!merged, Merged, EventsOf, H!getSince

LEMMA SourcesAre ==
    ASSUME HistoryInv, NEW limit \in Nat, NEW from
    PROVE  /\ IsSource(H!Range(trade_rows)) /\ IsSource(H!ofTime(H!Range(ring), from))
           /\ H!merged(limit, from) \in SUBSET Told /\ IsFiniteSet(H!merged(limit, from))
<1>1. IsSource(H!Range(trade_rows)) /\ IsSource(H!Range(signal_log)) /\ IsSource(H!Range(ring))
  BY DEF HistoryInv, Log
<1>2. IsSource(H!ofTime(H!Range(ring), from))
  <2>1. H!ofTime(H!Range(ring), from) \in SUBSET H!Range(ring)
    BY DEF H!ofTime
  <2> QED
    BY <1>1, <2>1, SincePart
<1>3. IsSource(H!newest(H!ofTime(H!Range(ring), from), limit))
  BY <1>2, NewestAre, SincePart
<1>4. IsSource(H!ofTime(H!newest(H!Range(trade_rows), limit), from))
  <2>1. H!ofTime(H!newest(H!Range(trade_rows), limit), from) \in SUBSET H!Range(trade_rows)
    BY <1>1, NewestAre DEF H!ofTime
  <2> QED
    BY <1>1, <2>1, SincePart
<1>5. IsSource(H!blocked(limit, from))
  <2>1. H!blocked(limit, from) \in SUBSET H!Range(signal_log)
    BY <1>1, NewestAre DEF H!ofTime, H!blocked
  <2> QED
    BY <1>1, <2>1, SincePart
<1> DEFINE X == EventsOf("trade", H!ofTime(H!newest(H!Range(trade_rows), limit), from))
           Y == EventsOf("signal", H!blocked(limit, from))
           Z == EventsOf("alert", H!newest(H!ofTime(H!Range(ring), from), limit))
<1>6. X \in SUBSET Told /\ IsFiniteSet(X) /\ Y \in SUBSET Told /\ IsFiniteSet(Y) /\ Z \in SUBSET Told /\ IsFiniteSet(Z)
  <2>1. "trade" \in Types /\ "signal" \in Types /\ "alert" \in Types
    BY DEF Types
  <2> QED
    BY <1>3, <1>4, <1>5, <2>1, EventsAre
<1>7. H!merged(limit, from) = (X \union Y) \union Z
  BY MergedIs DEF Merged
<1> HIDE DEF X, Y, Z
<1>8. IsFiniteSet(X \union Y)
  BY <1>6, FS_Union
<1>9. IsFiniteSet((X \union Y) \union Z)
  BY <1>6, <1>8, FS_Union
<1> QED
  BY <1>1, <1>2, <1>6, <1>7, <1>9

(* What a source cuts, it cuts for as many as are asked for.               *)
LEMMA CutKeeps ==
    ASSUME HistoryInv, NEW limit \in Nat, NEW from, NEW type \in Types, NEW Z, IsSource(Z),
           EventsOf(type, H!newest(Z, limit)) \subseteq H!merged(limit, from),
           NEW r \in Z, r \notin H!newest(Z, limit)
    PROVE  LET line == H!timeline(limit, from)
           IN  Len(line) = limit /\ \A i \in DOMAIN line : line[i].time >= H!event(type, r).time
<1>1. /\ H!newest(Z, limit) \in SUBSET Z /\ Cardinality(H!newest(Z, limit)) = limit
      /\ \A a \in H!newest(Z, limit) : a.time >= r.time
  BY NewestAre
<1>2. PICK X : X = EventsOf(type, H!newest(Z, limit))
  OBVIOUS
<1>3. Cardinality(X) = limit
  BY <1>1, <1>2, EventsAre, SincePart
<1>4. PICK t \in Nat : t = r.time /\ H!event(type, r).time = t
  BY DEF H!event, IsSource
<1>5. \A x \in X : x.time >= t
  BY <1>1, <1>2, <1>4 DEF EventsOf, H!event
<1>6. X \in SUBSET H!merged(limit, from)
  BY <1>2
<1>7. H!merged(limit, from) \in SUBSET Told /\ IsFiniteSet(H!merged(limit, from))
  BY SourcesAre
<1>8. PICK Y : Y = H!merged(limit, from)
  OBVIOUS
<1>9. LET line == H!timeline(limit, from)
      IN  Len(line) = limit /\ \A i \in DOMAIN line : line[i].time >= t
  BY <1>3, <1>5, <1>6, <1>7, <1>8, LineFull
<1> QED
  BY <1>4, <1>9

(* A time line leaves out what is of interest only for what is no older,   *)
(* although its sources are cut before they are merged (routes.ts,         *)
(* GET /api/events/timeline).                                              *)
THEOREM TimelineHolds == Spec => [](part = "history" => H!TimelineComplete)
<1>1. (part = "history" => HistoryInv) => (part = "history" => H!TimelineComplete)
  <2> SUFFICES ASSUME HistoryInv, NEW limit \in Limits, NEW from \in 0..time,
                      NEW e, e.time >= from, e \notin H!Range(H!timeline(limit, from)),
                      \/ \E r \in H!Range(trade_rows) : e = H!event("trade", r)
                      \/ \E r \in H!Range(ring) : e = H!event("alert", r)
                      \/ \E r \in H!newest(H!Range(signal_log), limit) :
                             r.outcome = "blocked" /\ e = H!event("signal", r)
               PROVE  LET line == H!timeline(limit, from)
                      IN  Len(line) = limit /\ \A i \in DOMAIN line : line[i].time >= e.time
    BY Zenon DEF H!TimelineComplete
  <2>1. limit \in Nat /\ time \in Nat /\ from \in Nat
    BY HistoryAssumption DEF HistoryInv
  <2>2. /\ IsSource(H!Range(trade_rows)) /\ IsSource(H!ofTime(H!Range(ring), from))
        /\ H!merged(limit, from) \in SUBSET Told /\ IsFiniteSet(H!merged(limit, from))
    BY <2>1, SourcesAre
  <2>3. ASSUME e \in H!merged(limit, from)
        PROVE  LET line == H!timeline(limit, from)
               IN  Len(line) = limit /\ \A i \in DOMAIN line : line[i].time >= e.time
    BY <2>1, <2>2, <2>3, LineKeeps
  <2>4. "trade" \in Types /\ "alert" \in Types
    BY DEF Types
  <2>5. CASE \E r \in H!Range(trade_rows) : e = H!event("trade", r)
    <3>1. PICK r \in H!Range(trade_rows) : e = H!event("trade", r) /\ r.time >= from /\ r.time \in Nat
      BY <2>2, <2>5 DEF H!event, IsSource
    <3>2. CASE r \in H!newest(H!Range(trade_rows), limit)
      <4>1. e \in H!merged(limit, from)
        BY <3>1, <3>2, MergedIs DEF Merged, EventsOf, H!ofTime
      <4> QED
        BY <2>3, <4>1
    <3>3. CASE r \notin H!newest(H!Range(trade_rows), limit)
      <4>1. \A a \in H!newest(H!Range(trade_rows), limit) : a.time >= r.time /\ a.time \in Nat
        BY <2>1, <2>2, <3>1, <3>3, NewestAre DEF IsSource
      <4>2. H!ofTime(H!newest(H!Range(trade_rows), limit), from) = H!newest(H!Range(trade_rows), limit)
        BY <2>1, <3>1, <4>1 DEF H!ofTime
      <4>3. EventsOf("trade", H!newest(H!Range(trade_rows), limit)) \subseteq H!merged(limit, from)
        BY <4>2, MergedIs DEF Merged
      <4> QED
        BY <2>1, <2>2, <2>4, <3>1, <3>3, <4>3, CutKeeps
    <3> QED
      BY <3>2, <3>3
  <2>6. CASE \E r \in H!Range(ring) : e = H!event("alert", r)
    <3>1. PICK r \in H!Range(ring) : e = H!event("alert", r) /\ r.time >= from
      BY <2>6 DEF H!event
    <3>2. PICK Z : Z = H!ofTime(H!Range(ring), from)
      OBVIOUS
    <3>3. r \in Z /\ IsSource(Z)
      BY <2>2, <3>1, <3>2 DEF H!ofTime
    <3>4. EventsOf("alert", H!newest(Z, limit)) \subseteq H!merged(limit, from)
      BY <3>2, MergedIs DEF Merged
    <3>5. CASE r \in H!newest(Z, limit)
      <4>1. e \in EventsOf("alert", H!newest(Z, limit))
        BY <3>1, <3>5 DEF EventsOf
      <4> QED
        BY <2>3, <3>4, <4>1
    <3>6. CASE r \notin H!newest(Z, limit)
      BY <2>1, <2>4, <3>1, <3>3, <3>4, <3>6, CutKeeps
    <3> QED
      BY <3>5, <3>6
  <2>7. CASE \E r \in H!newest(H!Range(signal_log), limit) : r.outcome = "blocked" /\ e = H!event("signal", r)
    <3>1. PICK r \in H!newest(H!Range(signal_log), limit) :
              r.outcome = "blocked" /\ e = H!event("signal", r) /\ r.time >= from
      BY <2>7 DEF H!event
    <3>2. r \in H!blocked(limit, from)
      BY <3>1 DEF H!blocked, H!ofTime
    <3>3. e \in H!merged(limit, from)
      BY <3>1, <3>2, MergedIs DEF Merged, EventsOf
    <3> QED
      BY <2>3, <3>3
  <2> QED
    BY <2>5, <2>6, <2>7
<1> QED
  BY <1>1, HistoryHolds, PTL

-----------------------------------------------------------------------------
(* TradeBooks: the pass that compares the journal with the fills, for any  *)
(* pages, orders and crashes.                                              *)
PartsOf(o, s) == Cardinality({i \in DOMAIN s : s[i].order = o})
Fill == [order : Nat, qty : {1}, fee : {1}]
Entry == [order : Nat, qty : Nat, fee : Nat, action : {"entry", "exit"}, pnl : Int, date : Nat]

LEMMA BooksCount == ASSUME NEW Z PROVE J!Cardinality(Z) = Cardinality(Z)
  BY Zenon DEF J!Cardinality, Cardinality

LEMMA BooksSum == ASSUME NEW f, NEW n PROVE J!SumTo(f, n) = SumTo(f, n)
  BY Zenon DEF J!SumTo, J!SumsTo, SumTo, SumsTo

(* A sum of ones counts.                                                   *)
LEMMA OnesCounted ==
    ASSUME NEW n \in Nat, NEW X, NEW f, \A i \in 1..n : f[i] = IF i \in X THEN 1 ELSE 0
    PROVE  SumTo(f, n) = Cardinality({i \in 1..n : i \in X})
<1> DEFINE Y(m) == {i \in 1..m : i \in X}
           W == {m \in 0..n : IsFiniteSet(Y(m)) /\ SumTo(f, m) = Cardinality(Y(m))}
<1>1. 0 \in W
  <2>1. Y(0) = {}
    OBVIOUS
  <2> HIDE DEF Y
  <2>2. IsFiniteSet(Y(0)) /\ Cardinality(Y(0)) = 0
    BY <2>1, FS_EmptySet
  <2>3. SumTo(f, 0) = 0
    BY SumNone
  <2> QED
    BY <2>2, <2>3
<1>2. ASSUME NEW i \in (0 + 1)..n, i - 1 \in W PROVE i \in W
  <2>1. PICK m \in Nat : m = i - 1 /\ i = m + 1 /\ i \in 0..n /\ i \in 1..n
    OBVIOUS
  <2>2. Terms(f, m + 1)
    BY <2>1 DEF Terms
  <2>3. SumTo(f, i) = SumTo(f, m) + f[i]
    BY <2>1, <2>2, SumNext
  <2>4. IsFiniteSet(Y(m)) /\ SumTo(f, m) = Cardinality(Y(m))
    BY <1>2, <2>1
  <2>5. Cardinality(Y(m)) \in Nat
    BY <2>4, FS_CardinalityType
  <2>6. CASE i \in X
    <3>1. Y(i) = Y(m) \union {i} /\ i \notin Y(m)
      BY <2>1, <2>6
    <3> HIDE DEF Y
    <3>2. IsFiniteSet(Y(i)) /\ Cardinality(Y(i)) = Cardinality(Y(m)) + 1
      BY <2>4, <3>1, FS_AddElement
    <3>3. f[i] = 1
      BY <2>1, <2>6
    <3> QED
      BY <2>1, <2>3, <2>4, <3>2, <3>3
  <2>7. CASE i \notin X
    <3>1. Y(i) = Y(m)
      BY <2>1, <2>7
    <3> HIDE DEF Y
    <3>2. f[i] = 0
      BY <2>1, <2>7
    <3> QED
      BY <2>1, <2>3, <2>4, <2>5, <3>1, <3>2
  <2> QED
    BY <2>6, <2>7
<1>3. n \in W
  <2> HIDE DEF W
  <2>1. \A i \in 0..n : i \in W
    BY <1>1, <1>2, Climb
  <2> QED
    BY <2>1
<1> QED
  BY <1>3

(* What a page adds up to for an order is how many of its fills are there. *)
LEMMA FillsCounted ==
    ASSUME NEW page \in Seq(Fill), NEW o \in {page[i].order : i \in DOMAIN page}
    PROVE  J!byOrder(page)[o].qty = PartsOf(o, page) /\ J!byOrder(page)[o].fee = PartsOf(o, page)
<1>1. PICK n \in Nat : n = Len(page) /\ DOMAIN page = 1..n
  OBVIOUS
<1>2. \A i \in 1..n : page[i].qty = 1 /\ page[i].fee = 1
  <2>1. \A i \in 1..n : page[i] \in Fill
    BY <1>1
  <2>2. \A x \in Fill : x.qty = 1 /\ x.fee = 1
    BY DEF Fill
  <2> QED
    BY <2>1, <2>2
<1> DEFINE own == {i \in 1..n : page[i].order = o}
           f == [i \in DOMAIN page |-> IF page[i].order = o THEN [j \in DOMAIN page |-> page[j].qty][i] ELSE 0]
           g == [i \in DOMAIN page |-> IF page[i].order = o THEN [j \in DOMAIN page |-> page[j].fee][i] ELSE 0]
<1>3. J!byOrder(page)[o] = [qty |-> J!SumTo(f, n), fee |-> J!SumTo(g, n)]
  BY <1>1 DEF J!byOrder, J!ofOrder
<1>4. /\ \A i \in 1..n : f[i] = IF i \in own THEN 1 ELSE 0
      /\ \A i \in 1..n : g[i] = IF i \in own THEN 1 ELSE 0
  BY <1>1, <1>2
<1>5. {i \in 1..n : i \in own} = own
  OBVIOUS
<1> HIDE DEF f, g, own
<1>6. J!SumTo(f, n) = Cardinality(own) /\ J!SumTo(g, n) = Cardinality(own)
  <2>1. J!SumTo(f, n) = SumTo(f, n) /\ J!SumTo(g, n) = SumTo(g, n)
    BY BooksSum
  <2>2. SumTo(f, n) = Cardinality({i \in 1..n : i \in own})
    BY <1>4, OnesCounted
  <2>3. SumTo(g, n) = Cardinality({i \in 1..n : i \in own})
    BY <1>4, OnesCounted
  <2> QED
    BY <1>5, <2>1, <2>2, <2>3
<1>7. PartsOf(o, page) = Cardinality(own)
  BY <1>1, Zenon DEF PartsOf, own
<1> QED
  BY <1>3, <1>6, <1>7

LEMMA NewestPage ==
    ASSUME NEW Z, NEW s \in Seq(Z), NEW n \in Nat
    PROVE  /\ J!newest(s, n) \in Seq(Z)
           /\ \A i \in DOMAIN J!newest(s, n) : \E j \in DOMAIN s : J!newest(s, n)[i] = s[j]
<1>1. PICK m \in Nat : m = Len(s) /\ DOMAIN s = 1..m
  OBVIOUS
<1>2. CASE m <= n
  BY <1>1, <1>2 DEF J!newest
<1>3. CASE ~(m <= n)
  <2>0. J!newest(s, n) = SubSeq(s, m - n + 1, m)
    BY <1>1, <1>3 DEF J!newest
  <2>1. PICK l \in Nat \ {0} : l = m - n + 1 /\ J!newest(s, n) = SubSeq(s, l, m) /\ l <= m + 1
    <3>1. PICK l : l = m - n + 1
      OBVIOUS
    <3>2. l \in Nat \ {0} /\ l <= m + 1
      BY <1>1, <1>3, <3>1
    <3> QED
      BY <2>0, <3>1, <3>2
  <2>2. \A i \in l..m : s[i] \in Z
    BY <1>1, <2>1
  <2>3. /\ SubSeq(s, l, m) \in Seq(Z)
        /\ Len(SubSeq(s, l, m)) = (IF l <= m THEN m - l + 1 ELSE 0)
        /\ \A i \in 1..(m - l + 1) : SubSeq(s, l, m)[i] = s[l + i - 1]
    BY <1>1, <2>1, <2>2, SubSeqProperties
  <2>4. DOMAIN SubSeq(s, l, m) = 1..(m - l + 1)
    BY <1>1, <2>1, <2>3
  <2>5. \A i \in 1..(m - l + 1) : l + i - 1 \in 1..m
    BY <1>1, <2>1
  <2> QED
    BY <1>1, <2>1, <2>3, <2>4, <2>5
<1> QED
  BY <1>2, <1>3

(* An order has an entry once it is confirmed, that says how much was      *)
(* filled; and no other.                                                   *)
PassInv ==
    /\ fills \in Seq(Fill) /\ trade_journal \in Seq(Entry)
    /\ \E k \in Nat : J!orders = 1..k
    /\ open \subseteq J!orders
    /\ \A i \in DOMAIN trade_journal :
           /\ trade_journal[i].order \in J!orders \ open
           /\ trade_journal[i].qty = PartsOf(trade_journal[i].order, fills)
    /\ \A i, j \in DOMAIN trade_journal : trade_journal[i].order = trade_journal[j].order => i = j

LEMMA PlaceKeepsPass ==
    ASSUME PassInv, NEW parts \in 1..2, J!Place(parts)
    PROVE  PassInv'
<1>1. PICK k \in Nat : J!orders = 1..k
  BY DEF PassInv
<1>2. J!Cardinality(J!orders) = k
  <2>1. 1 \in Int /\ k \in Int
    OBVIOUS
  <2>2. Cardinality(1..k) = IF 1 > k THEN 0 ELSE k - 1 + 1
    BY <2>1, FS_Interval
  <2>3. Cardinality(1..k) = k
    BY <2>2
  <2> QED
    BY <1>1, <2>3, BooksCount
<1>3. PICK o \in Nat : o = k + 1
  OBVIOUS
<1>4. PICK x \in Fill : x = [order |-> o, qty |-> 1, fee |-> 1] /\ x.order = o
  <2>1. PICK x : x = [order |-> o, qty |-> 1, fee |-> 1]
    OBVIOUS
  <2>2. x \in Fill
    BY <2>1 DEF Fill
  <2> QED
    BY <2>1, <2>2
<1>5. PICK new : new = [i \in 1..parts |-> x]
  OBVIOUS
<1>6. new \in Seq(Fill) /\ Len(new) = parts /\ parts \in 1..2 /\ \A i \in 1..parts : new[i] = x
  BY <1>5
<1>7. fills' = fills \o new /\ open' = open \union {o} /\ trade_journal' = trade_journal
  BY <1>2, <1>3, <1>4, <1>5 DEF J!Place
<1>8. PICK m \in Nat : m = Len(fills) /\ DOMAIN fills = 1..m /\ fills \in Seq(Fill)
  BY DEF PassInv
<1>9. /\ fills' \in Seq(Fill) /\ DOMAIN fills' = 1..(m + parts)
      /\ \A i \in 1..m : fills'[i] = fills[i]
      /\ \A i \in (m + 1)..(m + parts) : fills'[i] = x
  <2>1. Len(fills \o new) = m + parts /\ fills \o new \in Seq(Fill)
    BY <1>6, <1>8
  <2>2. \A i \in (m + 1)..(m + parts) : i - m \in 1..parts
    BY <1>8
  <2> QED
    BY <1>6, <1>7, <1>8, <2>1, <2>2
<1>10. (J!orders)' = 1..(k + 1)
  <2>1. (J!orders)' = {fills'[i].order : i \in 1..(m + parts)} /\ J!orders = {fills[i].order : i \in 1..m}
    BY <1>8, <1>9 DEF J!orders
  <2>2. 1..(m + parts) = (1..m) \union ((m + 1)..(m + parts)) /\ m + 1 \in (m + 1)..(m + parts)
    BY <1>8
  <2>3. {fills'[i].order : i \in 1..(m + parts)} = {fills[i].order : i \in 1..m} \union {o}
    BY <1>4, <1>9, <2>2
  <2>4. 1..(k + 1) = (1..k) \union {o}
    BY <1>3
  <2> QED
    BY <1>1, <2>1, <2>3, <2>4
<1>11. ASSUME NEW p \in 1..k PROVE PartsOf(p, fills') = PartsOf(p, fills)
  <2>1. p # o
    BY <1>3
  <2>2. {i \in DOMAIN fills' : fills'[i].order = p} = {i \in DOMAIN fills : fills[i].order = p}
    <3>1. \A i \in 1..(m + parts) : i \notin 1..m => fills'[i].order = o
      BY <1>4, <1>8, <1>9
    <3>2. 1..m \subseteq 1..(m + parts)
      BY <1>8
    <3> QED
      BY <1>8, <1>9, <2>1, <3>1, <3>2
  <2> QED
    BY <2>2, Zenon DEF PartsOf
<1>12. ASSUME NEW i \in DOMAIN trade_journal
       PROVE  /\ trade_journal[i].order \in (1..(k + 1)) \ open'
              /\ trade_journal[i].qty = PartsOf(trade_journal[i].order, fills')
  <2>1. /\ trade_journal[i].order \in (1..k) \ open
        /\ trade_journal[i].qty = PartsOf(trade_journal[i].order, fills)
    BY <1>1 DEF PassInv
  <2>2. o \notin 1..k /\ 1..k \subseteq 1..(k + 1)
    BY <1>3
  <2> QED
    BY <1>7, <1>11, <2>1, <2>2
<1>13. open' \subseteq 1..(k + 1)
  <2>1. open \subseteq 1..k /\ o \in 1..(k + 1) /\ 1..k \subseteq 1..(k + 1)
    BY <1>1, <1>3 DEF PassInv
  <2> QED
    BY <1>7, <2>1
<1>14. k + 1 \in Nat /\ trade_journal \in Seq(Entry)
  BY DEF PassInv
<1>15. \A i, j \in DOMAIN trade_journal' : trade_journal'[i].order = trade_journal'[j].order => i = j
  BY <1>7 DEF PassInv
<1> QED
  BY <1>7, <1>9, <1>10, <1>12, <1>13, <1>14, <1>15 DEF PassInv

LEMMA ConfirmKeepsPass ==
    ASSUME PassInv, today \in Nat, NEW o \in open, NEW fee \in BOOLEAN, NEW kept, NEW pnl \in Int, J!Confirm(o, fee, kept, pnl)
    PROVE  PassInv'
<1>1. /\ open' = open \ {o} /\ fills' = fills /\ (J!orders)' = J!orders
      /\ fills \in Seq(Fill) /\ trade_journal \in Seq(Entry)
  BY DEF J!Confirm, J!orders, PassInv
<1>2. PICK q : q = PartsOf(o, fills)
  OBVIOUS
<1>3. q \in Nat
  <2>1. {i \in DOMAIN fills : fills[i].order = o} \in SUBSET DOMAIN fills /\ DOMAIN fills = 1..Len(fills) /\ Len(fills) \in Int
    BY <1>1
  <2>2. IsFiniteSet({i \in DOMAIN fills : fills[i].order = o})
    BY <2>1, FS_Interval, FS_Subset
  <2> QED
    BY <1>2, <2>2, FS_CardinalityType DEF PartsOf
<1>4. PICK e : e = [order |-> o, qty |-> q, fee |-> IF fee THEN q ELSE 0,
                    action |-> IF pnl = 0 THEN "entry" ELSE "exit", pnl |-> pnl, date |-> today]
  OBVIOUS
<1>5. J!Cardinality({i \in DOMAIN fills : fills[i].order = o}) = q
  BY <1>2, BooksCount, Zenon DEF PartsOf
<1>6. trade_journal' = IF kept THEN Append(trade_journal, e) ELSE trade_journal
  BY <1>4, <1>5 DEF J!Confirm
<1>7. PICK k \in Nat : J!orders = 1..k /\ open \subseteq 1..k /\ o \in 1..k
  BY DEF PassInv
<1>8. e \in Entry /\ e.order = o /\ e.qty = q
  <2>1. PICK c \in Nat : c = IF fee THEN q ELSE 0
    BY <1>3
  <2>2. PICK a \in {"entry", "exit"} : a = IF pnl = 0 THEN "entry" ELSE "exit"
    OBVIOUS
  <2>3. e = [order |-> o, qty |-> q, fee |-> c, action |-> a, pnl |-> pnl, date |-> today]
    BY <1>4, <2>1, <2>2
  <2>4. o \in Nat
    BY <1>7
  <2> QED
    BY <1>3, <2>3, <2>4 DEF Entry
<1>9. CASE ~kept
  <2>1. trade_journal' = trade_journal
    BY <1>6, <1>9
  <2> QED
    BY <1>1, <1>7, <2>1 DEF PassInv
<1>10. CASE kept
  <2>1. PICK n \in Nat : n = Len(trade_journal) /\ DOMAIN trade_journal = 1..n
    BY <1>1
  <2>2. /\ trade_journal' \in Seq(Entry) /\ DOMAIN trade_journal' = 1..(n + 1)
        /\ \A i \in 1..n : trade_journal'[i] = trade_journal[i]
        /\ trade_journal'[n + 1] = e
    BY <1>1, <1>6, <1>8, <1>10, <2>1
  <2>3. \A i \in 1..n : /\ trade_journal[i].order \in (1..k) \ open
                        /\ trade_journal[i].qty = PartsOf(trade_journal[i].order, fills)
                        /\ trade_journal[i].order # o
    BY <1>7, <2>1 DEF PassInv
  <2>4. \A i \in 1..(n + 1) : i \in 1..n \/ i = n + 1
    OBVIOUS
  <2>5. \A i \in 1..(n + 1) : /\ trade_journal'[i].order \in (1..k) \ open'
                              /\ trade_journal'[i].qty = PartsOf(trade_journal'[i].order, fills')
    <3> SUFFICES ASSUME NEW i \in 1..(n + 1)
                 PROVE  /\ trade_journal'[i].order \in (1..k) \ open'
                        /\ trade_journal'[i].qty = PartsOf(trade_journal'[i].order, fills)
      BY <1>1
    <3>1. CASE i \in 1..n
      BY <1>1, <2>2, <2>3, <3>1
    <3>2. CASE i = n + 1
      BY <1>1, <1>2, <1>7, <1>8, <2>2, <3>2
    <3> QED
      BY <2>4, <3>1, <3>2
  <2>6. \A i, j \in 1..(n + 1) : trade_journal'[i].order = trade_journal'[j].order => i = j
    <3>1. \A i, j \in 1..n : trade_journal[i].order = trade_journal[j].order => i = j
      BY <2>1 DEF PassInv
    <3> QED
      BY <1>8, <2>2, <2>3, <2>4, <3>1
  <2> QED
    BY <1>1, <1>7, <2>2, <2>5, <2>6 DEF PassInv
<1> QED
  BY <1>9, <1>10

LEMMA PassStep == CountersInv /\ PassInv /\ [J!Next]_booksVars => PassInv'
<1> SUFFICES ASSUME CountersInv, PassInv, [J!Next]_booksVars PROVE PassInv'
  OBVIOUS
<1>1. ASSUME NEW parts \in 1..2, J!Place(parts) PROVE PassInv'
  BY <1>1, PlaceKeepsPass
<1>2. ASSUME NEW o \in open, NEW fee \in BOOLEAN, NEW kept \in BOOLEAN, NEW pnl \in Results \union {0},
             J!Confirm(o, fee, kept, pnl)
      PROVE  PassInv'
  <2>1. today \in Nat
    BY BooksAssumption DEF CountersInv
  <2>2. pnl \in Int
    BY BooksAssumption
  <2> QED
    BY <1>2, <2>1, <2>2, ConfirmKeepsPass
<1>3. ASSUME UNCHANGED <<fills, trade_journal>>, open' \subseteq open PROVE PassInv'
  <2>1. (J!orders)' = J!orders
    BY <1>3 DEF J!orders
  <2> QED
    BY <1>3, <2>1 DEF PassInv
<1>4. CASE J!Crash
  BY <1>3, <1>4 DEF J!Crash
<1>5. CASE J!Midnight \/ J!Block \/ J!Reconcile \/ J!ReconcileFails
  <2>1. UNCHANGED <<fills, trade_journal, open>>
    BY <1>5 DEF J!Midnight, J!Block, J!Reconcile, J!ReconcileFails, J!books
  <2> QED
    BY <1>3, <2>1
<1>6. CASE UNCHANGED booksVars
  BY <1>3, <1>6 DEF booksVars
<1> QED
  BY <1>1, <1>2, <1>4, <1>5, <1>6 DEF J!Next

LEMMA PassHolds == Spec => [](part = "books" => CountersInv /\ PassInv)
<1>1. Init => (part = "books" => CountersInv /\ PassInv)
  <2> SUFFICES ASSUME Init, part = "books" PROVE CountersInv /\ PassInv
    OBVIOUS
  <2>1. CountersInv
    BY CountersBegin
  <2>2. fills = << >> /\ open = {} /\ trade_journal = << >>
    BY DEF Init, J!Init
  <2>3. J!orders = 1..0
    BY <2>2 DEF J!orders
  <2> QED
    BY <2>1, <2>2, <2>3 DEF PassInv
<1>2. (part = "books" => CountersInv /\ PassInv) /\ [Next]_vars => (part = "books" => CountersInv /\ PassInv)'
  BY BooksMove, BooksStep, PassStep
<1> QED
  BY <1>1, <1>2, PTL DEF Spec

(* Where three sets cover a fourth, their members are at least as many.    *)
LEMMA Covered ==
    ASSUME NEW Z, IsFiniteSet(Z), NEW X \in SUBSET Z, NEW Y \in SUBSET Z, NEW Q \in SUBSET Z, NEW O \in SUBSET Z
    PROVE  /\ Cardinality(X) \in Nat /\ Cardinality(Y) \in Nat /\ Cardinality(Q) \in Nat /\ Cardinality(O) \in Nat
           /\ O \subseteq X \union Y \union Q => Cardinality(X) + (Cardinality(Y) + Cardinality(Q)) >= Cardinality(O)
<1>1. \A V \in SUBSET Z : IsFiniteSet(V) /\ Cardinality(V) \in Nat
  BY FS_Subset, FS_CardinalityType
<1>2. \A V, V2 \in SUBSET Z : Cardinality(V \union V2) = Cardinality(V) + Cardinality(V2) - Cardinality(V \intersect V2)
  <2> SUFFICES ASSUME NEW V \in SUBSET Z, NEW V2 \in SUBSET Z
               PROVE  Cardinality(V \union V2) = Cardinality(V) + Cardinality(V2) - Cardinality(V \intersect V2)
    OBVIOUS
  <2>1. IsFiniteSet(V) /\ IsFiniteSet(V2)
    BY <1>1
  <2> QED
    BY <2>1, FS_Union
<1>3. \A V, V2 \in SUBSET Z : Cardinality(V \union V2) <= Cardinality(V) + Cardinality(V2)
  <2> SUFFICES ASSUME NEW V \in SUBSET Z, NEW V2 \in SUBSET Z
               PROVE  Cardinality(V \union V2) <= Cardinality(V) + Cardinality(V2)
    OBVIOUS
  <2>1. V \union V2 \in SUBSET Z /\ V \intersect V2 \in SUBSET Z
    OBVIOUS
  <2>2. Cardinality(V \union V2) \in Nat /\ Cardinality(V \intersect V2) \in Nat /\ Cardinality(V) \in Nat /\ Cardinality(V2) \in Nat
    BY <1>1, <2>1
  <2>3. Cardinality(V \union V2) = Cardinality(V) + Cardinality(V2) - Cardinality(V \intersect V2)
    BY <1>2
  <2> QED
    BY <2>2, <2>3
<1>4. Cardinality(X) \in Nat /\ Cardinality(Y) \in Nat /\ Cardinality(Q) \in Nat /\ Cardinality(O) \in Nat
  BY <1>1
<1>5. ASSUME O \subseteq X \union Y \union Q
      PROVE  Cardinality(X) + (Cardinality(Y) + Cardinality(Q)) >= Cardinality(O)
  <2>1. PICK W : W = Y \union Q
    OBVIOUS
  <2>2. PICK V : V = X \union W
    OBVIOUS
  <2>3. W \in SUBSET Z /\ V \in SUBSET Z /\ O \in SUBSET V
    BY <1>5, <2>1, <2>2
  <2>4. Cardinality(W) <= Cardinality(Y) + Cardinality(Q) /\ Cardinality(V) <= Cardinality(X) + Cardinality(W)
    BY <1>3, <2>1, <2>2, <2>3
  <2>5. IsFiniteSet(V) /\ Cardinality(V) \in Nat /\ Cardinality(W) \in Nat
    BY <1>1, <2>3
  <2>6. Cardinality(O) <= Cardinality(V)
    BY <2>3, <2>5, FS_Subset
  <2> QED
    BY <1>4, <2>4, <2>5, <2>6
<1> QED
  BY <1>4, <1>5

(* The entries of an order: there is one at most, it says how much was     *)
(* filled, and a page of the journal shows no other.                       *)
LEMMA ItsEntry ==
    ASSUME PassInv, NEW o, NEW n \in Nat
    PROVE  /\ \A e \in J!entriesOf(o, trade_journal) : e.qty = PartsOf(o, fills)
           /\ \A e1, e2 \in J!entriesOf(o, trade_journal) : e1 = e2
           /\ J!entriesOf(o, J!newest(trade_journal, n)) \subseteq J!entriesOf(o, trade_journal)
<1>1. trade_journal \in Seq(Entry)
  BY DEF PassInv
<1>2. \A e \in J!entriesOf(o, trade_journal) : \E i \in DOMAIN trade_journal : e = trade_journal[i] /\ e.order = o
  BY DEF J!entriesOf, J!Range
<1>3. /\ \A i \in DOMAIN trade_journal : trade_journal[i].qty = PartsOf(trade_journal[i].order, fills)
      /\ \A i, j \in DOMAIN trade_journal : trade_journal[i].order = trade_journal[j].order => i = j
  BY DEF PassInv
<1>4. \A e \in J!entriesOf(o, trade_journal) : e.qty = PartsOf(o, fills)
  BY <1>2, <1>3
<1>5. \A e1, e2 \in J!entriesOf(o, trade_journal) : e1 = e2
  <2> SUFFICES ASSUME NEW e1 \in J!entriesOf(o, trade_journal), NEW e2 \in J!entriesOf(o, trade_journal)
               PROVE  e1 = e2
    OBVIOUS
  <2>1. PICK i \in DOMAIN trade_journal : e1 = trade_journal[i] /\ e1.order = o
    BY <1>2
  <2>2. PICK j \in DOMAIN trade_journal : e2 = trade_journal[j] /\ e2.order = o
    BY <1>2
  <2> QED
    BY <1>3, <2>1, <2>2
<1>6. J!entriesOf(o, J!newest(trade_journal, n)) \subseteq J!entriesOf(o, trade_journal)
  <2>1. \A i \in DOMAIN J!newest(trade_journal, n) : \E j \in DOMAIN trade_journal :
            J!newest(trade_journal, n)[i] = trade_journal[j]
    BY <1>1, NewestPage
  <2> QED
    BY <2>1, Zenon DEF J!entriesOf, J!Range
<1> QED
  BY <1>4, <1>5, <1>6

(* What the exchange shows of an order on a page of fills.                 *)
LEMMA SeenOrders ==
    ASSUME PassInv, NEW n \in Nat
    PROVE  /\ J!newest(fills, n) \in Seq(Fill)
           /\ DOMAIN J!byOrder(J!newest(fills, n)) \subseteq J!orders
           /\ \A o \in DOMAIN J!byOrder(J!newest(fills, n)) :
                  /\ J!byOrder(J!newest(fills, n))[o].qty = PartsOf(o, J!newest(fills, n))
                  /\ J!byOrder(J!newest(fills, n))[o].fee = PartsOf(o, J!newest(fills, n))
           /\ \A o \in J!orders : PartsOf(o, J!newest(fills, n)) = PartsOf(o, fills)
                  => o \in DOMAIN J!byOrder(J!newest(fills, n))
<1>1. PICK page : page = J!newest(fills, n)
  OBVIOUS
<1>2. fills \in Seq(Fill) /\ DOMAIN fills = 1..Len(fills) /\ Len(fills) \in Int
  BY DEF PassInv
<1>3. /\ page \in Seq(Fill)
      /\ \A i \in DOMAIN page : \E j \in DOMAIN fills : page[i] = fills[j]
  <2>1. /\ J!newest(fills, n) \in Seq(Fill)
        /\ \A i \in DOMAIN J!newest(fills, n) : \E j \in DOMAIN fills : J!newest(fills, n)[i] = fills[j]
    BY <1>2, NewestPage
  <2> QED
    BY <1>1, <2>1
<1>4. DOMAIN J!byOrder(page) = {page[i].order : i \in DOMAIN page}
  BY DEF J!byOrder
<1>5. DOMAIN J!byOrder(page) \subseteq J!orders
  BY <1>3, <1>4 DEF J!orders
<1>6. \A o \in DOMAIN J!byOrder(page) : /\ J!byOrder(page)[o].qty = PartsOf(o, page)
                                        /\ J!byOrder(page)[o].fee = PartsOf(o, page)
  BY <1>3, <1>4, FillsCounted
<1>7. ASSUME NEW o \in J!orders, PartsOf(o, page) = PartsOf(o, fills)
      PROVE  o \in DOMAIN J!byOrder(page)
  <2>1. PICK j \in DOMAIN fills : fills[j].order = o
    BY DEF J!orders
  <2>2. {i \in DOMAIN fills : fills[i].order = o} \in SUBSET DOMAIN fills /\ {i \in DOMAIN fills : fills[i].order = o} # {}
    BY <2>1
  <2>3. IsFiniteSet({i \in DOMAIN fills : fills[i].order = o})
    BY <1>2, <2>2, FS_Interval, FS_Subset
  <2>4. PartsOf(o, fills) # 0
    BY <2>2, <2>3, FS_EmptySet DEF PartsOf
  <2>5. {i \in DOMAIN page : page[i].order = o} # {}
    <3>1. Cardinality({}) = 0
      BY FS_EmptySet
    <3> QED
      BY <1>7, <2>4, <3>1 DEF PartsOf
  <2> QED
    BY <1>4, <2>5
<1> QED
  BY <1>1, <1>3, <1>5, <1>6, <1>7

LEMMA PassCounts ==
    ASSUME PassInv, J!Reconcile
    PROVE  J!PassTells
<1>1. FillPage \in Nat /\ JournalPage \in Nat
  BY BooksAssumption
<1> DEFINE page == J!newest(fills, FillPage)
           lately == J!newest(trade_journal, JournalPage)
           summary == J!byOrder(page)
           orphan == {o \in DOMAIN summary : J!entriesOf(o, lately) = {}}
           found == (DOMAIN summary) \ orphan
           offQty == {o \in found : \E e \in J!entriesOf(o, lately) : e.qty # summary[o].qty}
           offFee == {o \in found : \E e \in J!entriesOf(o, lately) : e.fee # summary[o].fee}
           agrees(o) == \E e \in J!entriesOf(o, trade_journal) : e.qty = PartsOf(o, fills) /\ e.fee = e.qty
           whole == {o \in J!orders : PartsOf(o, page) = PartsOf(o, fills)}
           wrong == {o \in J!orders : ~agrees(o)}
<1>2. /\ result'.orphans = J!Cardinality(orphan)
      /\ result'.mismatches = J!Cardinality(offQty) + J!Cardinality(offFee)
  BY DEF J!Reconcile
<1>3. /\ DOMAIN summary \subseteq J!orders
      /\ \A o \in DOMAIN summary : summary[o].qty = PartsOf(o, page) /\ summary[o].fee = PartsOf(o, page)
      /\ \A o \in whole : o \in DOMAIN summary
  BY <1>1, SeenOrders
<1>4. \A o : /\ \A e \in J!entriesOf(o, trade_journal) : e.qty = PartsOf(o, fills)
             /\ \A e1, e2 \in J!entriesOf(o, trade_journal) : e1 = e2
             /\ J!entriesOf(o, lately) \subseteq J!entriesOf(o, trade_journal)
  BY <1>1, ItsEntry
<1>5. IsFiniteSet(J!orders)
  <2>1. PICK k \in Nat : J!orders = 1..k
    BY DEF PassInv
  <2> QED
    BY <2>1, FS_Interval
<1>6. whole \intersect wrong \subseteq orphan \union offQty \union offFee
  <2> SUFFICES ASSUME NEW o \in whole, o \in wrong, o \notin orphan PROVE o \in offQty \/ o \in offFee
    OBVIOUS
  <2>1. o \in DOMAIN summary /\ o \in found /\ ~agrees(o) /\ PartsOf(o, page) = PartsOf(o, fills)
    BY <1>3
  <2>2. PICK e \in J!entriesOf(o, lately) : e \in J!entriesOf(o, trade_journal)
    BY <1>4, <2>1
  <2>3. e.qty = PartsOf(o, fills) /\ e.fee # e.qty
    BY <1>4, <2>1, <2>2
  <2>4. e.fee # summary[o].fee
    BY <1>3, <2>1, <2>3
  <2> QED
    BY <2>1, <2>2, <2>4
<1>7. ASSUME Len(fills) <= FillPage, Len(trade_journal) <= JournalPage
      PROVE  orphan \union offFee = wrong /\ orphan \intersect offFee = {} /\ offQty = {}
  <2>1. page = fills /\ lately = trade_journal
    BY <1>7 DEF J!newest
  <2>2. DOMAIN summary = J!orders
    BY <1>3, <2>1
  <2>3. \A o \in J!orders : summary[o].qty = PartsOf(o, fills) /\ summary[o].fee = PartsOf(o, fills)
    BY <1>3, <2>1, <2>2
  <2>4. offQty = {}
    BY <1>4, <2>1, <2>2, <2>3
  <2>5. \A o \in orphan : o \in J!orders /\ ~agrees(o)
    BY <2>1, <2>2
  <2>6. ASSUME NEW o \in offFee PROVE o \in J!orders /\ ~agrees(o)
    <3>1. PICK e \in J!entriesOf(o, trade_journal) : e.fee # PartsOf(o, fills)
      BY <2>1, <2>2, <2>3
    <3> QED
      BY <1>4, <2>2, <3>1
  <2>7. ASSUME NEW o \in wrong, o \notin orphan PROVE o \in offFee
    <3>1. o \in found /\ ~agrees(o) /\ o \in J!orders
      BY <2>2, <2>7
    <3>2. PICK e : e \in J!entriesOf(o, trade_journal)
      BY <2>1, <3>1
    <3>3. e.qty = PartsOf(o, fills) /\ e.fee # e.qty
      BY <1>4, <3>1, <3>2
    <3>4. e.fee # summary[o].fee
      BY <2>3, <3>1, <3>3
    <3> QED
      BY <2>1, <3>1, <3>2, <3>4
  <2>8. orphan \intersect offFee = {}
    OBVIOUS
  <2>9. orphan \subseteq wrong /\ offFee \subseteq wrong /\ wrong \subseteq orphan \union offFee
    BY <2>5, <2>6, <2>7
  <2> QED
    BY <2>4, <2>8, <2>9
<1>8. /\ orphan \in SUBSET J!orders /\ offQty \in SUBSET J!orders /\ offFee \in SUBSET J!orders
      /\ whole \intersect wrong \in SUBSET J!orders /\ wrong \in SUBSET J!orders
  BY <1>3
<1>9. /\ result'.orphans = Cardinality(orphan)
      /\ result'.mismatches = Cardinality(offQty) + Cardinality(offFee)
  BY <1>2, BooksCount
<1> HIDE DEF orphan, offQty, offFee, whole, wrong
<1>10. result'.orphans + result'.mismatches >= Cardinality(whole \intersect wrong)
  BY <1>5, <1>6, <1>8, <1>9, Covered
<1>11. (Len(fills) <= FillPage /\ Len(trade_journal) <= JournalPage)
           => result'.orphans + result'.mismatches = Cardinality(wrong)
  <2> SUFFICES ASSUME Len(fills) <= FillPage, Len(trade_journal) <= JournalPage
               PROVE  result'.orphans + result'.mismatches = Cardinality(wrong)
    OBVIOUS
  <2>1. orphan \union offFee = wrong /\ orphan \intersect offFee = {} /\ offQty = {}
    BY <1>7
  <2>2. Cardinality(orphan) + (Cardinality(offQty) + Cardinality(offFee)) = Cardinality(wrong)
    <3>1. IsFiniteSet(orphan) /\ IsFiniteSet(offFee)
      BY <1>5, <1>8, FS_Subset
    <3>2. Cardinality(orphan \union offFee)
              = Cardinality(orphan) + Cardinality(offFee) - Cardinality(orphan \intersect offFee)
      BY <3>1, FS_Union
    <3>3. Cardinality(orphan \intersect offFee) = 0 /\ Cardinality(offQty) = 0
      BY <2>1, FS_EmptySet
    <3>4. Cardinality(orphan) \in Nat /\ Cardinality(offFee) \in Nat
      BY <3>1, FS_CardinalityType
    <3>5. Cardinality(wrong) = Cardinality(orphan) + Cardinality(offFee) - 0
      BY <2>1, <3>2, <3>3
    <3> QED
      BY <3>3, <3>4, <3>5
  <2> QED
    BY <1>9, <2>2
<1>12. /\ whole = {o \in J!orders : J!Cardinality({i \in DOMAIN page : page[i].order = o})
                                        = J!Cardinality({i \in DOMAIN fills : fills[i].order = o})}
       /\ wrong = {o \in J!orders : ~ \E e \in J!entriesOf(o, trade_journal) :
                       e.qty = J!Cardinality({i \in DOMAIN fills : fills[i].order = o}) /\ e.fee = e.qty}
  <2>1. \A o, s : J!Cardinality({i \in DOMAIN s : s[i].order = o}) = PartsOf(o, s)
    BY BooksCount DEF PartsOf
  <2> QED
    BY <2>1 DEF whole, wrong
<1>13. /\ J!Cardinality(whole \intersect wrong) = Cardinality(whole \intersect wrong)
       /\ J!Cardinality(wrong) = Cardinality(wrong)
  BY BooksCount
<1> QED
  BY <1>10, <1>11, <1>12, <1>13 DEF J!PassTells

-----------------------------------------------------------------------------
(* TradeBooks, for any journal: what a report says of the last days.       *)

(* A sum whose terms are nothing, and one of whose terms changes.          *)
LEMMA SumZeros == ASSUME NEW n \in Nat, NEW f, \A i \in 1..n : f[i] = 0 PROVE SumTo(f, n) = 0
<1>1. \A i \in 1..n : f[i] = IF i \in {} THEN 1 ELSE 0
  OBVIOUS
<1>2. SumTo(f, n) = Cardinality({i \in 1..n : i \in {}})
  BY <1>1, OnesCounted
<1>3. {i \in 1..n : i \in {}} = {}
  OBVIOUS
<1> QED
  BY <1>2, <1>3, FS_EmptySet

LEMMA SumBump ==
    ASSUME NEW n \in Nat, NEW g, Terms(g, n), NEW at \in 1..n, NEW v \in Int, NEW h,
           \A i \in 1..n : h[i] = IF i = at THEN g[i] + v ELSE g[i]
    PROVE  SumTo(h, n) = SumTo(g, n) + v
<1> DEFINE X == {m \in 0..n : SumTo(h, m) = SumTo(g, m) + IF m >= at THEN v ELSE 0}
<1>1. Terms(h, n)
  BY DEF Terms
<1>2. 0 \in X
  BY SumNone
<1>3. ASSUME NEW i \in (0 + 1)..n, i - 1 \in X PROVE i \in X
  <2>1. PICK m \in Nat : m = i - 1 /\ i = m + 1 /\ m + 1 \in 1..n
    OBVIOUS
  <2>2. Terms(h, m + 1) /\ Terms(g, m + 1) /\ Terms(g, m) /\ g[i] \in Int
    BY <1>1, <2>1 DEF Terms
  <2>3. SumTo(h, i) = SumTo(h, m) + h[i] /\ SumTo(g, i) = SumTo(g, m) + g[i]
    BY <2>1, <2>2, SumNext
  <2>4. SumTo(g, m) \in Int
    BY <2>2, SumType
  <2>5. SumTo(h, m) = SumTo(g, m) + IF m >= at THEN v ELSE 0
    BY <1>3, <2>1
  <2>6. h[i] = IF i = at THEN g[i] + v ELSE g[i]
    BY <2>1
  <2>7. SumTo(h, i) = SumTo(g, i) + IF i >= at THEN v ELSE 0
    <3>1. CASE i = at
      BY <2>1, <2>2, <2>3, <2>4, <2>5, <2>6, <3>1
    <3>2. CASE i # at
      <4>1. (m >= at) <=> (i >= at)
        BY <2>1, <3>2
      <4>2. h[i] = g[i]
        BY <2>6, <3>2
      <4>3. PICK x \in Int : x = IF m >= at THEN v ELSE 0
        OBVIOUS
      <4> QED
        BY <2>2, <2>3, <2>4, <2>5, <4>1, <4>2, <4>3
    <3> QED
      BY <3>1, <3>2
  <2> QED
    BY <2>7
<1>4. n \in X
  <2> HIDE DEF X
  <2>1. \A i \in 0..n : i \in X
    BY <1>2, <1>3, Climb
  <2> QED
    BY <2>1
<1> QED
  BY <1>4

(* The values of each day added up, and the days wanted, are the values of *)
(* those days added up.                                                    *)
OnDay(day, v, n, d) == [i \in 1..n |-> IF day[i] = d THEN v[i] ELSE 0]
OnDays(day, v, n, W) == [i \in 1..n |-> IF day[i] \in W THEN v[i] ELSE 0]
DaySums(day, v, n, W, t, k) == [d \in 1..t |-> IF d \in W THEN SumTo(OnDay(day, v, n, d), k) ELSE 0]

DayTerms(v, n, W, t) == W \subseteq 1..t /\ \A i \in 1..n : v[i] \in Int

LEMMA DaySumsBegin ==
    ASSUME NEW day, NEW v, NEW n \in Nat, NEW t \in Nat, NEW W
    PROVE  SumTo(DaySums(day, v, n, W, t, 0), t) = 0
<1>1. \A d \in 1..t : DaySums(day, v, n, W, t, 0)[d] = 0
  BY SumNone DEF DaySums
<1> QED
  BY <1>1, SumZeros

LEMMA DaySumsStep ==
    ASSUME NEW day, NEW v, NEW n \in Nat, NEW t \in Nat, NEW W, DayTerms(v, n, W, t),
           NEW k \in Nat, k + 1 <= n
    PROVE  SumTo(DaySums(day, v, n, W, t, k + 1), t)
               = SumTo(DaySums(day, v, n, W, t, k), t) + OnDays(day, v, n, W)[k + 1]
<1>1. k + 1 \in 1..n /\ W \subseteq 1..t /\ \A i \in 1..n : v[i] \in Int
  BY DEF DayTerms
<1>2. ASSUME NEW d \in 1..t
      PROVE  /\ SumTo(OnDay(day, v, n, d), k) \in Int
             /\ SumTo(OnDay(day, v, n, d), k + 1)
                    = SumTo(OnDay(day, v, n, d), k) + IF day[k + 1] = d THEN v[k + 1] ELSE 0
  <2>1. \A i \in 1..n : OnDay(day, v, n, d)[i] = IF day[i] = d THEN v[i] ELSE 0
    BY DEF OnDay
  <2>2. Terms(OnDay(day, v, n, d), k + 1) /\ Terms(OnDay(day, v, n, d), k)
    BY <1>1, <2>1 DEF Terms
  <2>3. OnDay(day, v, n, d)[k + 1] = IF day[k + 1] = d THEN v[k + 1] ELSE 0
    BY <1>1, <2>1
  <2>4. SumTo(OnDay(day, v, n, d), k) \in Int
    BY <2>2, SumType
  <2>5. SumTo(OnDay(day, v, n, d), k + 1) = SumTo(OnDay(day, v, n, d), k) + OnDay(day, v, n, d)[k + 1]
    BY <2>2, SumNext
  <2> QED
    BY <2>3, <2>4, <2>5
<1>3. PICK g : g = DaySums(day, v, n, W, t, k)
  OBVIOUS
<1>4. PICK h : h = DaySums(day, v, n, W, t, k + 1)
  OBVIOUS
<1>5. /\ \A d \in 1..t : g[d] = IF d \in W THEN SumTo(OnDay(day, v, n, d), k) ELSE 0
      /\ \A d \in 1..t : h[d] = IF d \in W THEN SumTo(OnDay(day, v, n, d), k + 1) ELSE 0
  BY <1>3, <1>4 DEF DaySums
<1>6. Terms(g, t)
  BY <1>2, <1>5 DEF Terms
<1>7. OnDays(day, v, n, W)[k + 1] = IF day[k + 1] \in W THEN v[k + 1] ELSE 0
  BY <1>1 DEF OnDays
<1>8. CASE day[k + 1] \in W
  <2>1. PICK at \in 1..t : at = day[k + 1] /\ at \in W
    BY <1>1, <1>8
  <2>2. PICK x \in Int : x = v[k + 1]
    BY <1>1
  <2>3. \A d \in 1..t : h[d] = IF d = at THEN g[d] + x ELSE g[d]
    <3> SUFFICES ASSUME NEW d \in 1..t PROVE h[d] = IF d = at THEN g[d] + x ELSE g[d]
      OBVIOUS
    <3>1. CASE d = at
      BY <1>2, <1>5, <2>1, <2>2, <3>1
    <3>2. CASE d # at
      <4>1. SumTo(OnDay(day, v, n, d), k + 1) = SumTo(OnDay(day, v, n, d), k)
        BY <1>2, <2>1, <3>2
      <4> QED
        BY <1>5, <3>2, <4>1
    <3> QED
      BY <3>1, <3>2
  <2>4. SumTo(h, t) = SumTo(g, t) + x
    BY <1>6, <2>3, SumBump
  <2> QED
    BY <1>3, <1>4, <1>7, <1>8, <2>2, <2>4
<1>9. CASE day[k + 1] \notin W
  <2>1. \A d \in 1..t : h[d] = g[d]
    <3> SUFFICES ASSUME NEW d \in 1..t PROVE h[d] = g[d]
      OBVIOUS
    <3>1. CASE d \in W
      <4>1. SumTo(OnDay(day, v, n, d), k + 1) = SumTo(OnDay(day, v, n, d), k)
        BY <1>2, <1>9, <3>1
      <4> QED
        BY <1>5, <4>1
    <3>2. CASE d \notin W
      BY <1>5, <3>2
    <3> QED
      BY <3>1, <3>2
  <2>2. SumTo(h, t) = SumTo(g, t) /\ SumTo(g, t) \in Int
    BY <1>6, <2>1, SumSame, SumType
  <2> QED
    BY <1>3, <1>4, <1>7, <1>9, <2>2
<1> QED
  BY <1>8, <1>9

LEMMA SumsExchanged ==
    ASSUME NEW day, NEW v, NEW n \in Nat, NEW t \in Nat, NEW W, DayTerms(v, n, W, t)
    PROVE  SumTo(DaySums(day, v, n, W, t, n), t) = SumTo(OnDays(day, v, n, W), n)
<1> DEFINE X == {k \in 0..n : SumTo(DaySums(day, v, n, W, t, k), t) = SumTo(OnDays(day, v, n, W), k)}
<1>1. 0 \in X
  BY DaySumsBegin, SumNone
<1>2. Terms(OnDays(day, v, n, W), n)
  BY DEF OnDays, Terms, DayTerms
<1>3. ASSUME NEW i \in (0 + 1)..n, i - 1 \in X PROVE i \in X
  <2>1. PICK k \in Nat : k = i - 1 /\ i = k + 1 /\ k + 1 <= n
    OBVIOUS
  <2>2. SumTo(DaySums(day, v, n, W, t, k + 1), t)
            = SumTo(DaySums(day, v, n, W, t, k), t) + OnDays(day, v, n, W)[k + 1]
    BY <2>1, DaySumsStep
  <2>3. Terms(OnDays(day, v, n, W), k + 1)
    BY <1>2, <2>1 DEF Terms
  <2>4. SumTo(OnDays(day, v, n, W), k + 1) = SumTo(OnDays(day, v, n, W), k) + OnDays(day, v, n, W)[k + 1]
    BY <2>3, SumNext
  <2>5. SumTo(DaySums(day, v, n, W, t, k), t) = SumTo(OnDays(day, v, n, W), k)
    BY <1>3, <2>1
  <2>6. SumTo(DaySums(day, v, n, W, t, i), t) = SumTo(OnDays(day, v, n, W), i)
    BY <2>1, <2>2, <2>4, <2>5
  <2> QED
    BY <2>6
<1>4. n \in X
  <2> HIDE DEF X
  <2>1. \A i \in 0..n : i \in X
    BY <1>1, <1>3, Climb
  <2> QED
    BY <2>1
<1> QED
  BY <1>4

(* What the loop over the exits of a day knows after i entries: the result *)
(* so far, the highest so far, and the deepest fall from an earlier one.   *)
Tally == [cum : Int, peak : Int, dd : Int]
Followed(s, i, cum, high, dd) ==
    /\ cum = s[i]
    /\ \E x \in 0..i : high = s[x]
    /\ \A x \in 0..i : s[x] <= high
    /\ \E x, y \in 0..i : x <= y /\ dd = s[x] - s[y]
    /\ \A x, y \in 0..i : x <= y => s[x] - s[y] <= dd

Adds(v, cum, high, dd, c, p, d) ==
    /\ c = cum + v
    /\ c > high => p = c
    /\ c <= high => p = high
    /\ p - c > dd => d = p - c
    /\ p - c <= dd => d = dd

LEMMA AddedIs ==
    ASSUME NEW acc \in Tally, NEW pnl \in Int
    PROVE  \E c, p, d \in Int :
               /\ J!added(acc, pnl) = [cum |-> c, peak |-> p, dd |-> d]
               /\ Adds(pnl, acc.cum, acc.peak, acc.dd, c, p, d)
<1>1. acc.cum \in Int /\ acc.peak \in Int /\ acc.dd \in Int
  BY DEF Tally
<1>2. PICK c \in Int : c = acc.cum + pnl
  BY <1>1
<1>3. PICK p \in Int : p = IF c > acc.peak THEN c ELSE acc.peak
  BY <1>1
<1>4. PICK d \in Int : d = IF p - c > acc.dd THEN p - c ELSE acc.dd
  BY <1>1
<1>5. J!added(acc, pnl) = [cum |-> c, peak |-> p, dd |-> d]
  BY <1>2, <1>3, <1>4 DEF J!added
<1>6. Adds(pnl, acc.cum, acc.peak, acc.dd, c, p, d)
  BY <1>1, <1>2, <1>3, <1>4 DEF Adds
<1> QED
  BY <1>5, <1>6

LEMMA AddedType == ASSUME NEW acc \in Tally, NEW pnl \in Int PROVE J!added(acc, pnl) \in Tally
<1>1. PICK c, p, d \in Int : /\ J!added(acc, pnl) = [cum |-> c, peak |-> p, dd |-> d]
                             /\ Adds(pnl, acc.cum, acc.peak, acc.dd, c, p, d)
  BY AddedIs
<1> QED
  BY <1>1 DEF Tally

(* One more entry, that adds v; an entry that is no exit of the day adds   *)
(* nothing.                                                                *)
LEMMA FollowedStep ==
    ASSUME NEW n \in Nat, NEW s \in [0..n -> Int], NEW i \in 1..n, NEW v \in Int, s[i] = s[i - 1] + v,
           NEW cum \in Int, NEW high \in Int, NEW dd \in Int, Followed(s, i - 1, cum, high, dd),
           NEW c \in Int, NEW p \in Int, NEW d \in Int, Adds(v, cum, high, dd, c, p, d)
    PROVE  Followed(s, i, c, p, d)
<1>1. PICK m \in Nat : m = i - 1 /\ i = m + 1 /\ m \in 0..n
  OBVIOUS
<1>2. \A x \in 0..i : (x \in 0..m \/ x = i) /\ s[x] \in Int
  BY <1>1
<1>3. 0..m \subseteq 0..i /\ i \in 0..i
  BY <1>1
<1>4. c = s[i]
  BY <1>1 DEF Followed, Adds
<1>5. /\ \E x \in 0..m : high = s[x]
      /\ \A x \in 0..m : s[x] <= high
      /\ \E x, y \in 0..m : x <= y /\ dd = s[x] - s[y]
      /\ \A x, y \in 0..m : x <= y => s[x] - s[y] <= dd
  BY <1>1 DEF Followed
<1>6. p >= c /\ p >= high /\ (p = c \/ p = high) /\ d >= dd /\ d >= p - c /\ (d = dd \/ d = p - c)
  BY DEF Adds
<1>7. \E x \in 0..i : p = s[x]
  BY <1>3, <1>4, <1>5, <1>6
<1>8. \A x \in 0..i : s[x] <= p
  <2> TAKE x \in 0..i
  <2>1. CASE x \in 0..m
    <3>1. s[x] <= high /\ s[x] \in Int
      BY <1>2, <1>5, <2>1
    <3> QED
      BY <1>6, <3>1
  <2>2. CASE x = i
    BY <1>4, <1>6, <2>2
  <2> QED
    BY <1>2, <2>1, <2>2
<1>9. \E x, y \in 0..i : x <= y /\ d = s[x] - s[y]
  <2>1. CASE d = dd
    BY <1>3, <1>5, <2>1
  <2>2. CASE d = p - c
    <3>1. PICK x \in 0..i : p = s[x]
      BY <1>7
    <3>2. x <= i /\ d = s[x] - s[i]
      BY <1>4, <2>2, <3>1
    <3> QED
      BY <1>3, <3>2
  <2> QED
    BY <1>6, <2>1, <2>2
<1>10. \A x, y \in 0..i : x <= y => s[x] - s[y] <= d
  <2> SUFFICES ASSUME NEW x \in 0..i, NEW y \in 0..i, x <= y PROVE s[x] - s[y] <= d
    OBVIOUS
  <2>1. CASE y = i
    <3>1. s[x] <= p /\ s[x] \in Int /\ s[y] = c
      BY <1>2, <1>4, <1>8, <2>1
    <3> QED
      BY <1>6, <3>1
  <2>2. CASE y # i
    <3>1. x \in 0..m /\ y \in 0..m
      BY <1>1, <2>2
    <3>2. s[x] - s[y] <= dd /\ s[x] \in Int /\ s[y] \in Int
      BY <1>2, <1>5, <3>1
    <3> QED
      BY <1>6, <3>2
  <2> QED
    BY <2>1, <2>2
<1> QED
  BY <1>4, <1>7, <1>8, <1>9, <1>10 DEF Followed

LEMMA StillFollowed ==
    ASSUME NEW n \in Nat, NEW s \in [0..n -> Int], NEW i \in 1..n, s[i] = s[i - 1],
           NEW cum \in Int, NEW high \in Int, NEW dd \in Int, Followed(s, i - 1, cum, high, dd)
    PROVE  Followed(s, i, cum, high, dd)
<1>1. PICK m \in Nat : m = i - 1 /\ m \in 0..n /\ m \in 0..m
  OBVIOUS
<1>2. cum = s[m] /\ s[m] <= high
  BY <1>1 DEF Followed
<1>3. high - cum <= dd
  <2>1. PICK x \in 0..m : high = s[x]
    BY <1>1 DEF Followed
  <2>2. x <= m
    OBVIOUS
  <2> QED
    BY <1>1, <1>2, <2>1, <2>2 DEF Followed
<1>4. s[i] = s[i - 1] + 0 /\ 0 \in Int
  BY <1>1
<1>5. Adds(0, cum, high, dd, cum, high, dd)
  BY <1>2, <1>3 DEF Adds
<1> QED
  BY <1>4, <1>5, FollowedStep

(* What the loop over the entries has after each of them.                  *)
NoTally == [cum |-> 0, peak |-> 0, dd |-> 0]
Realizing(date) == [i \in 1..Len(trade_journal) |-> IF i \in J!exitsOf(date) THEN trade_journal[i].pnl ELSE 0]

LEMMA DayRuns ==
    ASSUME trade_journal \in Seq(Entry), NEW date
    PROVE  /\ \A i \in 0..Len(trade_journal) : J!dayUpTo(date)[i] \in Tally
           /\ J!dayUpTo(date)[0] = NoTally
           /\ \A i \in 1..Len(trade_journal) :
                  /\ i \in J!exitsOf(date) => J!dayUpTo(date)[i] = J!added(J!dayUpTo(date)[i - 1], trade_journal[i].pnl)
                  /\ i \notin J!exitsOf(date) => J!dayUpTo(date)[i] = J!dayUpTo(date)[i - 1]
<1> DEFINE n == Len(trade_journal)
           more(acc, i) == IF i \in J!exitsOf(date) THEN J!added(acc, trade_journal[i].pnl) ELSE acc
           Obeys(g) == g = [i \in 0..n |-> IF i = 0 THEN NoTally ELSE more(g[i - 1], i)]
           Turn == [i \in 1..n |-> [acc \in Tally |-> more(acc, i)]]
<1>1. n \in Nat /\ 0 <= n /\ 0 \in Nat
  OBVIOUS
<1>2. NoTally \in Tally
  BY DEF NoTally, Tally
<1>3. Turn \in [(0 + 1)..n -> [Tally -> Tally]]
  <2>1. ASSUME NEW i \in 1..n, NEW acc \in Tally PROVE more(acc, i) \in Tally
    <3>1. trade_journal[i].pnl \in Int
      <4>1. trade_journal[i] \in Entry
        OBVIOUS
      <4> QED
        BY <4>1 DEF Entry
    <3>2. J!added(acc, trade_journal[i].pnl) \in Tally
      BY <3>1, AddedType
    <3> QED
      BY <3>2
  <2> HIDE DEF n, more
  <2> QED
    BY <2>1
<1>4. PICK f \in [0..n -> Tally] : Looped(0, n, NoTally, Turn, f)
  <2> HIDE DEF Turn, n
  <2> QED
    BY <1>1, <1>2, <1>3, LoopRuns, Zenon
<1>5. f[0] = NoTally /\ \A i \in 1..n : f[i] = more(f[i - 1], i)
  <2> HIDE DEF n, more
  <2>1. f[0] = NoTally /\ \A i \in 1..n : f[i] = Turn[i][f[i - 1]]
    BY <1>4 DEF Looped
  <2>2. \A i \in 1..n : f[i - 1] \in Tally
    BY <1>1
  <2> QED
    BY <2>1, <2>2
<1>6. Obeys(f)
  <2> HIDE DEF n, more
  <2>1. f = [i \in 0..n |-> f[i]]
    BY <1>4
  <2>2. ASSUME NEW i \in 0..n PROVE f[i] = IF i = 0 THEN NoTally ELSE more(f[i - 1], i)
    <3>1. CASE i = 0
      BY <1>5, <3>1, Zenon
    <3>2. CASE i # 0
      <4>1. i \in 1..n
        BY <1>1, <3>2
      <4> QED
        BY <1>5, <3>2, <4>1, Zenon
    <3> QED
      BY <3>1, <3>2
  <2> QED
    BY <2>1, <2>2, Zenon
<1> DEFINE Same(g) == g = [i \in 0..n |-> IF i = 0 THEN [cum |-> 0, peak |-> 0, dd |-> 0]
                                         ELSE IF i \in J!exitsOf(date) THEN J!added(g[i - 1], trade_journal[i].pnl)
                                         ELSE g[i - 1]]
<1>7. J!dayUpTo(date) = CHOOSE g : Same(g)
  BY DEF J!dayUpTo
<1>8. Same(f)
  BY <1>6 DEF NoTally
<1> HIDE DEF Same
<1>9. Same(CHOOSE g : Same(g))
  BY <1>8
<1>10. Same(J!dayUpTo(date))
  BY <1>7, <1>9
<1>11. PICK u : u = J!dayUpTo(date)
  OBVIOUS
<1>12. u = [i \in 0..n |-> IF i = 0 THEN NoTally
                          ELSE IF i \in J!exitsOf(date) THEN J!added(u[i - 1], trade_journal[i].pnl)
                          ELSE u[i - 1]]
  BY <1>10, <1>11 DEF Same, NoTally
<1> HIDE DEF n
<1>13. u[0] = NoTally /\ \A i \in 1..n : u[i] = more(u[i - 1], i)
  BY <1>1, <1>12
<1>14. \A i \in 1..n : more(u[i - 1], i) = IF i \in J!exitsOf(date) THEN J!added(u[i - 1], trade_journal[i].pnl) ELSE u[i - 1]
  OBVIOUS
<1> HIDE DEF more
<1>15. \A i \in 0..n : u[i] \in Tally
  <2> DEFINE X == {i \in 0..n : u[i] = f[i]}
  <2>1. 0 \in X
    BY <1>1, <1>5, <1>13
  <2>2. ASSUME NEW i \in (0 + 1)..n, i - 1 \in X PROVE i \in X
    <3>1. i \in 1..n /\ i \in 0..n /\ u[i - 1] = f[i - 1]
      BY <2>2
    <3> QED
      BY <1>5, <1>13, <3>1
  <2>3. \A i \in 0..n : i \in X
    <3> HIDE DEF X
    <3> QED
      BY <1>1, <2>1, <2>2, Climb
  <2> QED
    BY <1>4, <2>3
<1> QED
  BY <1>11, <1>13, <1>14, <1>15 DEF n

LEMMA RealizingTerms ==
    ASSUME trade_journal \in Seq(Entry), NEW date
    PROVE  /\ Terms(Realizing(date), Len(trade_journal))
           /\ \A i \in 1..Len(trade_journal) : trade_journal[i].pnl \in Int
           /\ \A i \in 1..Len(trade_journal) :
                  Realizing(date)[i] = IF i \in J!exitsOf(date) THEN trade_journal[i].pnl ELSE 0
<1>1. \A i \in 1..Len(trade_journal) : trade_journal[i].pnl \in Int
  <2> SUFFICES ASSUME NEW i \in 1..Len(trade_journal) PROVE trade_journal[i].pnl \in Int
    OBVIOUS
  <2>1. trade_journal[i] \in Entry
    OBVIOUS
  <2> QED
    BY <2>1 DEF Entry
<1>2. \A i \in 1..Len(trade_journal) :
          Realizing(date)[i] = IF i \in J!exitsOf(date) THEN trade_journal[i].pnl ELSE 0
  BY DEF Realizing
<1> QED
  BY <1>1, <1>2 DEF Terms

LEMMA DayFollowed ==
    ASSUME trade_journal \in Seq(Entry), NEW date
    PROVE  LET s == SumsTo(Realizing(date), Len(trade_journal))
               acc == J!dayUpTo(date)[Len(trade_journal)]
           IN  Followed(s, Len(trade_journal), acc.cum, acc.peak, acc.dd)
<1>1. PICK n \in Nat : n = Len(trade_journal)
  OBVIOUS
<1>2. PICK s : s = SumsTo(Realizing(date), n)
  OBVIOUS
<1>3. PICK u : u = J!dayUpTo(date)
  OBVIOUS
<1>4. /\ Terms(Realizing(date), n)
      /\ \A i \in 1..n : trade_journal[i].pnl \in Int
      /\ \A i \in 1..n : Realizing(date)[i] = IF i \in J!exitsOf(date) THEN trade_journal[i].pnl ELSE 0
  BY <1>1, RealizingTerms
<1>5. /\ s \in [0..n -> Int] /\ s[0] = 0
      /\ \A i \in 1..n : s[i] = s[i - 1] + Realizing(date)[i]
  BY <1>2, <1>4, SumRuns
<1>6. /\ \A i \in 0..n : u[i] \in Tally
      /\ u[0] = NoTally
      /\ \A i \in 1..n : /\ i \in J!exitsOf(date) => u[i] = J!added(u[i - 1], trade_journal[i].pnl)
                         /\ i \notin J!exitsOf(date) => u[i] = u[i - 1]
  BY <1>1, <1>3, DayRuns
<1> DEFINE X == {i \in 0..n : Followed(s, i, u[i].cum, u[i].peak, u[i].dd)}
<1>7. 0 \in X
  <2>1. u[0].cum = 0 /\ u[0].peak = 0 /\ u[0].dd = 0
    BY <1>6 DEF NoTally
  <2>2. Followed(s, 0, 0, 0, 0)
    BY <1>5 DEF Followed
  <2> QED
    BY <2>1, <2>2
<1>8. ASSUME NEW i \in (0 + 1)..n, i - 1 \in X PROVE i \in X
  <2>1. i \in 1..n /\ i \in 0..n /\ i - 1 \in 0..n
    OBVIOUS
  <2>2. u[i - 1] \in Tally
    BY <1>6, <2>1
  <2>3. PICK cum, high, dd \in Int : cum = u[i - 1].cum /\ high = u[i - 1].peak /\ dd = u[i - 1].dd
    BY <2>2 DEF Tally
  <2>4. Followed(s, i - 1, cum, high, dd)
    BY <1>8, <2>3
  <2>5. CASE i \in J!exitsOf(date)
    <3>1. PICK v \in Int : v = trade_journal[i].pnl
      BY <1>4, <2>1
    <3>2. u[i] = J!added(u[i - 1], v)
      BY <1>6, <2>1, <2>5, <3>1
    <3>3. PICK c, p, d \in Int : /\ J!added(u[i - 1], v) = [cum |-> c, peak |-> p, dd |-> d]
                                 /\ Adds(v, u[i - 1].cum, u[i - 1].peak, u[i - 1].dd, c, p, d)
      BY <2>2, <3>1, AddedIs
    <3>4. u[i].cum = c /\ u[i].peak = p /\ u[i].dd = d /\ Adds(v, cum, high, dd, c, p, d)
      BY <2>3, <3>2, <3>3
    <3>5. s[i] = s[i - 1] + v
      BY <1>4, <1>5, <2>1, <2>5, <3>1
    <3>6. Followed(s, i, c, p, d)
      BY <1>5, <2>1, <2>4, <3>4, <3>5, FollowedStep
    <3> QED
      BY <2>1, <3>4, <3>6
  <2>6. CASE i \notin J!exitsOf(date)
    <3>1. u[i] = u[i - 1]
      BY <1>6, <2>1, <2>6
    <3>2. Realizing(date)[i] = 0 /\ s[i - 1] \in Int /\ s[i] = s[i - 1] + Realizing(date)[i]
      BY <1>4, <1>5, <2>1, <2>6
    <3>3. s[i] = s[i - 1]
      BY <3>2
    <3>4. Followed(s, i, cum, high, dd)
      BY <1>5, <2>1, <2>4, <3>3, StillFollowed
    <3> QED
      BY <2>1, <2>3, <3>1, <3>4
  <2> QED
    BY <2>5, <2>6
<1>9. n \in X
  <2> HIDE DEF X
  <2>1. \A i \in 0..n : i \in X
    BY <1>7, <1>8, Climb
  <2> QED
    BY <2>1
<1> QED
  BY <1>1, <1>2, <1>3, <1>9

(* What is realized up to an entry is what the loop that adds it up has    *)
(* there.                                                                  *)
LEMMA RealizedThere ==
    ASSUME trade_journal \in Seq(Entry), NEW date, NEW k \in 0..Len(trade_journal)
    PROVE  J!realized(J!exitsOf(date), k) = SumsTo(Realizing(date), Len(trade_journal))[k]
<1>1. PICK n \in Nat : n = Len(trade_journal) /\ k \in Nat /\ k <= n /\ k <= k
  OBVIOUS
<1>2. PICK f : f = [i \in 1..k |-> IF i \in J!exitsOf(date) THEN trade_journal[i].pnl ELSE 0]
  OBVIOUS
<1>3. /\ Terms(Realizing(date), n)
      /\ \A i \in 1..n : trade_journal[i].pnl \in Int
      /\ \A i \in 1..n : Realizing(date)[i] = IF i \in J!exitsOf(date) THEN trade_journal[i].pnl ELSE 0
  BY <1>1, RealizingTerms
<1>4. \A i \in 1..k : i \in 1..n
  BY <1>1
<1>5. Terms(f, k) /\ \A i \in 1..k : f[i] = Realizing(date)[i]
  BY <1>2, <1>3, <1>4 DEF Terms
<1>6. SumsTo(f, k)[k] = SumsTo(Realizing(date), n)[k]
  BY <1>1, <1>3, <1>5, SumsAgree
<1>7. J!realized(J!exitsOf(date), k) = J!SumTo(f, k)
  BY <1>2 DEF J!realized
<1> QED
  BY <1>1, <1>6, <1>7, BooksSum DEF SumTo

LEMMA LargestTold ==
    ASSUME NEW X \in SUBSET Int, NEW m \in X, \A y \in X : y <= m
    PROVE  J!Max(X) = m
<1>1. m \in X /\ \A y \in X : m >= y
  OBVIOUS
<1>2. J!Max(X) \in X /\ \A y \in X : J!Max(X) >= y
  BY <1>1, Zenon DEF J!Max
<1>3. PICK k : k = J!Max(X)
  OBVIOUS
<1>4. k \in Int /\ m \in Int /\ k >= m /\ k <= m
  BY <1>2, <1>3
<1> QED
  BY <1>3, <1>4

LEMMA DrawdownTold ==
    ASSUME trade_journal \in Seq(Entry), NEW date
    PROVE  LET cum(n) == J!realized(J!exitsOf(date), n)
               points == {p \in (0..Len(trade_journal)) \X (0..Len(trade_journal)) : p[1] <= p[2]}
           IN  J!getDailySummary(date).dd = J!Max({cum(p[1]) - cum(p[2]) : p \in points})
<1>1. PICK n \in Nat : n = Len(trade_journal)
  OBVIOUS
<1>2. PICK s : s = SumsTo(Realizing(date), n)
  OBVIOUS
<1>3. \A k \in 0..n : J!realized(J!exitsOf(date), k) = s[k]
  BY <1>1, <1>2, RealizedThere
<1>4. s \in [0..n -> Int]
  BY <1>1, <1>2, RealizingTerms, SumRuns
<1>5. PICK acc : acc = J!dayUpTo(date)[n]
  OBVIOUS
<1>6. Followed(s, n, acc.cum, acc.peak, acc.dd)
  BY <1>1, <1>2, <1>5, DayFollowed
<1>7. PICK m : m = acc.dd
  OBVIOUS
<1> DEFINE points == {p \in (0..n) \X (0..n) : p[1] <= p[2]}
           depths == {J!realized(J!exitsOf(date), p[1]) - J!realized(J!exitsOf(date), p[2]) : p \in points}
<1>8. m \in depths
  <2>1. PICK x, y \in 0..n : x <= y /\ m = s[x] - s[y]
    BY <1>6, <1>7 DEF Followed
  <2>2. <<x, y>> \in points /\ <<x, y>>[1] = x /\ <<x, y>>[2] = y
    BY <2>1
  <2>3. m = J!realized(J!exitsOf(date), x) - J!realized(J!exitsOf(date), y)
    BY <1>3, <2>1
  <2> HIDE DEF points
  <2> QED
    BY <2>2, <2>3
<1>9. \A z \in depths : z \in Int /\ z <= m
  <2> TAKE z \in depths
  <2>1. PICK p \in points : z = J!realized(J!exitsOf(date), p[1]) - J!realized(J!exitsOf(date), p[2])
    OBVIOUS
  <2>2. PICK x, y \in 0..n : x = p[1] /\ y = p[2] /\ x <= y
    BY <2>1
  <2>3. z = s[x] - s[y] /\ s[x] \in Int /\ s[y] \in Int
    BY <1>3, <1>4, <2>1, <2>2
  <2>4. s[x] - s[y] <= m
    BY <1>6, <1>7, <2>2 DEF Followed
  <2> QED
    BY <2>3, <2>4
<1> HIDE DEF depths
<1>10. J!Max(depths) = m
  <2>1. depths \in SUBSET Int /\ \A z \in depths : z <= m
    BY <1>9
  <2> QED
    BY <1>8, <2>1, LargestTold
<1> QED
  BY <1>1, <1>5, <1>7, <1>10 DEF J!getDailySummary, depths

(* The summary of a day says what was realized on it.                      *)
LEMMA ResultTold ==
    ASSUME trade_journal \in Seq(Entry), NEW date
    PROVE  J!getDailySummary(date).cum = SumTo(Realizing(date), Len(trade_journal))
<1>1. PICK n : n = Len(trade_journal)
  OBVIOUS
<1>2. PICK s : s = SumsTo(Realizing(date), n)
  OBVIOUS
<1>3. PICK acc : acc = J!dayUpTo(date)[n]
  OBVIOUS
<1>4. Followed(s, n, acc.cum, acc.peak, acc.dd)
  BY <1>1, <1>2, <1>3, DayFollowed
<1>5. acc.cum = s[n]
  BY <1>4 DEF Followed
<1> QED
  BY <1>1, <1>2, <1>3, <1>5 DEF J!getDailySummary, SumTo

(* No entry is of a day to come.                                           *)
Dated == \A i \in DOMAIN trade_journal : trade_journal[i].date \in 1..today

LEMMA TotalTold ==
    ASSUME trade_journal \in Seq(Entry), today \in Nat, Dated
    PROVE  LET due == {i \in DOMAIN trade_journal : trade_journal[i].action = "exit" /\ trade_journal[i].date > today - Days}
           IN  J!totalPnl = J!realized(due, Len(trade_journal))
<1>1. PICK n \in Nat : n = Len(trade_journal) /\ DOMAIN trade_journal = 1..n
  OBVIOUS
<1>2. PICK t \in Nat : t = today
  OBVIOUS
<1>3. PICK first \in Int : first = t - Days
  BY <1>2, BooksAssumption
<1> DEFINE isExit(i) == trade_journal[i].action = "exit"
<1>4. PICK day : day = [i \in 1..n |-> IF isExit(i) THEN trade_journal[i].date ELSE 0]
  OBVIOUS
<1>5. PICK v : v = [i \in 1..n |-> trade_journal[i].pnl]
  OBVIOUS
<1>6. PICK W : W = {d \in 1..t : d > first}
  OBVIOUS
<1>7. \A i \in 1..n : trade_journal[i].date \in 1..t /\ trade_journal[i].pnl \in Int
  BY <1>1, <1>2, RealizingTerms DEF Dated
<1>8. \A i \in 1..n : v[i] = trade_journal[i].pnl
  BY <1>5
<1>9. DayTerms(v, n, W, t)
  BY <1>6, <1>7, <1>8 DEF DayTerms
<1>10. /\ \A i \in 1..n : isExit(i) => day[i] = trade_journal[i].date
       /\ \A i \in 1..n : ~isExit(i) => day[i] = 0
  BY <1>4
<1>11. \A d : \A i \in 1..n : i \in J!exitsOf(d) <=> trade_journal[i].date = d /\ isExit(i)
  BY <1>1 DEF J!exitsOf
<1> HIDE DEF isExit
<1>12. ASSUME NEW d \in 1..t
       PROVE  SumTo(OnDay(day, v, n, d), n) = SumTo(Realizing(d), n)
  <2>1. /\ Terms(Realizing(d), n)
        /\ \A i \in 1..n : Realizing(d)[i] = IF i \in J!exitsOf(d) THEN trade_journal[i].pnl ELSE 0
    BY <1>1, RealizingTerms
  <2>2. ASSUME NEW i \in 1..n PROVE Realizing(d)[i] = OnDay(day, v, n, d)[i]
    <3>1. OnDay(day, v, n, d)[i] = IF day[i] = d THEN v[i] ELSE 0
      BY DEF OnDay
    <3>2. day[i] = d <=> i \in J!exitsOf(d)
      <4>1. d # 0
        OBVIOUS
      <4> QED
        BY <1>10, <1>11, <4>1
    <3> QED
      BY <1>8, <2>1, <3>1, <3>2
  <2> QED
    BY <2>1, <2>2, SumSame
<1> DEFINE g == [d \in 1..today |-> IF d \in J!daysTold THEN J!getDailySummary(d).cum ELSE 0]
<1>13. ASSUME NEW d \in 1..t PROVE g[d] = DaySums(day, v, n, W, t, n)[d]
  <2>1. DaySums(day, v, n, W, t, n)[d] = IF d \in W THEN SumTo(Realizing(d), n) ELSE 0
    BY <1>12 DEF DaySums
  <2>2. g[d] = IF d \in J!daysTold THEN SumTo(Realizing(d), n) ELSE 0
    BY <1>1, <1>2, ResultTold
  <2>3. d \in J!daysTold <=> d \in W /\ J!exitsOf(d) # {}
    <3>1. J!daysTold = {e \in (first + 1)..t : J!exitsOf(e) # {}}
      BY <1>2, <1>3 DEF J!daysTold
    <3>2. d \in (first + 1)..t <=> d \in W
      BY <1>6
    <3> QED
      BY <3>1, <3>2
  <2>4. ASSUME J!exitsOf(d) = {} PROVE SumTo(Realizing(d), n) = 0
    <3>1. \A i \in 1..n : Realizing(d)[i] = 0
      BY <1>1, <2>4, RealizingTerms
    <3> QED
      BY <3>1, SumZeros
  <2> HIDE DEF g
  <2> QED
    BY <2>1, <2>2, <2>3, <2>4
<1>14. J!totalPnl = SumTo(g, t)
  BY <1>2, BooksSum DEF J!totalPnl, J!summed
<1> HIDE DEF g
<1>15. SumTo(DaySums(day, v, n, W, t, n), t) = SumTo(g, t)
  <2>1. PICK h : h = DaySums(day, v, n, W, t, n)
    OBVIOUS
  <2>2. \A d \in 1..t : h[d] = g[d]
    BY <1>13, <2>1
  <2>3. Terms(h, t)
    <3>1. \A d \in 1..t : h[d] = IF d \in W THEN SumTo(Realizing(d), n) ELSE 0
      BY <1>12, <2>1 DEF DaySums
    <3>2. \A d \in 1..t : SumTo(Realizing(d), n) \in Int
      BY <1>1, RealizingTerms, SumType
    <3> QED
      BY <3>1, <3>2 DEF Terms
  <2>4. SumTo(h, t) = SumTo(g, t)
    BY <2>2, <2>3, SumSame
  <2> QED
    BY <2>1, <2>4
<1>16. SumTo(DaySums(day, v, n, W, t, n), t) = SumTo(OnDays(day, v, n, W), n)
  BY <1>9, SumsExchanged
<1> DEFINE due == {i \in DOMAIN trade_journal : trade_journal[i].action = "exit" /\ trade_journal[i].date > today - Days}
           f == [i \in 1..n |-> IF i \in due THEN trade_journal[i].pnl ELSE 0]
<1>17. J!realized(due, Len(trade_journal)) = SumTo(f, n)
  BY <1>1, BooksSum DEF J!realized
<1>18. \A i \in 1..n : i \in due <=> isExit(i) /\ trade_journal[i].date > first
  BY <1>1, <1>2, <1>3 DEF isExit
<1>19. \A i \in 1..n : f[i] = IF i \in due THEN trade_journal[i].pnl ELSE 0
  OBVIOUS
<1> HIDE DEF due, f
<1>20. SumTo(OnDays(day, v, n, W), n) = SumTo(f, n)
  <2>1. \A i \in 1..n : OnDays(day, v, n, W)[i] = IF day[i] \in W THEN v[i] ELSE 0
    BY DEF OnDays
  <2>2. \A i \in 1..n : day[i] \in W <=> i \in due
    <3> SUFFICES ASSUME NEW i \in 1..n PROVE day[i] \in W <=> i \in due
      OBVIOUS
    <3>1. CASE isExit(i)
      BY <1>6, <1>7, <1>10, <1>18, <3>1
    <3>2. CASE ~isExit(i)
      BY <1>6, <1>10, <1>18, <3>2
    <3> QED
      BY <3>1, <3>2
  <2>3. \A i \in 1..n : f[i] = OnDays(day, v, n, W)[i]
    BY <1>8, <1>19, <2>1, <2>2
  <2>4. Terms(f, n)
    BY <1>7, <1>19 DEF Terms
  <2> QED
    BY <2>3, <2>4, SumSame
<1> QED
  BY <1>14, <1>15, <1>16, <1>17, <1>20 DEF due

LEMMA DatedStep == CountersInv /\ PassInv /\ Dated /\ [J!Next]_booksVars => Dated'
<1> SUFFICES ASSUME CountersInv, PassInv, Dated, [J!Next]_booksVars PROVE Dated'
  OBVIOUS
<1>1. today \in Nat /\ today >= 1
  BY BooksAssumption DEF CountersInv
<1>2. ASSUME UNCHANGED <<trade_journal, today>> PROVE Dated'
  BY <1>2 DEF Dated
<1>3. CASE J!Midnight
  <2>1. trade_journal' = trade_journal /\ today' = today + 1
    BY <1>3 DEF J!Midnight, J!books
  <2>2. 1..today \subseteq 1..today'
    BY <1>1, <2>1
  <2> QED
    BY <2>1, <2>2 DEF Dated
<1>4. ASSUME NEW o \in open, NEW fee \in BOOLEAN, NEW kept \in BOOLEAN, NEW pnl \in Results \union {0},
             J!Confirm(o, fee, kept, pnl)
      PROVE  Dated'
  <2>1. PICK e : e.date = today /\ trade_journal' = (IF kept THEN Append(trade_journal, e) ELSE trade_journal)
    <3>1. PICK q : q = J!Cardinality({i \in DOMAIN fills : fills[i].order = o})
      OBVIOUS
    <3>2. PICK e : e = [order |-> o, qty |-> q, fee |-> IF fee THEN q ELSE 0,
                        action |-> IF pnl = 0 THEN "entry" ELSE "exit", pnl |-> pnl, date |-> today]
      OBVIOUS
    <3>3. trade_journal' = (IF kept THEN Append(trade_journal, e) ELSE trade_journal)
      BY <1>4, <3>1, <3>2 DEF J!Confirm
    <3> QED
      BY <3>2, <3>3
  <2>2. today' = today
    BY <1>4 DEF J!Confirm
  <2>3. PICK n \in Nat : n = Len(trade_journal) /\ DOMAIN trade_journal = 1..n /\ trade_journal \in Seq(Entry)
    BY DEF PassInv
  <2>4. CASE kept
    <3>1. trade_journal' = Append(trade_journal, e)
      BY <2>1, <2>4
    <3>2. DOMAIN trade_journal' = 1..(n + 1)
          /\ (\A i \in 1..n : trade_journal'[i] = trade_journal[i]) /\ trade_journal'[n + 1] = e
      BY <2>3, <3>1
    <3>3. \A i \in 1..(n + 1) : i \in 1..n \/ i = n + 1
      OBVIOUS
    <3>4. today \in 1..today
      BY <1>1
    <3> QED
      BY <2>1, <2>2, <2>3, <3>2, <3>3, <3>4 DEF Dated
  <2>5. CASE ~kept
    BY <1>2, <2>1, <2>2, <2>5
  <2> QED
    BY <2>4, <2>5
<1>5. CASE \E parts \in 1..2 : J!Place(parts)
  BY <1>2, <1>5 DEF J!Place
<1>6. CASE J!Crash
  BY <1>2, <1>6 DEF J!Crash
<1>7. CASE J!Block \/ J!Reconcile \/ J!ReconcileFails
  <2>1. UNCHANGED <<trade_journal, today>>
    BY <1>7 DEF J!Block, J!Reconcile, J!ReconcileFails, J!books
  <2> QED
    BY <1>2, <2>1
<1>8. CASE UNCHANGED booksVars
  BY <1>2, <1>8 DEF booksVars
<1> QED
  BY <1>3, <1>4, <1>5, <1>6, <1>7, <1>8 DEF J!Next

BooksInv == CountersInv /\ PassInv /\ Dated

LEMMA BooksHold == Spec => [](part = "books" => BooksInv)
<1>1. Init => (part = "books" => Dated)
  <2> SUFFICES ASSUME Init, part = "books" PROVE Dated
    OBVIOUS
  <2>1. trade_journal = << >>
    BY DEF Init, J!Init
  <2> QED
    BY <2>1 DEF Dated
<1>2. (part = "books" => CountersInv /\ PassInv) /\ (part = "books" => Dated) /\ [Next]_vars => (part = "books" => Dated)'
  BY BooksMove, DatedStep
<1>3. (part = "books" => CountersInv /\ PassInv) /\ (part = "books" => Dated) => (part = "books" => BooksInv)
  BY DEF BooksInv
<1> QED
  BY <1>1, <1>2, <1>3, PassHolds, PTL DEF Spec

LEMMA DayIsTold == BooksInv => J!DayTold
<1> SUFFICES ASSUME BooksInv PROVE J!DayTold
  OBVIOUS
<1>1. J!CountersOfLastDay
  BY CountersTell DEF BooksInv
<1>2. trade_journal \in Seq(Entry) /\ today \in Nat /\ Dated
  BY BooksAssumption DEF BooksInv, CountersInv, PassInv
<1>3. LET due == {i \in DOMAIN trade_journal : trade_journal[i].action = "exit" /\ trade_journal[i].date > today - Days}
      IN  J!totalPnl = J!realized(due, Len(trade_journal))
  BY <1>2, TotalTold
<1>4. \A date \in 1..today :
          LET cum(n) == J!realized(J!exitsOf(date), n)
              points == {p \in (0..Len(trade_journal)) \X (0..Len(trade_journal)) : p[1] <= p[2]}
          IN  J!getDailySummary(date).dd = J!Max({cum(p[1]) - cum(p[2]) : p \in points})
  BY <1>2, DrawdownTold
<1> QED
  BY <1>1, <1>3, <1>4, Zenon DEF J!DayTold

LEMMA OnlyPassesTell == BooksInv /\ [J!Next]_booksVars => J!PassTells
<1> SUFFICES ASSUME BooksInv, [J!Next]_booksVars PROVE J!PassTells
  OBVIOUS
<1>1. ASSUME passes' = passes PROVE J!PassTells
  BY <1>1 DEF J!PassTells
<1>2. CASE J!Reconcile
  BY <1>2, PassCounts DEF BooksInv
<1>3. CASE UNCHANGED booksVars
  BY <1>1, <1>3 DEF booksVars
<1>4. CASE J!Midnight \/ J!Block \/ J!Crash \/ J!ReconcileFails
  BY <1>1, <1>4 DEF J!Midnight, J!Block, J!Crash, J!ReconcileFails
<1>5. ASSUME NEW parts \in 1..2, J!Place(parts) PROVE J!PassTells
  <2>1. passes' = passes
    BY <1>5 DEF J!Place
  <2> QED
    BY <1>1, <2>1
<1>6. ASSUME NEW o \in open, NEW fee \in BOOLEAN, NEW kept \in BOOLEAN, NEW pnl \in Results \union {0},
             J!Confirm(o, fee, kept, pnl)
      PROVE  J!PassTells
  <2>1. passes' = passes
    BY <1>6 DEF J!Confirm
  <2> QED
    BY <1>1, <2>1
<1> QED
  BY <1>2, <1>3, <1>4, <1>5, <1>6 DEF J!Next

(* The counters are those of their day; the drawdown of a day is its       *)
(* deepest fall and the total that of the exits of the days reported,      *)
(* whichever entries a failure left out; a pass misses no order it sees    *)
(* all fills of and, where its pages are long enough, counts exactly the   *)
(* orders whose entry is absent or differs; and a page of the time line    *)
(* leaves out nothing newer than what it shows (healthReport.ts,           *)
(* tradeJournal.ts, fillReconciler.ts, routes.ts).                         *)
THEOREM BooksAlwaysTold == Spec => BooksTold
<1>1. Spec => [](part = "books" => J!DayTold)
  <2>1. (part = "books" => BooksInv) => (part = "books" => J!DayTold)
    BY DayIsTold
  <2> QED
    BY <2>1, BooksHold, PTL
<1>2. Spec => [][part = "books" => J!PassTells]_vars
  <2>1. (part = "books" => BooksInv) /\ [Next]_vars => [part = "books" => J!PassTells]_vars
    BY BooksMove, OnlyPassesTell
  <2> QED
    BY <2>1, BooksHold, PTL DEF Spec
<1> QED
  BY <1>1, <1>2, TimelineHolds, PTL DEF BooksTold
=============================================================================
