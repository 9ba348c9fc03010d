-------------------------- MODULE TradeLimitsProofs --------------------------
(***************************************************************************)
(* Proofs about TradeLimits, for every number of symbols and of            *)
(* overlapping runs and every value of the limits.                         *)
(***************************************************************************)
EXTENDS TradeLimits, FiniteSetTheorems, FunctionTheorems, TLAPS

(* The symbols of which something is held or on its way.                   *)
Claimed == DOMAIN position \union {run[r].sym : r \in InFlight("buy")}

RunsOK ==
    /\ run = [r \in Runs |-> run[r]]
    /\ \A r \in Runs : run[r] = Idle \/ run[r].sym \in Symbols

BooksOK ==
    /\ DOMAIN position \subseteq Symbols
    /\ position = [s \in DOMAIN position |-> position[s]]
    /\ openTimes = [s \in DOMAIN openTimes |-> openTimes[s]]
    /\ \A s \in DOMAIN position : "id" \in DOMAIN position[s]
    /\ AgeIsOfThisPosition

IInv == RunsOK /\ BooksOK /\ OpenPositionsBound

-----------------------------------------------------------------------------
(* The image of the runs is no larger than their number.                   *)
LEMMA RunImage ==
    ASSUME NEW f, f = [r \in Runs |-> f[r]]
    PROVE  /\ IsFiniteSet({f[r].sym : r \in Runs})
           /\ Cardinality({f[r].sym : r \in Runs}) <= Cardinality(Runs)
  <1>. DEFINE g == [r \in Runs |-> f[r].sym]
              T == {f[r].sym : r \in Runs}
  <1>1. g \in Surjection(Runs, T)
    BY DEF Surjection
  <1>. QED BY <1>1, FS_Surjection, LimitsAssumption

LEMMA ClaimedFinite == RunsOK /\ BooksOK => Claimed \subseteq Symbols /\ IsFiniteSet(Claimed)
  <1>. SUFFICES ASSUME RunsOK, BooksOK PROVE Claimed \subseteq Symbols /\ IsFiniteSet(Claimed)
    OBVIOUS
  <1>1. \A r \in InFlight("buy") : run[r].sym \in Symbols
    BY DEF RunsOK, InFlight, Idle
  <1>2. Claimed \subseteq Symbols
    BY <1>1 DEF Claimed, BooksOK
  <1>. QED BY <1>2, FS_Subset, LimitsAssumption

(* A step that claims no further symbol keeps the bound.                   *)
LEMMA NothingClaimed ==
    ASSUME RunsOK, BooksOK, OpenPositionsBound, Claimed' \subseteq Claimed
    PROVE  OpenPositionsBound'
  <1>1. IsFiniteSet(Claimed) /\ Cardinality(Claimed) \in Int
    BY ClaimedFinite, FS_CardinalityType
  <1>2. Cardinality(Claimed') \in Int /\ Cardinality(Claimed') <= Cardinality(Claimed)
    BY <1>1, FS_Subset, FS_CardinalityType
  <1>3. Cardinality(Claimed) <= MaxOpen - 1 + Cardinality(Runs)
    BY DEF OpenPositionsBound, Claimed
  <1>4. Cardinality(Claimed') <= MaxOpen - 1 + Cardinality(Runs)
    BY <1>1, <1>2, <1>3, FS_CardinalityType, LimitsAssumption
  <1>. QED BY <1>4 DEF OpenPositionsBound, Claimed

(* A buy of a symbol without a position is decided while a slot is free:   *)
(* whatever the other runs have on its way is at most one symbol a run.    *)
LEMMA SlotClaimed ==
    ASSUME RunsOK', BooksOK, position' = position, Cardinality(DOMAIN position) < MaxOpen
    PROVE  OpenPositionsBound'
  <1>. DEFINE D == DOMAIN position
              T == {run'[r].sym : r \in Runs}
  <1>1. IsFiniteSet(T) /\ Cardinality(T) <= Cardinality(Runs)
    BY RunImage DEF RunsOK
  <1>2. IsFiniteSet(D)
    BY FS_Subset, LimitsAssumption DEF BooksOK
  <1>3. IsFiniteSet(D \union T) /\ Cardinality(D \union T) <= Cardinality(D) + Cardinality(T)
    <2>1. IsFiniteSet(D \cap T)
      BY <1>2, FS_Subset
    <2>2. Cardinality(D \cap T) \in Nat /\ Cardinality(D) \in Nat /\ Cardinality(T) \in Nat
      BY <1>1, <1>2, <2>1, FS_CardinalityType
    <2>3. /\ IsFiniteSet(D \union T)
          /\ Cardinality(D \union T) = Cardinality(D) + Cardinality(T) - Cardinality(D \cap T)
      <3>. HIDE DEF D, T
      <3>. QED BY <1>1, <1>2, FS_Union
    <2>. QED BY <2>2, <2>3
  <1>4. Claimed' \subseteq D \union T
    BY DEF Claimed, InFlight
  <1>5. Cardinality(Claimed') <= Cardinality(D \union T)
    BY <1>3, <1>4, FS_Subset
  <1>6. Cardinality(Claimed') \in Int /\ Cardinality(D \union T) \in Int
    BY <1>3, <1>4, FS_Subset, FS_CardinalityType
  <1>7. /\ Cardinality(D) \in Int /\ Cardinality(T) \in Int /\ Cardinality(Runs) \in Int
        /\ MaxOpen \in Int
    BY <1>1, <1>2, FS_CardinalityType, LimitsAssumption
  <1>8. Cardinality(Claimed') <= MaxOpen - 1 + Cardinality(Runs)
    BY <1>1, <1>3, <1>5, <1>6, <1>7
  <1>. QED BY <1>8 DEF OpenPositionsBound, Claimed

-----------------------------------------------------------------------------
(* The time of an entry is noted for the position that is there.           *)
LEMMA NoteKeeps ==
    ASSUME BooksOK, NEW s \in Symbols, position' = position,
           noteOpen(s) \/ openTimes' = openTimes
    PROVE  BooksOK'
  <1>1. \A x \in DOMAIN openTimes : has(x) /\ openTimes[x] = position[x].id
    BY DEF BooksOK, AgeIsOfThisPosition
  <1>2. CASE openTimes' = openTimes
    BY <1>2, Zenon DEF BooksOK, AgeIsOfThisPosition, has
  <1>3. CASE openTimes' # openTimes
    <2>1. openTimes' = [x \in DOMAIN openTimes \union {s} |->
                          IF x = s THEN position[s].id ELSE openTimes[x]]
      BY <1>3 DEF noteOpen
    <2>2. has(s)
      BY <1>3 DEF noteOpen, holds
    <2>3. DOMAIN openTimes' = DOMAIN openTimes \union {s}
      BY <2>1
    <2>4. openTimes' = [x \in DOMAIN openTimes' |-> openTimes'[x]]
      BY <2>1
    <2>5. \A x \in DOMAIN openTimes' : has(x) /\ openTimes'[x] = position[x].id
      BY <1>1, <2>1, <2>2, <2>3
    <2>. QED BY <2>4, <2>5 DEF BooksOK, AgeIsOfThisPosition, has
  <1>. QED BY <1>2, <1>3

(* A buy keeps the identity of a position, or opens one no time is kept of. *)
LEMMA BoughtKeeps ==
    ASSUME BooksOK, NEW s \in Symbols, NEW q, NEW id, bought(s, q, id)
    PROVE  BooksOK' /\ DOMAIN position' = DOMAIN position \union {s}
  <1>1. /\ DOMAIN position' = DOMAIN position \union {s}
        /\ position' = [x \in DOMAIN position' |-> position'[x]]
        /\ openTimes' = openTimes
    BY DEF bought
  <1>2. \A x \in DOMAIN position : "id" \in DOMAIN position'[x] /\ position'[x].id = position[x].id
    <2>. SUFFICES ASSUME NEW x \in DOMAIN position
                  PROVE  "id" \in DOMAIN position'[x] /\ position'[x].id = position[x].id
      OBVIOUS
    <2>1. "id" \in DOMAIN position[x]
      BY DEF BooksOK
    <2>2. CASE x # s
      BY <2>1, <2>2 DEF bought
    <2>3. CASE x = s
      <3>1. position'[x] = [position[x] EXCEPT !.qty = @ + q,
                                               !.nan = @ \/ position[x].qty + q = 0]
        BY <2>3 DEF bought, has
      <3>. QED BY <2>1, <3>1
    <2>. QED BY <2>2, <2>3
  <1>3. s \notin DOMAIN position => "id" \in DOMAIN position'[s]
    BY DEF bought, has
  <1>4. \A x \in DOMAIN position' : "id" \in DOMAIN position'[x]
    BY <1>1, <1>2, <1>3
  <1>5. AgeIsOfThisPosition'
    BY <1>1, <1>2 DEF AgeIsOfThisPosition, BooksOK, has
  <1>. QED BY <1>1, <1>4, <1>5 DEF BooksOK

(* A sell keeps a position's identity, or ends it and its time with it.    *)
LEMMA SoldKeeps ==
    ASSUME BooksOK, NEW s \in Symbols, NEW q, sold(s, q)
    PROVE  BooksOK' /\ DOMAIN position' \subseteq DOMAIN position
  <1>1. CASE ~has(s)
    <2>1. position' = position /\ openTimes' = openTimes
      BY <1>1 DEF sold, books
    <2>. QED BY <2>1, NoteKeeps
  <1>2. CASE has(s)
    <2>1. \/ position' = without(position, s) /\ openTimes' = without(openTimes, s)
          \/ /\ position' = [position EXCEPT ![s].qty = position[s].qty - closed(s, q)]
             /\ openTimes' = openTimes
      BY <1>2 DEF sold, forget
    <2>2. CASE position' = without(position, s) /\ openTimes' = without(openTimes, s)
      <3>1. /\ DOMAIN position' = DOMAIN position \ {s}
            /\ DOMAIN openTimes' = DOMAIN openTimes \ {s}
            /\ position' = [x \in DOMAIN position' |-> position'[x]]
            /\ openTimes' = [x \in DOMAIN openTimes' |-> openTimes'[x]]
        BY <2>2 DEF without
      <3>2. /\ \A x \in DOMAIN position' : position'[x] = position[x]
            /\ \A x \in DOMAIN openTimes' : openTimes'[x] = openTimes[x]
        BY <2>2 DEF without
      <3>3. AgeIsOfThisPosition'
        BY <3>1, <3>2 DEF BooksOK, AgeIsOfThisPosition, has
      <3>. QED BY <3>1, <3>2, <3>3 DEF BooksOK
    <2>3. CASE /\ position' = [position EXCEPT ![s].qty = position[s].qty - closed(s, q)]
               /\ openTimes' = openTimes
      <3>1. DOMAIN position' = DOMAIN position
        BY <2>3
      <3>2. \A x \in DOMAIN position : "id" \in DOMAIN position'[x]
                                       /\ position'[x].id = position[x].id
        BY <2>3 DEF BooksOK
      <3>3. position' = [x \in DOMAIN position' |-> position'[x]]
        BY <2>3
      <3>. QED BY <2>3, <3>1, <3>2, <3>3 DEF BooksOK, AgeIsOfThisPosition, has
    <2>. QED BY <2>1, <2>2, <2>3
  <1>. QED BY <1>1, <1>2

-----------------------------------------------------------------------------
LEMMA InitIInv == Init => IInv
  <1>. SUFFICES ASSUME Init PROVE IInv
    OBVIOUS
  <1>1. RunsOK
    BY DEF Init, RunsOK
  <1>2. BooksOK
    BY DEF Init, BooksOK, AgeIsOfThisPosition
  <1>3. Cardinality(DOMAIN position) < MaxOpen
    <2>1. DOMAIN position = {}
      BY DEF Init
    <2>. QED BY <2>1, FS_EmptySet, LimitsAssumption
  <1>4. InFlight("buy") = {}
    BY DEF Init, InFlight, Idle
  <1>5. {run[r].sym : r \in InFlight("buy")} = {}
    BY <1>4
  <1>6. Cardinality(DOMAIN position \union {run[r].sym : r \in InFlight("buy")}) = 0
    <2>1. DOMAIN position = {}
      BY DEF Init
    <2>. QED BY <1>5, <2>1, FS_EmptySet
  <1>7. OpenPositionsBound
    <2>1. Cardinality(Runs) \in Nat /\ MaxOpen \in Nat \ {0}
      BY FS_CardinalityType, LimitsAssumption
    <2>. QED BY <1>6, <2>1 DEF OpenPositionsBound
  <1>. QED BY <1>1, <1>2, <1>7 DEF IInv

LEMMA SubmitKeeps ==
    ASSUME RunsOK, NEW r \in Runs, NEW s \in Symbols, NEW side, NEW q, NEW t,
           Submit(r, s, side, q, t)
    PROVE  RunsOK'
  <1>1. run' = [run EXCEPT ![r] = [sym |-> s, side |-> side, qty |-> q,
                                   trail |-> t, id |-> placed + 1]]
    BY DEF Submit
  <1>. QED BY <1>1 DEF RunsOK

LEMMA SellSubmitted ==
    ASSUME IInv, NEW r \in Runs, NEW s \in Symbols, NEW q, NEW t,
           Submit(r, s, "sell", q, t), position' = position
    PROVE  OpenPositionsBound'
  <1>1. run' = [run EXCEPT ![r] = [sym |-> s, side |-> "sell", qty |-> q,
                                   trail |-> t, id |-> placed + 1]]
    BY DEF Submit
  <1>2. \A x \in InFlight("buy")' : x \in InFlight("buy") /\ run'[x] = run[x]
    BY <1>1 DEF InFlight, IInv, RunsOK
  <1>3. Claimed' \subseteq Claimed
    BY <1>2 DEF Claimed
  <1>. QED BY <1>3, NothingClaimed DEF IInv

LEMMA BuyKeeps ==
    ASSUME IInv, NEW r \in Runs, NEW s \in Symbols, Buy(r, s)
    PROVE  IInv'
  <1>1. PICK q \in BuySizes(s) : Submit(r, s, "buy", q, FALSE)
    BY DEF Buy
  <1>2. RunsOK'
    BY <1>1, SubmitKeeps DEF IInv
  <1>3. BooksOK'
    BY NoteKeeps DEF Buy, IInv
  <1>4. position' = position
    BY DEF Buy
  <1>5. CASE has(s)
    <2>1. run' = [run EXCEPT ![r] = [sym |-> s, side |-> "buy", qty |-> q,
                                     trail |-> FALSE, id |-> placed + 1]]
      BY <1>1 DEF Submit
    <2>2. \A x \in InFlight("buy")' : run'[x].sym = s \/ (x \in InFlight("buy") /\ run'[x] = run[x])
      BY <2>1 DEF InFlight, IInv, RunsOK
    <2>3. Claimed' \subseteq Claimed
      BY <1>4, <1>5, <2>2 DEF Claimed, has
    <2>. QED BY <1>2, <1>3, <2>3, NothingClaimed DEF IInv
  <1>6. CASE ~has(s)
    <2>1. Cardinality(DOMAIN position) < MaxOpen
      BY <1>6 DEF Buy, riskAllows, hasSlot
    <2>. QED BY <1>2, <1>3, <1>4, <2>1, SlotClaimed DEF IInv
  <1>. QED BY <1>5, <1>6

LEMMA SellKeeps ==
    ASSUME IInv, NEW r \in Runs, NEW s \in Symbols, Sell(r, s) \/ TrailSell(r, s)
    PROVE  IInv'
  <1>1. \E t : Submit(r, s, "sell", SellSize(s), t)
    BY DEF Sell, TrailSell
  <1>2. position' = position
    BY DEF Sell, TrailSell, books
  <1>3. RunsOK'
    BY <1>1, SubmitKeeps DEF IInv
  <1>4. noteOpen(s) \/ openTimes' = openTimes
    BY DEF Sell, TrailSell, books
  <1>5. BooksOK'
    BY <1>2, <1>4, NoteKeeps DEF IInv
  <1>6. OpenPositionsBound'
    BY <1>1, <1>2, SellSubmitted
  <1>. QED BY <1>3, <1>5, <1>6 DEF IInv

(* A run that ends frees its claim, or makes it a position.                *)
LEMMA RunEnds ==
    ASSUME IInv, NEW r \in Runs, run' = [run EXCEPT ![r] = Idle]
    PROVE  RunsOK' /\ \A x \in InFlight("buy")' : x \in InFlight("buy") /\ run'[x] = run[x]
  BY DEF IInv, RunsOK, InFlight, Idle

LEMMA ReturnedKeeps ==
    ASSUME IInv, NEW r \in Runs, Returned(r)
    PROVE  IInv'
  <1>. DEFINE o == run[r]
  <1>1. /\ o # Idle /\ run' = [run EXCEPT ![r] = Idle]
        /\ \E k \in 0..o.qty : IF o.side = "buy" THEN bought(o.sym, k, o.id) ELSE sold(o.sym, k)
    BY DEF Returned
  <1>2. o.sym \in Symbols
    BY <1>1 DEF IInv, RunsOK
  <1>3. RunsOK' /\ \A x \in InFlight("buy")' : x \in InFlight("buy") /\ run'[x] = run[x]
    BY <1>1, RunEnds
  <1>4. CASE o.side = "buy"
    <2>1. PICK k : bought(o.sym, k, o.id)
      BY <1>1, <1>4
    <2>2. BooksOK' /\ DOMAIN position' = DOMAIN position \union {o.sym}
      BY <1>2, <2>1, BoughtKeeps DEF IInv
    <2>3. r \in InFlight("buy")
      BY <1>4 DEF InFlight
    <2>4. Claimed' \subseteq Claimed
      BY <1>3, <2>2, <2>3 DEF Claimed
    <2>. QED BY <1>3, <2>2, <2>4, NothingClaimed DEF IInv
  <1>5. CASE o.side # "buy"
    <2>1. PICK k : sold(o.sym, k)
      BY <1>1, <1>5
    <2>2. BooksOK' /\ DOMAIN position' \subseteq DOMAIN position
      BY <1>2, <2>1, SoldKeeps DEF IInv
    <2>3. Claimed' \subseteq Claimed
      BY <1>3, <2>2 DEF Claimed
    <2>. QED BY <1>3, <2>2, <2>3, NothingClaimed DEF IInv
  <1>. QED BY <1>4, <1>5

LEMMA NextKeeps == IInv /\ [Next]_vars => IInv'
  <1>. SUFFICES ASSUME IInv, [Next]_vars PROVE IInv'
    OBVIOUS
  <1>1. ASSUME NEW s \in Symbols, Look(s) PROVE IInv'
    <2>1. run' = run /\ position' = position
      BY <1>1 DEF Look
    <2>2. BooksOK'
      BY <1>1, <2>1, NoteKeeps DEF Look, IInv
    <2>. QED BY <2>1, <2>2 DEF IInv, RunsOK, OpenPositionsBound, InFlight
  <1>2. ASSUME NEW r \in Runs, Failed(r) PROVE IInv'
    <2>1. run' = [run EXCEPT ![r] = Idle] /\ position' = position /\ openTimes' = openTimes
      BY <1>2 DEF Failed, books
    <2>2. RunsOK' /\ \A x \in InFlight("buy")' : x \in InFlight("buy") /\ run'[x] = run[x]
      BY <2>1, RunEnds
    <2>3. Claimed' \subseteq Claimed
      BY <2>1, <2>2 DEF Claimed
    <2>4. BooksOK'
      BY <2>1 DEF IInv, BooksOK, AgeIsOfThisPosition, has
    <2>. QED BY <2>2, <2>3, <2>4, NothingClaimed DEF IInv
  <1>3. ASSUME run' = run /\ position' = position /\ openTimes' = openTimes PROVE IInv'
    BY <1>3 DEF IInv, RunsOK, BooksOK, AgeIsOfThisPosition, has, OpenPositionsBound, InFlight
  <1>4. CASE CooldownEnds \/ ChopGuardEnds \/ StopOutEnds \/ UNCHANGED vars
    BY <1>3, <1>4 DEF CooldownEnds, ChopGuardEnds, StopOutEnds, vars, books
  <1>. QED BY <1>1, <1>2, <1>4, BuyKeeps, SellKeeps, ReturnedKeeps DEF Next

-----------------------------------------------------------------------------
(* maxOpenPositions is exceeded by at most one position for each further   *)
(* run in progress, however many symbols are traded (riskEngine.ts:96).    *)
THEOREM LimitsOpenPositions == Spec => []OpenPositionsBound
  <1>1. IInv => OpenPositionsBound
    BY DEF IInv
  <1>. QED BY <1>1, InitIInv, NextKeeps, PTL DEF Spec

(* No time of an earlier position is left when a new one is opened         *)
(* (loops.ts:1104).                                                        *)
THEOREM LimitsAge == Spec => []AgeIsOfThisPosition
  <1>1. IInv => AgeIsOfThisPosition
    BY DEF IInv, BooksOK
  <1>. QED BY <1>1, InitIInv, NextKeeps, PTL DEF Spec

-----------------------------------------------------------------------------
(* Sums.  A member's units are as many as it contributes.                  *)
LEMMA UnitsOfOne ==
    ASSUME NEW x, NEW k \in Nat
    PROVE  IsFiniteSet({x} \X (1..k)) /\ Cardinality({x} \X (1..k)) = k
<1> DEFINE A == {x}
           B == 1..k
<1>1. IsFiniteSet(A) /\ Cardinality(A) = 1
  BY FS_Singleton
<1>2. IsFiniteSet(B) /\ Cardinality(B) = k
  BY FS_Interval
<1> HIDE DEF A, B
<1>3. IsFiniteSet(A \X B) /\ Cardinality(A \X B) = 1 * k
  BY <1>1, <1>2, FS_Product
<1> QED
  BY <1>3 DEF A, B

LEMMA UnitsFinite ==
    ASSUME NEW S, IsFiniteSet(S), NEW n, \A x \in S : n[x] \in Nat
    PROVE  IsFiniteSet(Units(S, n)) /\ Total(S, n) \in Nat
<1> DEFINE f == [x \in S |-> {x} \X (1..n[x])]
           T == {{x} \X (1..n[x]) : x \in S}
<1>1. f \in Surjection(S, T)
  BY DEF Surjection
<1>2. IsFiniteSet(T)
  BY <1>1, FS_Surjection
<1>3. \A t \in T : IsFiniteSet(t)
  <2>1. \A x \in S : IsFiniteSet({x} \X (1..n[x]))
    BY UnitsOfOne
  <2> QED
    BY <2>1
<1>4. IsFiniteSet(UNION T)
  <2> HIDE DEF T
  <2> QED
    BY <1>2, <1>3, FS_UNION
<1> QED
  BY <1>4, FS_CardinalityType DEF Units, Total

LEMMA TotalOfNone == ASSUME NEW n PROVE Total({}, n) = 0
<1>1. Units({}, n) = {}
  BY DEF Units
<1> QED
  BY <1>1, FS_EmptySet DEF Total

(* One member more adds what it contributes.                               *)
LEMMA TotalAdd ==
    ASSUME NEW S, IsFiniteSet(S), NEW n, \A x \in S : n[x] \in Nat,
           NEW o, o \notin S, n[o] \in Nat
    PROVE  Total(S \union {o}, n) = Total(S, n) + n[o]
<1> DEFINE A == Units(S, n)
           B == {o} \X (1..n[o])
<1>1. Units(S \union {o}, n) = A \union B
  BY DEF Units
<1>2. A \cap B = {}
  BY DEF Units
<1>3. IsFiniteSet(A) /\ IsFiniteSet(B) /\ Cardinality(A) \in Nat /\ Cardinality(B) = n[o]
  BY UnitsFinite, UnitsOfOne DEF Total
<1>4. Cardinality(A \union B) = Cardinality(A) + Cardinality(B) - Cardinality(A \cap B)
  <2> HIDE DEF A, B
  <2> QED
    BY <1>3, FS_Union
<1>5. Cardinality(A \cap B) = 0
  BY <1>2, FS_EmptySet
<1>6. Total(S, n) = Cardinality(A) /\ Total(S \union {o}, n) = Cardinality(A \union B)
  BY <1>1 DEF Total
<1> HIDE DEF A, B
<1> QED
  BY <1>3, <1>4, <1>5, <1>6

LEMMA TotalSame ==
    ASSUME NEW S, NEW n, NEW m, \A x \in S : n[x] = m[x]
    PROVE  Total(S, n) = Total(S, m)
<1>1. Units(S, n) = Units(S, m)
  BY DEF Units
<1> QED
  BY <1>1 DEF Total

(* No sum exceeds the number of its members times their bound.             *)
LEMMA TotalBound ==
    ASSUME NEW S, IsFiniteSet(S), NEW n, NEW b \in Nat, \A x \in S : n[x] \in Nat /\ n[x] <= b
    PROVE  Total(S, n) <= Cardinality(S) * b
<1> DEFINE B == 1..b
<1>1. IsFiniteSet(B) /\ Cardinality(B) = b
  BY FS_Interval
<1>2. Units(S, n) \subseteq S \X B
  BY DEF Units
<1> HIDE DEF B
<1>3. IsFiniteSet(S \X B) /\ Cardinality(S \X B) = Cardinality(S) * b
  BY <1>1, FS_Product
<1> QED
  BY <1>2, <1>3, FS_Subset DEF Total

-----------------------------------------------------------------------------
(* Amounts are natural numbers, and no buy is larger than the limit on a   *)
(* position or the least size: it is sized up to the greater of the two,   *)
(* whatever is held already.                                               *)
Amounts ==
    /\ \A s \in DOMAIN position : "qty" \in DOMAIN position[s] /\ position[s].qty \in Nat
    /\ \A r \in Runs : run[r] # Idle => run[r].qty \in Nat
    /\ \A r \in InFlight("buy") : run[r].qty * Price[run[r].sym] <= MaxOrder

EInv == IInv /\ Amounts /\ ExposureBound

cost(s) == [r \in BuyingOf(s) |-> run[r].qty * Price[s]]

LEMMA MaxOrderType == MaxOrder \in Nat
  BY LimitsAssumption DEF MaxOrder

LEMMA PriceType == ASSUME NEW s \in Symbols PROVE Price[s] \in Nat \ {0}
  BY LimitsAssumption

LEMMA ProductType == ASSUME NEW a \in Nat, NEW b \in Nat PROVE a * b \in Nat
  OBVIOUS

LEMMA ProductRises ==
    ASSUME NEW a \in Nat, NEW b \in Nat, NEW p \in Nat, a <= b
    PROVE  a * p <= b * p
<1>1. b * p = a * p + (b - a) * p
  OBVIOUS
<1>2. (b - a) * p \in Nat /\ a * p \in Nat
  BY ProductType
<1> QED
  BY <1>1, <1>2

(* The runs that buy a symbol, and what they may spend on it.              *)
LEMMA Ordered ==
    ASSUME RunsOK, Amounts, NEW s \in Symbols
    PROVE  /\ IsFiniteSet(BuyingOf(s))
           /\ \A r \in BuyingOf(s) : cost(s)[r] \in Nat /\ cost(s)[r] <= MaxOrder
           /\ ordered(s) \in Nat /\ ordered(s) <= Cardinality(Runs) * MaxOrder
<1>1. BuyingOf(s) \subseteq Runs /\ IsFiniteSet(Runs)
  BY LimitsAssumption DEF BuyingOf, InFlight
<1>2. /\ IsFiniteSet(BuyingOf(s)) /\ Cardinality(BuyingOf(s)) \in Nat
      /\ Cardinality(Runs) \in Nat /\ Cardinality(BuyingOf(s)) <= Cardinality(Runs)
  BY <1>1, FS_Subset, FS_CardinalityType
<1>3. ASSUME NEW r \in BuyingOf(s) PROVE cost(s)[r] \in Nat /\ cost(s)[r] <= MaxOrder
  <2>1. r \in Runs /\ run[r] # Idle /\ run[r].sym = s /\ r \in InFlight("buy")
    BY DEF BuyingOf, InFlight, Idle
  <2>2. run[r].qty \in Nat /\ run[r].qty * Price[s] <= MaxOrder
    BY <2>1 DEF Amounts
  <2>3. cost(s)[r] = run[r].qty * Price[s]
    BY DEF cost
  <2> QED
    BY <2>2, <2>3, PriceType, ProductType
<1>4. ordered(s) = Total(BuyingOf(s), cost(s))
  BY DEF ordered, cost
<1>5. MaxOrder \in Nat
  BY MaxOrderType
<1>6. ordered(s) \in Nat /\ ordered(s) <= Cardinality(BuyingOf(s)) * MaxOrder
  BY <1>2, <1>3, <1>4, <1>5, UnitsFinite, TotalBound
<1>7. Cardinality(BuyingOf(s)) * MaxOrder <= Cardinality(Runs) * MaxOrder
  BY <1>2, <1>5, ProductRises
<1> QED
  BY <1>2, <1>3, <1>5, <1>6, <1>7

(* What is held of a symbol is worth a natural number.                     *)
LEMMA NotionalType ==
    ASSUME Amounts, NEW s \in Symbols PROVE existingNotional(s) \in Nat
  BY PriceType, ProductType DEF Amounts, existingNotional, has

Spending ==
    \A s \in Symbols : /\ existingNotional(s) \in Nat
                      /\ ordered(s) \in Nat /\ ordered(s) <= Cardinality(Runs) * MaxOrder

LEMMA SpendingTyped == RunsOK /\ Amounts => Spending
  BY Ordered, NotionalType DEF Spending

LEMMA SpendingTypedNext == RunsOK' /\ Amounts' => Spending'
  BY SpendingTyped, PTL

(* Runs that buy what they bought before have ordered the same.            *)
LEMMA OrderedSame ==
    ASSUME NEW s \in Symbols, BuyingOf(s)' = BuyingOf(s), \A r \in BuyingOf(s) : run'[r] = run[r]
    PROVE  ordered(s)' = ordered(s)
<1> DEFINE n == [r \in BuyingOf(s) |-> run'[r].qty * Price[s]]
<1>1. ordered(s)' = Total(BuyingOf(s), n) /\ ordered(s) = Total(BuyingOf(s), cost(s))
  BY DEF ordered, cost
<1>2. \A r \in BuyingOf(s) : n[r] = cost(s)[r]
  BY DEF cost
<1> HIDE DEF n
<1> QED
  BY <1>1, <1>2, TotalSame

(* A run that ends has ordered what the others have not.                   *)
LEMMA OrderedEnds ==
    ASSUME RunsOK, Amounts, NEW r \in Runs, run' = [run EXCEPT ![r] = Idle], NEW s \in Symbols
    PROVE  ordered(s) = ordered(s)' + (IF r \in BuyingOf(s) THEN run[r].qty * Price[s] ELSE 0)
<1>1. BuyingOf(s)' = BuyingOf(s) \ {r} /\ \A x \in BuyingOf(s) \ {r} : run'[x] = run[x]
  BY DEF BuyingOf, InFlight, Idle, RunsOK
<1>2. CASE r \notin BuyingOf(s)
  <2>1. BuyingOf(s)' = BuyingOf(s) /\ \A x \in BuyingOf(s) : run'[x] = run[x]
    BY <1>1, <1>2
  <2> QED
    BY <1>2, <2>1, OrderedSame, Ordered
<1>3. CASE r \in BuyingOf(s)
  <2> DEFINE S == BuyingOf(s) \ {r}
             n == cost(s)
             m == [x \in S |-> run'[x].qty * Price[s]]
  <2>1. /\ IsFiniteSet(S) /\ r \notin S /\ BuyingOf(s) = S \union {r}
        /\ \A x \in S : n[x] \in Nat
        /\ n[r] \in Nat /\ n[r] = run[r].qty * Price[s]
    BY <1>3, Ordered, FS_Difference DEF cost
  <2>2. \A x \in S : n[x] = m[x]
    BY <1>1 DEF cost
  <2>3. ordered(s) = Total(BuyingOf(s), n) /\ ordered(s)' = Total(S, m)
    BY <1>1 DEF ordered, cost
  <2> HIDE DEF S, n, m
  <2>4. Total(S \union {r}, n) = Total(S, n) + n[r] /\ Total(S, n) = Total(S, m)
    BY <2>1, <2>2, TotalAdd, TotalSame
  <2> QED
    BY <1>3, <2>1, <2>3, <2>4
<1> QED
  BY <1>2, <1>3

-----------------------------------------------------------------------------
(* A step that adds to no holding and to no order keeps the bound.         *)
LEMMA NothingAdded ==
    ASSUME EInv, RunsOK', Amounts',
           \A s \in Symbols : existingNotional(s)' + ordered(s)' <= existingNotional(s) + ordered(s)
    PROVE  ExposureBound'
<1> SUFFICES ASSUME NEW s \in Symbols
             PROVE  existingNotional(s)' + ordered(s)' < MaxPosition + Cardinality(Runs) * MaxOrder
  BY DEF ExposureBound
<1> DEFINE e == existingNotional(s)
           o == ordered(s)
           b == MaxPosition + Cardinality(Runs) * MaxOrder
<1>1. e \in Nat /\ o \in Nat /\ e + o < b
  BY Ordered, NotionalType DEF EInv, IInv, ExposureBound
<1>2. existingNotional(s)' \in Nat /\ ordered(s)' \in Nat
  BY SpendingTypedNext DEF Spending
<1>3. b \in Nat
  BY FS_CardinalityType, LimitsAssumption, MaxOrderType, ProductType
<1> HIDE DEF e, o, b
<1>4. existingNotional(s)' + ordered(s)' <= e + o
  BY DEF e, o
<1> QED
  BY <1>1, <1>2, <1>3, <1>4 DEF b

(* A buy is decided while what is held is below the limit, and all runs    *)
(* together have ordered no more than the largest size each                *)
(* (riskEngine.ts).                                                        *)
LEMMA BuyBounded ==
    ASSUME EInv, RunsOK', Amounts', NEW r \in Runs, NEW s \in Symbols, Buy(r, s)
    PROVE  ExposureBound'
<1>1. PICK q \in BuySizes(s) : Submit(r, s, "buy", q, FALSE)
  BY DEF Buy
<1>2. /\ run' = [run EXCEPT ![r] = [sym |-> s, side |-> "buy", qty |-> q, trail |-> FALSE, id |-> placed + 1]]
      /\ position' = position /\ run[r] = Idle /\ existingNotional(s) < MaxPosition
  BY <1>1 DEF Submit, Buy, riskAllows, hasCapacity
<1>3. ASSUME NEW x \in Symbols
      PROVE  existingNotional(x)' + ordered(x)' < MaxPosition + Cardinality(Runs) * MaxOrder
  <2>1. existingNotional(x)' = existingNotional(x)
    BY <1>2 DEF existingNotional, has
  <2>2. CASE x = s
    <3> DEFINE e == existingNotional(x)
               o == ordered(x)'
               b == Cardinality(Runs) * MaxOrder
    <3>1. o \in Nat /\ o <= b
      BY SpendingTypedNext DEF Spending
    <3>2. e \in Nat /\ e < MaxPosition /\ MaxPosition \in Nat
      BY <1>2, <2>2, NotionalType, LimitsAssumption DEF EInv
    <3>3. b \in Nat
      BY FS_CardinalityType, LimitsAssumption, MaxOrderType, ProductType
    <3> HIDE DEF e, o, b
    <3>4. e + o < MaxPosition + b
      BY <3>1, <3>2, <3>3
    <3> QED
      BY <2>1, <3>4 DEF e, o, b
  <2>3. CASE x # s
    <3>1. BuyingOf(x)' = BuyingOf(x) /\ \A y \in BuyingOf(x) : run'[y] = run[y]
      BY <1>2, <2>3 DEF BuyingOf, InFlight, Idle, EInv, IInv, RunsOK
    <3>2. ordered(x)' = ordered(x)
      BY <3>1, OrderedSame
    <3> QED
      BY <2>1, <3>2 DEF EInv, ExposureBound
  <2> QED
    BY <2>2, <2>3
<1> QED
  BY <1>3 DEF ExposureBound

(* What is sold was held; what is bought was ordered.                      *)
LEMMA SoldLess ==
    ASSUME Amounts, BooksOK, NEW s \in Symbols, NEW q \in Nat, sold(s, q)
    PROVE  /\ \A x \in DOMAIN position' : "qty" \in DOMAIN position'[x] /\ position'[x].qty \in Nat
           /\ \A x \in Symbols : existingNotional(x)' <= existingNotional(x)
<1>0. ASSUME DOMAIN position' \subseteq DOMAIN position,
             \A x \in DOMAIN position' : /\ "qty" \in DOMAIN position'[x] /\ position'[x].qty \in Nat
                                         /\ position'[x].qty <= position[x].qty
      PROVE  /\ \A x \in DOMAIN position' : "qty" \in DOMAIN position'[x] /\ position'[x].qty \in Nat
             /\ \A x \in Symbols : existingNotional(x)' <= existingNotional(x)
  <2>1. ASSUME NEW x \in Symbols PROVE existingNotional(x)' <= existingNotional(x)
    <3>1. CASE x \in DOMAIN position'
      <4>1. /\ existingNotional(x)' = position'[x].qty * Price[x]
            /\ existingNotional(x) = position[x].qty * Price[x]
        BY <1>0, <3>1 DEF existingNotional, has
      <4>2. position'[x].qty \in Nat /\ position[x].qty \in Nat /\ position'[x].qty <= position[x].qty
        BY <1>0, <3>1 DEF Amounts
      <4> QED
        BY <4>1, <4>2, PriceType, ProductRises
    <3>2. CASE x \notin DOMAIN position'
      <4>1. existingNotional(x)' = 0
        BY <3>2 DEF existingNotional, has
      <4> QED
        BY <4>1, NotionalType
    <3> QED
      BY <3>1, <3>2
  <2> QED
    BY <1>0, <2>1
<1>1. CASE ~has(s)
  <2>1. position' = position
    BY <1>1 DEF sold, books
  <2> QED
    BY <1>0, <2>1 DEF Amounts
<1>2. CASE has(s)
  <2>1. /\ position[s].qty \in Nat /\ closed(s, q) \in Nat /\ closed(s, q) <= position[s].qty
        /\ s \in DOMAIN position
    BY <1>2 DEF Amounts, has, closed
  <2>2. \/ position' = without(position, s)
        \/ position' = [position EXCEPT ![s].qty = position[s].qty - closed(s, q)]
    BY <1>2 DEF sold
  <2>3. CASE position' = without(position, s)
    <3>1. DOMAIN position' \subseteq DOMAIN position /\ \A x \in DOMAIN position' : position'[x] = position[x]
      BY <2>3 DEF without
    <3>2. \A x \in DOMAIN position' : /\ "qty" \in DOMAIN position'[x] /\ position'[x].qty \in Nat
                                      /\ position'[x].qty <= position[x].qty
      BY <3>1 DEF Amounts
    <3> QED
      BY <1>0, <3>1, <3>2
  <2>4. CASE position' = [position EXCEPT ![s].qty = position[s].qty - closed(s, q)]
    <3>1. DOMAIN position' = DOMAIN position /\ \A x \in DOMAIN position : x # s => position'[x] = position[x]
      BY <2>4
    <3>2. /\ position'[s] = [position[s] EXCEPT !.qty = position[s].qty - closed(s, q)]
          /\ "qty" \in DOMAIN position[s]
      BY <2>1, <2>4 DEF Amounts
    <3>3. position'[s].qty = position[s].qty - closed(s, q) /\ "qty" \in DOMAIN position'[s]
      BY <3>2
    <3>4. position'[s].qty \in Nat /\ position'[s].qty <= position[s].qty
      BY <2>1, <3>3
    <3>5. \A x \in DOMAIN position' : /\ "qty" \in DOMAIN position'[x] /\ position'[x].qty \in Nat
                                      /\ position'[x].qty <= position[x].qty
      BY <3>1, <3>3, <3>4 DEF Amounts
    <3> QED
      BY <1>0, <3>1, <3>5
  <2> QED
    BY <2>2, <2>3, <2>4
<1> QED
  BY <1>1, <1>2

LEMMA BoughtMore ==
    ASSUME Amounts, BooksOK, NEW s \in Symbols, NEW q \in Nat, NEW id, bought(s, q, id)
    PROVE  /\ \A x \in DOMAIN position' : "qty" \in DOMAIN position'[x] /\ position'[x].qty \in Nat
           /\ \A x \in Symbols : x # s => existingNotional(x)' = existingNotional(x)
           /\ existingNotional(s)' = existingNotional(s) + q * Price[s]
<1>1. /\ DOMAIN position' = DOMAIN position \union {s}
      /\ \A x \in DOMAIN position : x # s => position'[x] = position[x]
  BY DEF bought
<1>2. CASE has(s)
  <2>1. position'[s] = [position[s] EXCEPT !.qty = @ + q, !.nan = @ \/ position[s].qty + q = 0]
    BY <1>2 DEF bought, has
  <2>2. "qty" \in DOMAIN position[s] /\ position[s].qty \in Nat
    BY <1>2 DEF Amounts, has
  <2>3. "qty" \in DOMAIN position'[s] /\ position'[s].qty = position[s].qty + q
    BY <2>1, <2>2
  <2>4. existingNotional(s)' = (position[s].qty + q) * Price[s]
    BY <1>1, <2>3 DEF existingNotional, has
  <2>5. existingNotional(s)' = existingNotional(s) + q * Price[s]
    BY <1>2, <2>2, <2>4, PriceType DEF existingNotional
  <2> QED
    BY <1>1, <2>2, <2>3, <2>5 DEF Amounts, existingNotional, has
<1>3. CASE ~has(s)
  <2>1. position'[s] = [qty |-> q, nan |-> FALSE, id |-> id]
    BY <1>3 DEF bought
  <2>2. existingNotional(s)' = q * Price[s] /\ existingNotional(s) = 0 /\ q * Price[s] \in Nat
    BY <1>1, <1>3, <2>1, PriceType, ProductType DEF existingNotional, has
  <2> QED
    BY <1>1, <2>1, <2>2 DEF Amounts, existingNotional, has
<1> QED
  BY <1>2, <1>3

(* An order is placed with an amount that its sizing allows.               *)
LEMMA SubmitAmounts ==
    ASSUME RunsOK, Amounts, position' = position, NEW r \in Runs, NEW s \in Symbols, NEW side,
           NEW q \in Nat, NEW t, Submit(r, s, side, q, t), side = "buy" => q * Price[s] <= MaxOrder
    PROVE  Amounts'
<1>1. run' = [run EXCEPT ![r] = [sym |-> s, side |-> side, qty |-> q, trail |-> t, id |-> placed + 1]]
  BY DEF Submit
<1>2. \A x \in Runs : run'[x] = IF x = r
          THEN [sym |-> s, side |-> side, qty |-> q, trail |-> t, id |-> placed + 1] ELSE run[x]
  BY <1>1 DEF RunsOK
<1>3. \A x \in Runs : run'[x] # Idle => run'[x].qty \in Nat
  BY <1>2 DEF Amounts
<1>4. \A x \in InFlight("buy")' : run'[x].qty * Price[run'[x].sym] <= MaxOrder
  <2> SUFFICES ASSUME NEW x \in Runs, run'[x].side = "buy"
               PROVE  run'[x].qty * Price[run'[x].sym] <= MaxOrder
    BY DEF InFlight
  <2>1. CASE x = r
    BY <1>2, <2>1
  <2>2. CASE x # r
    BY <1>2, <2>2 DEF Amounts, InFlight
  <2> QED
    BY <2>1, <2>2
<1> QED
  BY <1>3, <1>4 DEF Amounts

(* A run that ends leaves the others' orders as they are.                  *)
LEMMA EndAmounts ==
    ASSUME RunsOK, Amounts, NEW r \in Runs, run' = [run EXCEPT ![r] = Idle],
           \A x \in DOMAIN position' : "qty" \in DOMAIN position'[x] /\ position'[x].qty \in Nat
    PROVE  Amounts'
<1>1. \A x \in Runs : run'[x] = IF x = r THEN Idle ELSE run[x]
  BY DEF RunsOK
<1>2. \A x \in InFlight("buy")' : x \in InFlight("buy") /\ run'[x] = run[x]
  BY <1>1 DEF InFlight, Idle
<1> QED
  BY <1>1, <1>2 DEF Amounts

LEMMA SellSizeType ==
    ASSUME Amounts, NEW s \in Symbols, holds(s) PROVE SellSize(s) \in Nat
<1> DEFINE a == position[s].qty
           n == a * DeployNum
<1>1. a \in Nat /\ DeployNum \in Nat /\ DeployDen \in Nat \ {0}
  BY LimitsAssumption DEF holds, has, Amounts
<1>2. n \in Nat
  BY <1>1, ProductType
<1>3. SellSize(s) = n \div DeployDen
  BY DEF SellSize
<1> HIDE DEF n
<1> QED
  BY <1>1, <1>2, <1>3

(* What a run brings back is at most what it had ordered.                  *)
LEMMA ReturnedBounded ==
    ASSUME EInv, NEW r \in Runs, Returned(r)
    PROVE  Amounts' /\ ExposureBound'
<1> PICK o : o = run[r]
  OBVIOUS
<1>1. o # Idle /\ run' = [run EXCEPT ![r] = Idle]
  BY DEF Returned
<1>2. PICK k \in 0..o.qty : IF o.side = "buy" THEN bought(o.sym, k, o.id) ELSE sold(o.sym, k)
  BY DEF Returned
<1>3. o.sym \in Symbols /\ o.qty \in Nat /\ k \in Nat /\ k <= o.qty
  BY <1>1, <1>2 DEF EInv, IInv, RunsOK, Amounts
<1>4. RunsOK /\ RunsOK' /\ Amounts /\ BooksOK
  BY <1>1, RunEnds DEF EInv, IInv
<1>5. \A x \in Symbols : ordered(x) =
          ordered(x)' + (IF r \in BuyingOf(x) THEN run[r].qty * Price[x] ELSE 0)
  BY <1>1, <1>4, OrderedEnds
<1>6. CASE o.side = "buy"
  <2> DEFINE s == o.sym
  <2>1. /\ \A x \in DOMAIN position' : "qty" \in DOMAIN position'[x] /\ position'[x].qty \in Nat
        /\ \A x \in Symbols : x # s => existingNotional(x)' = existingNotional(x)
        /\ existingNotional(s)' = existingNotional(s) + k * Price[s]
    BY <1>2, <1>3, <1>4, <1>6, BoughtMore
  <2>2. Amounts'
    BY <1>1, <1>4, <2>1, EndAmounts
  <2>3. \A x \in Symbols : r \in BuyingOf(x) <=> x = s
    BY <1>6 DEF BuyingOf, InFlight
  <2>4. ASSUME NEW x \in Symbols
        PROVE  existingNotional(x)' + ordered(x)' <= existingNotional(x) + ordered(x)
    <3>1. /\ existingNotional(x) \in Nat /\ ordered(x) \in Nat
          /\ existingNotional(x)' \in Nat /\ ordered(x)' \in Nat
      BY <1>4, <2>2, SpendingTyped, SpendingTypedNext DEF Spending
    <3>2. CASE x = s
      <4>1. ordered(x) = ordered(x)' + o.qty * Price[x]
        BY <1>5, <2>3, <3>2
      <4>2. k * Price[x] <= o.qty * Price[x] /\ k * Price[x] \in Nat /\ o.qty * Price[x] \in Nat
        BY <1>3, PriceType, ProductRises, ProductType
      <4>3. existingNotional(x)' = existingNotional(x) + k * Price[x]
        BY <2>1, <3>2
      <4> DEFINE a == k * Price[x]
                 b == o.qty * Price[x]
      <4> HIDE DEF a, b
      <4>4. ordered(x) = ordered(x)' + b /\ a <= b /\ a \in Nat /\ b \in Nat
            /\ existingNotional(x)' = existingNotional(x) + a
        BY <4>1, <4>2, <4>3 DEF a, b
      <4> QED
        BY <3>1, <4>4
    <3>3. CASE x # s
      BY <1>5, <2>1, <2>3, <3>1, <3>3
    <3> QED
      BY <3>2, <3>3
  <2> QED
    BY <1>4, <2>2, <2>4, NothingAdded
<1>7. CASE o.side # "buy"
  <2>1. /\ \A x \in DOMAIN position' : "qty" \in DOMAIN position'[x] /\ position'[x].qty \in Nat
        /\ \A x \in Symbols : existingNotional(x)' <= existingNotional(x)
    BY <1>2, <1>3, <1>4, <1>7, SoldLess
  <2>2. Amounts'
    BY <1>1, <1>4, <2>1, EndAmounts
  <2>3. ASSUME NEW x \in Symbols
        PROVE  existingNotional(x)' + ordered(x)' <= existingNotional(x) + ordered(x)
    <3>1. /\ existingNotional(x) \in Nat /\ ordered(x) \in Nat
          /\ existingNotional(x)' \in Nat /\ ordered(x)' \in Nat
      BY <1>4, <2>2, SpendingTyped, SpendingTypedNext DEF Spending
    <3>2. r \notin BuyingOf(x)
      BY <1>7 DEF BuyingOf, InFlight
    <3> QED
      BY <1>5, <2>1, <3>1, <3>2
  <2> QED
    BY <1>4, <2>2, <2>3, NothingAdded
<1> QED
  BY <1>6, <1>7

LEMMA NextBounded == EInv /\ [Next]_vars => EInv'
<1> SUFFICES ASSUME EInv, [Next]_vars PROVE EInv'
  OBVIOUS
<1>1. IInv'
  BY NextKeeps DEF EInv
<1>2. RunsOK /\ RunsOK' /\ Amounts
  BY <1>1 DEF EInv, IInv
<1>3. ASSUME position' = position, \A x \in Symbols : BuyingOf(x)' = BuyingOf(x),
             \A x \in InFlight("buy") : run'[x] = run[x], Amounts'
      PROVE  EInv'
  <2>1. \A x \in Symbols : existingNotional(x)' = existingNotional(x)
    BY <1>3 DEF existingNotional, has
  <2>2. \A x \in Symbols : ordered(x)' = ordered(x)
    <3>1. \A x \in Symbols : \A r \in BuyingOf(x) : run'[r] = run[r]
      BY <1>3 DEF BuyingOf
    <3> QED
      BY <1>3, <3>1, OrderedSame
  <2>3. ExposureBound'
    BY <2>1, <2>2 DEF EInv, ExposureBound
  <2> QED
    BY <1>1, <1>3, <2>3 DEF EInv
<1>4. ASSUME run' = run, position' = position PROVE EInv'
  <2>1. Amounts' /\ \A x \in Symbols : BuyingOf(x)' = BuyingOf(x)
    BY <1>2, <1>4 DEF Amounts, BuyingOf, InFlight
  <2> QED
    BY <1>3, <1>4, <2>1
<1>5. ASSUME NEW s \in Symbols, Look(s) PROVE EInv'
  BY <1>4, <1>5 DEF Look
<1>6. ASSUME NEW r \in Runs, NEW s \in Symbols, Buy(r, s) PROVE EInv'
  <2>1. PICK q \in BuySizes(s) : Submit(r, s, "buy", q, FALSE)
    BY <1>6 DEF Buy
  <2>2. q \in Nat /\ q * Price[s] <= MaxOrder /\ position' = position
    BY <1>6, LimitsAssumption, MaxOrderType DEF BuySizes, Buy
  <2>3. Amounts'
    BY <1>2, <2>1, <2>2, SubmitAmounts
  <2> QED
    BY <1>1, <1>2, <1>6, <2>3, BuyBounded DEF EInv
<1>7. ASSUME NEW r \in Runs, NEW s \in Symbols, Sell(r, s) \/ TrailSell(r, s) PROVE EInv'
  <2>1. PICK t : Submit(r, s, "sell", SellSize(s), t)
    BY <1>7 DEF Sell, TrailSell
  <2>2. position' = position /\ run[r] = Idle /\ holds(s)
    BY <1>7 DEF Sell, TrailSell, riskAllows, books
  <2>3. Amounts'
    BY <1>2, <2>1, <2>2, SellSizeType, SubmitAmounts
  <2>4. run' = [run EXCEPT ![r] = [sym |-> s, side |-> "sell", qty |-> SellSize(s),
                                   trail |-> t, id |-> placed + 1]]
    BY <2>1 DEF Submit
  <2>5. /\ \A x \in Symbols : BuyingOf(x)' = BuyingOf(x)
        /\ \A x \in InFlight("buy") : run'[x] = run[x]
    BY <1>2, <2>2, <2>4 DEF BuyingOf, InFlight, Idle, RunsOK
  <2> QED
    BY <1>3, <2>2, <2>3, <2>5
<1>8. ASSUME NEW r \in Runs, Returned(r) PROVE EInv'
  BY <1>1, <1>8, ReturnedBounded DEF EInv
<1>9. ASSUME NEW r \in Runs, Failed(r) PROVE EInv'
  <2>1. run' = [run EXCEPT ![r] = Idle] /\ position' = position
    BY <1>9 DEF Failed, books
  <2>2. Amounts'
    BY <1>2, <2>1, EndAmounts DEF Amounts
  <2>3. ASSUME NEW x \in Symbols
        PROVE  existingNotional(x)' + ordered(x)' <= existingNotional(x) + ordered(x)
    <3>1. /\ existingNotional(x) \in Nat /\ ordered(x) \in Nat /\ ordered(x)' \in Nat
          /\ existingNotional(x)' = existingNotional(x)
      BY <1>2, <2>1, <2>2, SpendingTyped, SpendingTypedNext DEF Spending, existingNotional, has
    <3>2. ordered(x) = ordered(x)' + (IF r \in BuyingOf(x) THEN run[r].qty * Price[x] ELSE 0)
      BY <1>2, <2>1, OrderedEnds
    <3>3. r \in BuyingOf(x) => run[r].qty * Price[x] \in Nat
      <4> SUFFICES ASSUME r \in BuyingOf(x) PROVE run[r].qty * Price[x] \in Nat
        OBVIOUS
      <4>1. run[r].qty \in Nat
        BY <1>9 DEF Failed, EInv, Amounts
      <4> QED
        BY <4>1, PriceType, ProductType
    <3> DEFINE b == run[r].qty * Price[x]
    <3> HIDE DEF b
    <3>4. (r \in BuyingOf(x) => b \in Nat) /\ ordered(x) = ordered(x)' + (IF r \in BuyingOf(x) THEN b ELSE 0)
      BY <3>2, <3>3 DEF b
    <3> QED
      BY <3>1, <3>4
  <2> QED
    BY <1>1, <1>2, <2>2, <2>3, NothingAdded DEF EInv
<1>10. CASE CooldownEnds \/ ChopGuardEnds \/ StopOutEnds \/ UNCHANGED vars
  BY <1>4, <1>10 DEF CooldownEnds, ChopGuardEnds, StopOutEnds, vars, books
<1> QED
  BY <1>5, <1>6, <1>7, <1>8, <1>9, <1>10 DEF Next

(* maxPositionUsd is exceeded by at most one order of each run in          *)
(* progress, at any prices, even where the least size is above the limit:  *)
(* what a buy is tested against is what has been filled, and its own size  *)
(* is not (riskEngine.ts, orderManager.ts).                                *)
THEOREM LimitsExposure == Spec => []ExposureBound
<1>1. Init => EInv
  <2> SUFFICES ASSUME Init PROVE EInv
    OBVIOUS
  <2>1. IInv /\ RunsOK
    BY InitIInv DEF IInv
  <2>2. Amounts /\ \A s \in Symbols : existingNotional(s) = 0 /\ BuyingOf(s) = {}
    BY DEF Init, Amounts, existingNotional, has, BuyingOf, InFlight, Idle
  <2>3. \A s \in Symbols : ordered(s) = 0
    BY <2>2, TotalOfNone DEF ordered
  <2>4. MaxPosition \in Nat \ {0} /\ Cardinality(Runs) * MaxOrder \in Nat
    BY FS_CardinalityType, LimitsAssumption, MaxOrderType, ProductType
  <2>5. ExposureBound
    BY <2>2, <2>3, <2>4 DEF ExposureBound
  <2> QED
    BY <2>1, <2>2, <2>5 DEF EInv
<1>2. EInv => ExposureBound
  BY DEF EInv
<1> QED
  BY <1>1, <1>2, NextBounded, PTL DEF Spec
===============================================================================
