------------------------------ MODULE OrderProofs -----------------------------
(***************************************************************************)
(* The theorems about one order, before and after it is placed.            *)
(*                                                                         *)
(* ClosedIsFinal for any number of orders and of overlapping runs.  The    *)
(* inductive invariant says of every answer on its way what ClosedIsFinal  *)
(* says of the records: it is a past state of the order, and a closed one  *)
(* is the present state.  Past() is stable because the exchange never      *)
(* changes an order that has ended.                                        *)
(*                                                                         *)
(* AtMostOneOrder and DoneHasOrder for any number of calls, attempts and   *)
(* tries.  Their invariant follows a request from the network to its       *)
(* answer: what is accepted has an order of its call, and a call past its  *)
(* answer has been accepted.                                               *)
(***************************************************************************)
EXTENDS OrderRecords, OrderRetries, TLAPS

Statuses == {"pending", "open", "filled", "canceled", "failed"}

Remote == remote \in [DOMAIN remote -> [status : Statuses, filled : Nat]]

Told(o, order) == order.filled \in Nat /\ Past(o, order)

PlacingOK ==
    \A o \in Orders :
        /\ placing[o].pc = "new" => o \notin DOMAIN remote
        /\ placing[o].pc \in {"polling", "answered"} => o \in DOMAIN remote
        /\ placing[o].pc = "answered" => Told(o, placing[o].order)

Lookup(st) ==
    /\ st.pc = "listing" => st.localOpen \subseteq DOMAIN remote
    /\ st.pc \in {"asking", "latest"} => st.order \in DOMAIN remote /\ st.todo \subseteq DOMAIN remote
    /\ st.pc = "latest" => Told(st.order, st.latest)

Lookups == \A r \in Runs : Lookup(run[r])

Shape ==
    /\ placing = [o \in Orders |-> placing[o]]
    /\ run = [r \in Runs |-> run[r]]
    /\ DOMAIN local \subseteq DOMAIN remote
    /\ DOMAIN remote \subseteq Orders

Recorded == \A o \in DOMAIN local : Told(o, local[o])

IInv == Remote /\ Shape /\ PlacingOK /\ Lookups /\ Recorded

-----------------------------------------------------------------------------
(* What is looked up next is an order that was to be looked up, or one     *)
(* that is recorded.                                                       *)
LEMMA NextLookupOK ==
    ASSUME NEW i, NEW todo \in SUBSET DOMAIN remote, NEW records,
           DOMAIN records \subseteq DOMAIN remote,
           NEW st \in nextLookup(i, todo, records)
    PROVE  Lookup(st)
  <1>1. CASE todo # {}
    <2>1. PICK o \in todo : st = [pc |-> "asking", at |-> i, order |-> o, todo |-> todo \ {o}]
      BY <1>1 DEF nextLookup
    <2>. QED BY <2>1 DEF Lookup
  <1>2. CASE todo = {} /\ i < Len(SymbolSeq)
    <2>1. st = listing(i + 1, records)
      BY <1>2 DEF nextLookup
    <2>2. st.pc = "listing" /\ st.localOpen = getOpenOrders(records, SymbolSeq[i + 1])
      BY <2>1 DEF listing
    <2>. QED BY <2>2 DEF Lookup, getOpenOrders
  <1>3. CASE todo = {} /\ ~(i < Len(SymbolSeq))
    <2>1. st = Idle
      BY <1>3 DEF nextLookup
    <2>. QED BY <2>1 DEF Lookup, Idle
  <1>. QED BY <1>1, <1>2, <1>3

(* The answer of getOrder is a past state of the order (it is the present). *)
LEMMA AnswerIsPast ==
    ASSUME Remote, NEW o \in DOMAIN remote
    PROVE  Told(o, getOrder(o))
  <1>1. remote[o].filled \in Nat
    BY DEF Remote
  <1>. QED BY <1>1 DEF Told, Past, getOrder

(* Once past, always past: the exchange only adds to what is filled, and   *)
(* leaves alone an order that has ended.                                   *)
LEMMA PastIsStable ==
    ASSUME Remote, NEW o \in DOMAIN remote, NEW x \in DOMAIN remote, NEW order,
           NEW status, NEW q \in Nat, Trade(x, status, q), Told(o, order)
    PROVE  Told(o, order)'
  <1>1. remote' = [remote EXCEPT ![x] = [status |-> status, filled |-> q]]
          /\ remote[x].status \in Working /\ q >= remote[x].filled
    BY DEF Trade
  <1>2. CASE o # x
    <2>1. remote'[o] = remote[o]
      BY <1>1, <1>2 DEF Remote
    <2>. QED BY <2>1 DEF Told, Past, getOrder
  <1>3. CASE o = x
    <2>1. remote'[o].filled = q /\ remote[o].filled \in Nat
      BY <1>1, <1>3 DEF Remote
    <2>2. order.filled <= remote'[o].filled
      BY <1>1, <1>3, <2>1 DEF Told, Past
    <2>3. toOrderStatus(remote[o].status) = "open"
      BY <1>1, <1>3 DEF Working, toOrderStatus
    <2>4. getOrder(o).status = "open"
      BY <2>3 DEF getOrder
    <2>5. order.status \notin {"filled", "canceled"}
      BY <2>4 DEF Told, Past
    <2>. QED BY <2>2, <2>5 DEF Told, Past
  <1>. QED BY <1>2, <1>3

-----------------------------------------------------------------------------
LEMMA TradeKeeps ==
    ASSUME IInv, NEW x \in DOMAIN remote, NEW status \in Statuses, NEW q \in Nat,
           Trade(x, status, q)
    PROVE  IInv'
  <1>1. /\ remote' = [remote EXCEPT ![x] = [status |-> status, filled |-> q]]
        /\ local' = local /\ placing' = placing /\ run' = run
    BY DEF Trade
  <1>2. Remote' /\ DOMAIN remote' = DOMAIN remote
    BY <1>1 DEF IInv, Remote
  <1>3. Shape'
    BY <1>1, <1>2 DEF IInv, Shape
  <1>4. PlacingOK'
    BY <1>1, <1>2, PastIsStable DEF IInv, PlacingOK
  <1>5. Lookups'
    <2>. SUFFICES ASSUME NEW r \in Runs PROVE Lookup(run[r])'
      BY DEF Lookups
    <2>1. Lookup(run[r])
      BY DEF IInv, Lookups
    <2>. QED BY <1>1, <1>2, <2>1, PastIsStable DEF IInv, Lookup
  <1>6. Recorded'
    BY <1>1, <1>2, PastIsStable DEF IInv, Recorded, Shape
  <1>. QED BY <1>2, <1>3, <1>4, <1>5, <1>6 DEF IInv

LEMMA ExchangeKeeps ==
    ASSUME IInv, Exchange
    PROVE  IInv'
  <1>. PICK x \in DOMAIN remote : Open(x) \/ PartialFill(x) \/ End(x)
    BY DEF Exchange
  <1>1. remote[x].filled \in Nat /\ remote[x].status \in Statuses /\ Quantity \in Nat
    BY RecordsAssumption DEF IInv, Remote
  <1>2. CASE Open(x)
    BY <1>1, <1>2, TradeKeeps DEF Open, Statuses
  <1>3. CASE PartialFill(x)
    <2>1. PICK q \in 0..Quantity : Trade(x, remote[x].status, q)
      BY <1>3 DEF PartialFill
    <2>. QED BY <1>1, <2>1, TradeKeeps
  <1>4. CASE End(x)
    <2>1. PICK status \in Ends, q \in 0..Quantity : Trade(x, status, q)
      BY <1>4 DEF End
    <2>2. status \in Statuses /\ q \in Nat
      BY <1>1, RecordsAssumption DEF Statuses
    <2>. QED BY <2>1, <2>2, TradeKeeps
  <1>. QED BY <1>2, <1>3, <1>4

(* A new order: the exchange knew nothing of it, so nothing told of it.    *)
LEMMA SubmitKeeps ==
    ASSUME IInv, NEW o \in Orders, Submit(o)
    PROVE  IInv'
  <1>. DEFINE new == [status |-> "pending", filled |-> 0]
  <1>1. /\ placing[o].pc = "new"
        /\ remote' = set(remote, o, new)
        /\ placing' = [placing EXCEPT ![o] = [pc |-> "polling"]]
        /\ local' = local /\ run' = run
    BY DEF Submit
  <1>2. o \notin DOMAIN remote
    BY <1>1 DEF IInv, PlacingOK
  <1>3. DOMAIN remote' = DOMAIN remote \union {o} /\ \A x \in DOMAIN remote : remote'[x] = remote[x]
    BY <1>1, <1>2 DEF set
  <1>4. Remote'
    <2>1. new \in [status : Statuses, filled : Nat]
      BY DEF Statuses
    <2>2. remote'[o] = new
      BY <1>1 DEF set
    <2>3. \A x \in DOMAIN remote' : remote'[x] \in [status : Statuses, filled : Nat]
      BY <1>3, <2>1, <2>2 DEF IInv, Remote
    <2>4. remote' = [x \in DOMAIN remote' |-> remote'[x]]
      BY <1>1 DEF set
    <2>. QED BY <2>3, <2>4 DEF Remote
  <1>5. \A x \in DOMAIN remote : \A order : Told(x, order) => Told(x, order)'
    BY <1>3 DEF Told, Past, getOrder
  <1>6. Shape'
    BY <1>1, <1>3 DEF IInv, Shape
  <1>7. PlacingOK'
    BY <1>1, <1>2, <1>3, <1>5 DEF IInv, PlacingOK, Shape
  <1>8. Lookups'
    BY <1>1, <1>3, <1>5 DEF IInv, Lookups, Lookup
  <1>9. Recorded'
    BY <1>1, <1>3, <1>5 DEF IInv, Recorded, Shape
  <1>. QED BY <1>4, <1>6, <1>7, <1>8, <1>9 DEF IInv

(* The other steps of placeOrder() and of a run leave the exchange alone.  *)
LEMMA PlacingKeeps ==
    ASSUME IInv, NEW o \in Orders, Polled(o) \/ Placed(o) \/ PlaceFails(o)
    PROVE  IInv'
  <1>1. remote' = remote /\ run' = run
    BY DEF Polled, Placed, PlaceFails
  <1>2. Remote' /\ \A x, order : Told(x, order)' <=> Told(x, order)
    BY <1>1 DEF IInv, Remote, Told, Past, getOrder
  <1>3. o \in DOMAIN remote /\ placing[o].pc \in {"polling", "answered"}
    BY DEF Polled, Placed, PlaceFails, IInv, PlacingOK
  <1>4. CASE Polled(o)
    <2>1. placing' = [placing EXCEPT ![o] = [pc |-> "answered", order |-> getOrder(o)]] /\ local' = local
      BY <1>4 DEF Polled
    <2>2. Told(o, getOrder(o))
      BY <1>3, AnswerIsPast DEF IInv
    <2>. QED BY <1>1, <1>2, <1>3, <2>1, <2>2
             DEF IInv, Shape, PlacingOK, Lookups, Lookup, Recorded
  <1>5. CASE Placed(o)
    <2>1. /\ local' = set(local, o, placing[o].order)
          /\ placing' = [placing EXCEPT ![o] = Idle]
          /\ placing[o].pc = "answered"
      BY <1>5 DEF Placed, upsert
    <2>2. Told(o, placing[o].order)
      BY <2>1 DEF IInv, PlacingOK
    <2>3. Recorded' /\ DOMAIN local' = DOMAIN local \union {o}
      BY <1>2, <2>1, <2>2 DEF set, IInv, Recorded
    <2>4. Shape' /\ PlacingOK' /\ Lookups'
      BY <1>1, <1>2, <1>3, <2>1, <2>3 DEF IInv, Shape, PlacingOK, Lookups, Lookup, Idle
    <2>. QED BY <1>2, <2>3, <2>4 DEF IInv
  <1>6. CASE PlaceFails(o)
    <2>1. placing' = [placing EXCEPT ![o] = Idle] /\ local' = local
      BY <1>6 DEF PlaceFails
    <2>. QED BY <1>1, <1>2, <1>3, <2>1
             DEF IInv, Shape, PlacingOK, Lookups, Lookup, Recorded, Idle
  <1>. QED BY <1>4, <1>5, <1>6

(* A step of a run that stores nothing: it is enough that the run's next   *)
(* state is a lookup of known orders.                                      *)
LEMMA MoveKeeps ==
    ASSUME IInv, NEW r \in Runs, NEW st, Lookup(st), run' = [run EXCEPT ![r] = st],
           UNCHANGED <<remote, local, placing>>
    PROVE  IInv'
  <1>1. \A x, order : Told(x, order)' <=> Told(x, order)
    BY DEF Told, Past, getOrder
  <1>2. \A s : Lookup(s)' <=> Lookup(s)
    BY <1>1 DEF Lookup
  <1>3. Lookups'
    BY <1>2 DEF IInv, Lookups, Shape
  <1>4. Remote' /\ Shape' /\ PlacingOK' /\ Recorded'
    BY <1>1 DEF IInv, Remote, Shape, PlacingOK, Recorded
  <1>. QED BY <1>3, <1>4 DEF IInv

LEMMA RunKeeps ==
    ASSUME IInv, NEW r \in Runs,
           Start(r) \/ Listed(r) \/ ListFails(r) \/ Answered(r) \/ Update(r) \/ LookupFails(r)
    PROVE  IInv'
  <1>1. Lookup(run[r]) /\ Lookup(Idle) /\ DOMAIN local \subseteq DOMAIN remote
    BY DEF IInv, Lookups, Lookup, Idle, Shape
  <1>2. CASE Start(r)
    <2>1. run' = [run EXCEPT ![r] = listing(1, local)]
      BY <1>2 DEF Start, Move
    <2>2. Lookup(listing(1, local))
      BY <1>1 DEF Lookup, listing, getOpenOrders
    <2>. QED BY <1>2, <2>1, <2>2, MoveKeeps DEF Start
  <1>3. CASE Listed(r)
    <2>. DEFINE todo == run[r].localOpen \ listOpenOrders(SymbolSeq[run[r].at])
    <2>1. PICK st \in nextLookup(run[r].at, todo, local) : run' = [run EXCEPT ![r] = st]
      BY <1>3 DEF Listed, Move
    <2>2. todo \in SUBSET DOMAIN remote
      BY <1>1, <1>3 DEF Listed, Lookup
    <2>3. Lookup(st)
      BY <1>1, <2>2, NextLookupOK
    <2>. QED BY <1>3, <2>1, <2>3, MoveKeeps DEF Listed
  <1>4. CASE ListFails(r)
    BY <1>1, <1>4, MoveKeeps DEF ListFails, Move
  <1>5. CASE Answered(r)
    <2>. DEFINE st == [pc |-> "latest", at |-> run[r].at, order |-> run[r].order,
                       todo |-> run[r].todo, latest |-> getOrder(run[r].order)]
    <2>1. run' = [run EXCEPT ![r] = st]
      BY <1>5 DEF Answered, Move
    <2>2. run[r].order \in DOMAIN remote /\ run[r].todo \subseteq DOMAIN remote
      BY <1>1, <1>5 DEF Answered, Lookup
    <2>3. Told(run[r].order, getOrder(run[r].order))
      BY <2>2, AnswerIsPast DEF IInv
    <2>4. Lookup(st)
      BY <2>2, <2>3 DEF Lookup
    <2>. QED BY <1>5, <2>1, <2>4, MoveKeeps DEF Answered
  <1>6. CASE Update(r)
    <2>. DEFINE o == run[r].order
                rec == run[r].latest
    <2>1. o \in DOMAIN remote /\ Told(o, rec) /\ run[r].todo \subseteq DOMAIN remote
      BY <1>1, <1>6 DEF Update, Lookup
    <2>2. local' = set(local, o, rec) /\ remote' = remote /\ placing' = placing
      BY <1>6 DEF Update, upsert
    <2>3. DOMAIN local' = DOMAIN local \union {o} /\ DOMAIN local' \subseteq DOMAIN remote
      BY <1>1, <2>1, <2>2 DEF set
    <2>4. \A x, order : Told(x, order)' <=> Told(x, order)
      BY <2>2 DEF Told, Past, getOrder
    <2>5. Recorded'
      BY <2>1, <2>2, <2>3, <2>4 DEF set, IInv, Recorded
    <2>6. PICK st \in nextLookup(run[r].at, run[r].todo, local') : run' = [run EXCEPT ![r] = st]
      BY <1>6 DEF Update, Move
    <2>7. Lookup(st)
      BY <2>1, <2>3, NextLookupOK
    <2>8. \A s : Lookup(s)' <=> Lookup(s)
      BY <2>2, <2>4 DEF Lookup
    <2>9. Lookups'
      BY <2>6, <2>7, <2>8 DEF IInv, Lookups, Shape
    <2>10. Remote' /\ Shape' /\ PlacingOK'
      BY <2>2, <2>3, <2>4, <2>6 DEF IInv, Remote, Shape, PlacingOK
    <2>. QED BY <2>5, <2>9, <2>10 DEF IInv
  <1>7. CASE LookupFails(r)
    <2>1. PICK st \in nextLookup(run[r].at, run[r].todo, local) : run' = [run EXCEPT ![r] = st]
      BY <1>7 DEF LookupFails, Move
    <2>2. run[r].todo \in SUBSET DOMAIN remote
      BY <1>1, <1>7 DEF LookupFails, Lookup
    <2>3. Lookup(st)
      BY <1>1, <2>2, NextLookupOK
    <2>. QED BY <1>7, <2>1, <2>3, MoveKeeps DEF LookupFails
  <1>. QED BY <1>2, <1>3, <1>4, <1>5, <1>6, <1>7

LEMMA RestartKeeps ==
    ASSUME IInv, Restart
    PROVE  IInv'
  <1>1. /\ placing' = [o \in Orders |-> IF placing[o].pc = "new" THEN placing[o] ELSE Idle]
        /\ run' = [r \in Runs |-> Idle]
        /\ remote' = remote /\ local' = local
    BY DEF Restart
  <1>2. \A x, order : Told(x, order)' <=> Told(x, order)
    BY <1>1 DEF Told, Past, getOrder
  <1>3. Remote' /\ Recorded'
    BY <1>1, <1>2 DEF IInv, Remote, Recorded
  <1>4. Shape' /\ Lookups'
    BY <1>1 DEF IInv, Shape, Lookups, Lookup, Idle
  <1>5. PlacingOK'
    BY <1>1, <1>2 DEF IInv, PlacingOK, Idle
  <1>. QED BY <1>3, <1>4, <1>5 DEF IInv

-----------------------------------------------------------------------------
LEMMA InitIInv == Init => IInv
  BY DEF Init, IInv, Remote, Shape, PlacingOK, Lookups, Lookup, Recorded, Idle

LEMMA NextIInv == IInv /\ [Next]_vars => IInv'
  <1>. SUFFICES ASSUME IInv, [Next]_vars PROVE IInv'
    OBVIOUS
  <1>1. CASE Exchange
    BY <1>1, ExchangeKeeps
  <1>2. CASE Placing
    BY <1>2, SubmitKeeps, PlacingKeeps DEF Placing
  <1>3. CASE Reconciling
    BY <1>3, RunKeeps DEF Reconciling
  <1>4. CASE Restart
    BY <1>4, RestartKeeps
  <1>5. CASE UNCHANGED vars
    BY <1>5 DEF vars, IInv, Remote, Shape, PlacingOK, Lookups, Lookup, Recorded, Told, Past, getOrder
  <1>. QED BY <1>1, <1>2, <1>3, <1>4, <1>5 DEF Next

(* A record never runs ahead of the exchange, and a closed one is final,   *)
(* for any number of orders, overlapping runs, lost calls and restarts.    *)
THEOREM RecordsAreFinal == Spec => []ClosedIsFinal
  <1>1. IInv => ClosedIsFinal
    BY DEF IInv, Recorded, Told, ClosedIsFinal
  <1>. QED BY InitIInv, NextIInv, <1>1, PTL DEF Spec

-----------------------------------------------------------------------------
(* OrderRetries: the calls that place the orders, for any number of calls, *)
(* attempts and HTTP tries.                                                *)
Pcs == {"new", "sent", "pause", "backoff", "polling", "done", "failed", "refused"}
CallRecord == [pc : Pcs, attempt : 1..MaxAttempts, try : 1..HttpTries]

(* A call only pauses with a try left, and only backs off with an attempt  *)
(* left: without this the next request would be out of range.              *)
RoomLeft ==
    \A c \in Calls : /\ call[c].pc = "pause" => call[c].try < HttpTries
                     /\ call[c].pc = "backoff" => call[c].attempt < MaxAttempts

TypeInv == TypeOK /\ RoomLeft

HasOrder(c) == \E m \in orders : m[1] = c

(* An answer with an order id stands for an order of the same call.        *)
AnswersOK == \A m \in accepted : HasOrder(m[1])

-----------------------------------------------------------------------------
(* What a call may do to its own record, in terms every step can use.      *)
LEMMA StopRecord ==
    ASSUME TypeInv, NEW c \in Calls, NEW pc \in Pcs, Stop(c, pc)
    PROVE  /\ call' \in [Calls -> CallRecord]
           /\ call'[c] = [call[c] EXCEPT !.pc = pc]
           /\ call'[c].pc = pc
           /\ call'[c].attempt = call[c].attempt
           /\ call'[c].try = call[c].try
           /\ \A d \in Calls \ {c} : call'[d] = call[d]
  <1>1. call \in [Calls -> CallRecord]
    BY DEF TypeInv, TypeOK, CallRecord, Pcs
  <1>2. call' = [call EXCEPT ![c] = [call[c] EXCEPT !.pc = pc]]
    BY DEF Stop
  <1>3. [call[c] EXCEPT !.pc = pc] \in CallRecord
    BY <1>1 DEF CallRecord
  <1>4. /\ [call[c] EXCEPT !.pc = pc].pc = pc
        /\ [call[c] EXCEPT !.pc = pc].attempt = call[c].attempt
        /\ [call[c] EXCEPT !.pc = pc].try = call[c].try
    BY <1>1 DEF CallRecord
  <1> QED
    BY <1>1, <1>2, <1>3, <1>4

LEMMA SendRecord ==
    ASSUME TypeInv, NEW c \in Calls, NEW a \in 1..MaxAttempts, NEW t \in 1..HttpTries,
           Send(c, a, t)
    PROVE  /\ call' \in [Calls -> CallRecord]
           /\ call'[c].pc = "sent"
           /\ \A d \in Calls \ {c} : call'[d] = call[d]
           /\ transit' \subseteq Request
           /\ UNCHANGED <<accepted, rejected, orders>>
  <1>1. call \in [Calls -> CallRecord] /\ transit \subseteq Request
    BY DEF TypeInv, TypeOK, CallRecord, Pcs
  <1>2. [pc |-> "sent", attempt |-> a, try |-> t] \in CallRecord
    BY DEF CallRecord, Pcs
  <1>3. <<c, a, t>> \in Request
    BY DEF Request
  <1> QED
    BY <1>1, <1>2, <1>3 DEF Send

(* A step of one call, summed up: which room it leaves, and that it polls  *)
(* only after an answer.                                                   *)
LEMMA StepOfCall ==
    ASSUME TypeInv, NEW c \in Calls, Place(c) \/ CallStep(c)
    PROVE  /\ call' \in [Calls -> CallRecord]
           /\ breaker' \in [failures : Nat, age : Nat]
           /\ transit' \subseteq Request
           /\ UNCHANGED <<accepted, rejected, orders>>
           /\ halted' \in BOOLEAN
           /\ \A d \in Calls \ {c} : call'[d] = call[d]
           /\ call'[c].pc = "pause" => call'[c].try < HttpTries
           /\ call'[c].pc = "backoff" => call'[c].attempt < MaxAttempts
           /\ call'[c].pc \in {"polling", "done"} =>
                 current(c) \in accepted \/ call[c].pc = "polling"
  <1>0. /\ call[c] \in CallRecord
        /\ breaker \in [failures : Nat, age : Nat]
        /\ transit \subseteq Request
        /\ halted \in BOOLEAN
        /\ call[c].pc = "pause" => call[c].try < HttpTries
        /\ call[c].pc = "backoff" => call[c].attempt < MaxAttempts
    BY DEF TypeInv, TypeOK, RoomLeft, CallRecord, Pcs
  <1>1. Reset \in [failures : Nat, age : Nat]
    BY DEF Reset
  <1>2. breaker.failures + 1 \in Nat
    BY <1>0
  <1>3. [failures |-> breaker.failures + 1, age |-> 0] \in [failures : Nat, age : Nat]
    BY <1>2
  <1>4. MaxAttempts \in Nat \ {0} /\ HttpTries \in Nat \ {0}
    BY RetriesAssumption
  <1>5. /\ call[c].attempt \in 1..MaxAttempts
        /\ call[c].try \in 1..HttpTries
    BY <1>0 DEF CallRecord
  <1>6. ASSUME NEW retryable \in BOOLEAN, AttemptFails(c, retryable)
        PROVE  /\ call' \in [Calls -> CallRecord]
               /\ breaker' \in [failures : Nat, age : Nat]
               /\ UNCHANGED <<net, halted>>
               /\ \A d \in Calls \ {c} : call'[d] = call[d]
               /\ call'[c].pc \in {"backoff", "failed"}
               /\ call'[c].pc = "backoff" => call'[c].attempt < MaxAttempts
    <2> DEFINE pc == IF retryable /\ MoreAttempts(c) THEN "backoff" ELSE "failed"
    <2>1. pc \in Pcs /\ pc \in {"backoff", "failed"} /\ Stop(c, pc)
      BY <1>6 DEF AttemptFails, Pcs
    <2>2. pc = "backoff" => call[c].attempt < MaxAttempts
      BY DEF MoreAttempts
    <2> HIDE DEF pc
    <2>3. breaker' \in [failures : Nat, age : Nat] /\ UNCHANGED <<net, halted>>
      BY <1>6, <1>3 DEF AttemptFails, recordFailure
    <2> QED
      BY <2>1, <2>2, <2>3, StopRecord
  <1>7. CASE Place(c)
    <2>1. breaker' \in [failures : Nat, age : Nat]
      BY <1>7, <1>0, <1>1 DEF Place, askBreaker
    <2>2. CASE Stop(c, "refused") /\ UNCHANGED net
      BY <1>7, <1>0, <2>1, <2>2, StopRecord DEF Place, net, Pcs
    <2>3. CASE Send(c, 1, 1)
      <3>1. 1 \in 1..MaxAttempts /\ 1 \in 1..HttpTries
        BY <1>4
      <3> QED
        BY <1>7, <1>0, <2>1, <2>3, <3>1, SendRecord DEF Place
    <2> QED
      BY <1>7, <2>2, <2>3 DEF Place
  <1>8. CASE TryFails(c)
    <2>1. CASE call[c].try < HttpTries /\ Stop(c, "pause") /\ UNCHANGED <<breaker, net, halted>>
      BY <1>0, <2>1, StopRecord DEF net, Pcs
    <2>2. CASE \E retryable \in BOOLEAN : AttemptFails(c, retryable)
      BY <1>0, <1>6, <2>2 DEF net
    <2> QED
      BY <1>8, <2>1, <2>2 DEF TryFails
  <1>9. CASE GotAnswer(c)
    <2>1. CASE Succeeds(c) /\ Stop(c, "polling") /\ UNCHANGED <<breaker, net, halted>>
      BY <1>0, <2>1, StopRecord DEF net, Pcs, Succeeds
    <2>2. CASE \E retryable \in BOOLEAN : AttemptFails(c, retryable)
      BY <1>0, <1>6, <2>2 DEF net
    <2> QED
      BY <1>9, <2>1, <2>2 DEF GotAnswer
  <1>10. CASE GotOrder(c)
    <2>1. CASE Stop(c, "done") /\ recordSuccess /\ UNCHANGED <<net, halted>>
      BY <1>0, <1>1, <1>10, <2>1, StopRecord DEF net, Pcs, GotOrder, At, recordSuccess
    <2>2. CASE \E retryable \in BOOLEAN : AttemptFails(c, retryable)
      BY <1>0, <1>6, <2>2 DEF net
    <2> QED
      BY <1>10, <2>1, <2>2 DEF GotOrder
  <1>11. CASE Resend(c)
    <2>1. CASE At(c, "pause") /\ Send(c, call[c].attempt, call[c].try + 1)
      <3>1. call[c].try + 1 \in 1..HttpTries
        BY <1>0, <1>4, <1>5, <2>1 DEF At
      <3> QED
        BY <1>0, <1>5, <1>11, <2>1, <3>1, SendRecord DEF Resend
    <2>2. CASE At(c, "backoff") /\ Send(c, NextAttempt(c), 1)
      <3>1. NextAttempt(c) \in 1..MaxAttempts /\ 1 \in 1..HttpTries
        BY <1>0, <1>4, <1>5, <2>2 DEF At, NextAttempt
      <3> QED
        BY <1>0, <1>11, <2>2, <3>1, SendRecord DEF Resend
    <2> QED
      BY <1>11, <2>1, <2>2 DEF Resend
  <1> QED
    BY <1>7, <1>8, <1>9, <1>10, <1>11 DEF CallStep

LEMMA TypeInvInductive == CallsSpec => []TypeInv
<1>1. CallsInit => TypeInv
  <2> SUFFICES ASSUME CallsInit PROVE TypeInv
    OBVIOUS
  <2>1. 1 \in 1..MaxAttempts /\ 1 \in 1..HttpTries
    BY RetriesAssumption
  <2>2. breaker \in [failures : Nat, age : Nat]
    BY DEF CallsInit
  <2> QED
    BY <2>1, <2>2 DEF CallsInit, TypeInv, TypeOK, RoomLeft
<1>2. TypeInv /\ [CallsNext]_callVars => TypeInv'
  <2> SUFFICES ASSUME TypeInv, [CallsNext]_callVars PROVE TypeInv'
    OBVIOUS
  <2>1. ASSUME NEW c \in Calls, Place(c) \/ CallStep(c) PROVE TypeInv'
    <3>1. TypeOK'
      BY <2>1, StepOfCall DEF TypeInv, TypeOK, CallRecord, Pcs
    <3>2. RoomLeft'
      BY <2>1, StepOfCall DEF TypeInv, RoomLeft
    <3> QED
      BY <3>1, <3>2 DEF TypeInv
  <2>2. ASSUME NEW m \in transit, Deliver(m) PROVE TypeInv'
    BY <2>2 DEF Deliver, TypeInv, TypeOK, RoomLeft
  <2>3. ASSUME NEW m \in transit, Lose(m) PROVE TypeInv'
    BY <2>3 DEF Lose, TypeInv, TypeOK, RoomLeft
  <2>4. CASE Tick
    <3>1. breaker.age + 1 \in Nat
      BY DEF TypeInv, TypeOK
    <3>2. breaker' \in [failures : Nat, age : Nat]
      BY <2>4, <3>1 DEF Tick, TypeInv, TypeOK
    <3> QED
      BY <2>4, <3>2 DEF Tick, net, TypeInv, TypeOK, RoomLeft
  <2>5. CASE Operator
    BY <2>5 DEF Operator, net, TypeInv, TypeOK, RoomLeft
  <2>6. CASE UNCHANGED callVars
    BY <2>6 DEF callVars, net, TypeInv, TypeOK, RoomLeft
  <2> QED
    BY <2>1, <2>2, <2>3, <2>4, <2>5, <2>6 DEF CallsNext
<1> QED
  BY <1>1, <1>2, PTL DEF CallsSpec

-----------------------------------------------------------------------------
(* Type correctness: no call exceeds maxAttempts attempts of HttpTries     *)
(* requests each (retryExecutor.ts:41, retry.ts:9).                        *)
THEOREM RetriesTypeOK == CallsSpec => []TypeOK
<1>1. TypeInv => TypeOK
  BY DEF TypeInv
<1> QED
  BY <1>1, TypeInvInductive, PTL

(* Only an answer from the exchange adds an order.                         *)
LEMMA OnlyDeliverOrders ==
    ASSUME CallsNext, ~ \E m \in transit : Deliver(m)
    PROVE  UNCHANGED <<orders, accepted>>
  BY DEF CallsNext, Place, CallStep, TryFails, GotAnswer, AttemptFails, GotOrder, Resend, Send,
         Lose, Tick, Operator, net

-----------------------------------------------------------------------------
(* One call, one order: retries reuse the client order id, so the exchange *)
(* recognises a repeated request whenever and in whatever order it arrives *)
(* (retryExecutor.ts:19).                                                  *)
THEOREM RetriesAreIdempotent ==
    ASSUME Dedup
    PROVE  CallsSpec => []AtMostOneOrder
<1>1. CallsInit => AtMostOneOrder
  BY DEF CallsInit, AtMostOneOrder
<1>2. AtMostOneOrder /\ [CallsNext]_callVars => AtMostOneOrder'
  <2> SUFFICES ASSUME AtMostOneOrder, [CallsNext]_callVars
               PROVE  AtMostOneOrder'
    OBVIOUS
  <2>1. ASSUME NEW m \in transit, Deliver(m)
        PROVE  AtMostOneOrder'
    <3>1. CASE orders' = orders
      BY <3>1 DEF AtMostOneOrder
    <3>2. CASE ~Known(m) /\ orders' = orders \union {m}
      <4>1. \A o \in orders : o[1] # m[1]
        BY <3>2 DEF Known, clientOrderId
      <4> QED
        BY <3>2, <4>1 DEF AtMostOneOrder
    <3> QED
      BY <2>1, <3>1, <3>2, Dedup DEF Deliver
  <2>2. CASE CallsNext /\ ~ \E m \in transit : Deliver(m)
    BY <2>2, OnlyDeliverOrders DEF AtMostOneOrder
  <2>3. CASE UNCHANGED callVars
    BY <2>3 DEF callVars, net, AtMostOneOrder
  <2> QED
    BY <2>1, <2>2, <2>3
<1> QED
  BY <1>1, <1>2, PTL DEF CallsSpec

(* An order the executor returns exists, also when the answer belonged to  *)
(* an attempt other than the one that created it (retryExecutor.ts:43).    *)
THEOREM DoneIsReal == CallsSpec => []DoneHasOrder
<1> DEFINE Inv == AnswersOK /\ DoneHasOrder
<1>1. CallsInit => Inv
  BY DEF CallsInit, AnswersOK, DoneHasOrder
<1>2. TypeInv /\ Inv /\ [CallsNext]_callVars => Inv'
  <2> SUFFICES ASSUME TypeInv, AnswersOK, DoneHasOrder, [CallsNext]_callVars
               PROVE  Inv'
    OBVIOUS
  <2>1. ASSUME NEW c \in Calls, Place(c) \/ CallStep(c) PROVE Inv'
    <3>1. /\ UNCHANGED <<accepted, orders>>
          /\ \A d \in Calls \ {c} : call'[d] = call[d]
          /\ call'[c].pc \in {"polling", "done"} =>
                current(c) \in accepted \/ call[c].pc = "polling"
      BY <2>1, StepOfCall
    <3>2. current(c)[1] = c
      BY DEF current
    <3>3. current(c) \in accepted => HasOrder(c)
      BY <3>2 DEF AnswersOK
    <3>4. call'[c].pc \in {"polling", "done"} => HasOrder(c)
      BY <3>1, <3>3 DEF DoneHasOrder, HasOrder
    <3>5. AnswersOK'
      BY <3>1 DEF AnswersOK, HasOrder
    <3>6. DoneHasOrder'
      BY <3>1, <3>4 DEF DoneHasOrder, HasOrder
    <3> QED
      BY <3>5, <3>6
  <2>2. ASSUME NEW m \in transit, Deliver(m) PROVE Inv'
    <3>1. CASE accepted' = accepted /\ orders' = orders /\ UNCHANGED call
      BY <3>1 DEF AnswersOK, DoneHasOrder, HasOrder
    <3>2. CASE /\ accepted' = accepted \union {m} /\ UNCHANGED call
               /\ orders' = IF Dedup /\ Known(m) THEN orders ELSE orders \union {m}
      <4>1. HasOrder(m[1])'
        BY <3>2 DEF HasOrder, Known, clientOrderId
      <4>2. orders \subseteq orders'
        BY <3>2
      <4> QED
        BY <3>2, <4>1, <4>2 DEF AnswersOK, DoneHasOrder, HasOrder
    <3> QED
      BY <2>2, <3>1, <3>2 DEF Deliver
  <2>3. CASE UNCHANGED <<call, accepted, orders>>
    BY <2>3 DEF AnswersOK, DoneHasOrder, HasOrder
  <2>4. CASE CallsNext
    BY <2>1, <2>2, <2>3, <2>4 DEF CallsNext, Lose, Tick, Operator, net
  <2> QED
    BY <2>3, <2>4 DEF callVars, net
<1>3. Inv => DoneHasOrder
  OBVIOUS
<1> QED
  BY <1>1, <1>2, <1>3, TypeInvInductive, PTL DEF CallsSpec

-----------------------------------------------------------------------------
(* OrderRetries implements OrderPlacing.  Besides DoneHasOrder it needs    *)
(* that only a call that has begun has requests on their way: an order is  *)
(* created for a call that waits or that has failed.                       *)
RequestsSent == \A m \in transit : m[1] \in Calls /\ told(m[1]) \notin {"new", "refused"}

(* What a step of a call shows of it.                                      *)
Shows(c) ==
    \/ told(c) = "new" /\ ~halted /\ told(c)' \in {"waiting", "refused"}
    \/ told(c) = "waiting" /\ told(c)' \in {"waiting", "failed"}
    \/ call[c].pc = "polling" /\ told(c)' = "done"

LEMMA Stopped ==
    ASSUME TypeInv, NEW c \in Calls, NEW pc \in Pcs, Stop(c, pc)
    PROVE  /\ pc \in {"new", "done", "failed", "refused"} => told(c)' = pc
           /\ pc \notin {"new", "done", "failed", "refused"} => told(c)' = "waiting"
  <1>1. call'[c].pc = pc
    BY StopRecord
  <1> QED
    BY <1>1 DEF told

LEMMA Requested ==
    ASSUME TypeInv, NEW c \in Calls, NEW a \in 1..MaxAttempts, NEW t \in 1..HttpTries, Send(c, a, t)
    PROVE  told(c)' = "waiting" /\ transit' = transit \union {<<c, a, t>>}
  <1>1. call'[c].pc = "sent"
    BY SendRecord
  <1> QED
    BY <1>1 DEF told, Send

LEMMA CallShows ==
    ASSUME TypeInv, NEW c \in Calls, Place(c) \/ CallStep(c)
    PROVE  /\ Shows(c)
           /\ halted' = halted
           /\ \A m \in transit' \ transit : m[1] = c /\ told(c)' = "waiting"
  <1> DEFINE Quiet == \A m \in transit' \ transit : m[1] = c /\ told(c)' = "waiting"
  <1>1. /\ MaxAttempts \in Nat \ {0} /\ HttpTries \in Nat \ {0}
        /\ call[c].attempt \in 1..MaxAttempts /\ call[c].try \in 1..HttpTries
        /\ call[c].pc = "pause" => call[c].try < HttpTries
        /\ call[c].pc = "backoff" => call[c].attempt < MaxAttempts
    BY RetriesAssumption DEF TypeInv, TypeOK, RoomLeft
  <1>2. call[c].pc \in {"sent", "pause", "backoff", "polling"} => told(c) = "waiting"
    BY DEF told
  <1>3. ASSUME NEW retryable \in BOOLEAN, AttemptFails(c, retryable)
        PROVE  told(c)' \in {"waiting", "failed"} /\ halted' = halted /\ transit' = transit
    <2> DEFINE pc == IF retryable /\ MoreAttempts(c) THEN "backoff" ELSE "failed"
    <2>1. pc \in Pcs /\ pc \in {"backoff", "failed"} /\ Stop(c, pc)
      BY <1>3 DEF AttemptFails, Pcs
    <2> HIDE DEF pc
    <2>2. told(c)' \in {"waiting", "failed"}
      BY <2>1, Stopped
    <2> QED
      BY <1>3, <2>2 DEF AttemptFails, net
  <1>4. ASSUME NEW a \in 1..MaxAttempts, NEW t \in 1..HttpTries, Send(c, a, t)
        PROVE  told(c)' = "waiting" /\ Quiet
    <2>1. <<c, a, t>>[1] = c
      OBVIOUS
    <2> QED
      BY <1>4, <2>1, Requested
  <1>5. CASE Place(c)
    <2>1. told(c) = "new" /\ ~halted /\ halted' = halted
      BY <1>5 DEF Place, At, told
    <2>2. CASE Stop(c, "refused") /\ UNCHANGED net
      <3>1. told(c)' = "refused"
        BY <2>2, Stopped DEF Pcs
      <3> QED
        BY <2>1, <2>2, <3>1 DEF Shows, net
    <2>3. CASE Send(c, 1, 1)
      <3>1. 1 \in 1..MaxAttempts /\ 1 \in 1..HttpTries
        BY <1>1
      <3> QED
        BY <2>1, <2>3, <3>1, <1>4 DEF Shows
    <2> QED
      BY <1>5, <2>2, <2>3 DEF Place
  <1>6. CASE TryFails(c)
    <2>1. told(c) = "waiting"
      BY <1>2, <1>6 DEF TryFails, At
    <2>2. CASE Stop(c, "pause") /\ UNCHANGED <<breaker, net, halted>>
      <3>1. told(c)' = "waiting"
        BY <2>2, Stopped DEF Pcs
      <3> QED
        BY <2>1, <2>2, <3>1 DEF Shows, net
    <2>3. CASE \E retryable \in BOOLEAN : AttemptFails(c, retryable)
      BY <2>1, <2>3, <1>3 DEF Shows
    <2> QED
      BY <1>6, <2>2, <2>3 DEF TryFails
  <1>7. CASE GotAnswer(c)
    <2>1. told(c) = "waiting"
      BY <1>2, <1>7 DEF GotAnswer, At
    <2>2. CASE Stop(c, "polling") /\ UNCHANGED <<breaker, net, halted>>
      <3>1. told(c)' = "waiting"
        BY <2>2, Stopped DEF Pcs
      <3> QED
        BY <2>1, <2>2, <3>1 DEF Shows, net
    <2>3. CASE \E retryable \in BOOLEAN : AttemptFails(c, retryable)
      BY <2>1, <2>3, <1>3 DEF Shows
    <2> QED
      BY <1>7, <2>2, <2>3 DEF GotAnswer
  <1>8. CASE GotOrder(c)
    <2>1. told(c) = "waiting" /\ call[c].pc = "polling"
      BY <1>2, <1>8 DEF GotOrder, At
    <2>2. CASE Stop(c, "done") /\ UNCHANGED <<net, halted>>
      <3>1. told(c)' = "done"
        BY <2>2, Stopped DEF Pcs
      <3> QED
        BY <2>1, <2>2, <3>1 DEF Shows, net
    <2>3. CASE \E retryable \in BOOLEAN : AttemptFails(c, retryable)
      BY <2>1, <2>3, <1>3 DEF Shows
    <2> QED
      BY <1>8, <2>2, <2>3 DEF GotOrder
  <1>9. CASE Resend(c)
    <2>1. told(c) = "waiting" /\ halted' = halted
      BY <1>2, <1>9 DEF Resend, At
    <2>2. CASE At(c, "pause") /\ Send(c, call[c].attempt, call[c].try + 1)
      <3>1. call[c].try + 1 \in 1..HttpTries
        BY <1>1, <2>2 DEF At
      <3> QED
        BY <1>1, <2>1, <2>2, <3>1, <1>4 DEF Shows
    <2>3. CASE At(c, "backoff") /\ Send(c, NextAttempt(c), 1)
      <3>1. NextAttempt(c) \in 1..MaxAttempts /\ 1 \in 1..HttpTries
        BY <1>1, <2>3 DEF At, NextAttempt
      <3> QED
        BY <2>1, <2>3, <3>1, <1>4 DEF Shows
    <2> QED
      BY <1>9, <2>2, <2>3 DEF Resend
  <1> QED
    BY <1>5, <1>6, <1>7, <1>8, <1>9 DEF CallStep

LEMMA RequestsAreSent == CallsSpec => []RequestsSent
<1>1. CallsInit => RequestsSent
  BY DEF CallsInit, RequestsSent
<1>2. TypeInv /\ RequestsSent /\ [CallsNext]_callVars => RequestsSent'
  <2> SUFFICES ASSUME TypeInv, RequestsSent, [CallsNext]_callVars PROVE RequestsSent'
    OBVIOUS
  <2>1. ASSUME NEW c \in Calls, Place(c) \/ CallStep(c) PROVE RequestsSent'
    <3>1. /\ Shows(c)
          /\ \A m \in transit' \ transit : m[1] = c /\ told(c)' = "waiting"
      BY <2>1, CallShows
    <3>2. \A d \in Calls \ {c} : told(d)' = told(d)
      BY <2>1, StepOfCall DEF told
    <3>3. told(c) \notin {"new", "refused"} => told(c)' \notin {"new", "refused"}
      BY <3>1 DEF Shows, told
    <3> SUFFICES ASSUME NEW m \in transit'
                 PROVE  m[1] \in Calls /\ told(m[1])' \notin {"new", "refused"}
      BY DEF RequestsSent
    <3>4. CASE m \in transit
      BY <3>2, <3>3, <3>4 DEF RequestsSent
    <3>5. CASE m \notin transit
      BY <3>1, <3>5
    <3> QED
      BY <3>4, <3>5
  <2>2. CASE transit' \subseteq transit /\ call' = call
    BY <2>2 DEF RequestsSent, told
  <2>3. CASE CallsNext
    <3>1. CASE \E c \in Calls : Place(c) \/ CallStep(c)
      BY <2>1, <3>1
    <3>2. CASE \E m \in transit : Deliver(m) \/ Lose(m)
      BY <2>2, <3>2 DEF Deliver, Lose
    <3>3. CASE Tick \/ Operator
      BY <2>2, <3>3 DEF Tick, Operator, net
    <3> QED
      BY <2>3, <3>1, <3>2, <3>3 DEF CallsNext
  <2>4. CASE UNCHANGED callVars
    BY <2>2, <2>4 DEF callVars, net
  <2> QED
    BY <2>3, <2>4
<1> QED
  BY <1>1, <1>2, TypeInvInductive, PTL DEF CallsSpec

(* A step of a call is one of its promises, or shows nothing.              *)
LEMMA CallKeepsPromise ==
    ASSUME TypeInv, DoneHasOrder, NEW c \in Calls, Place(c) \/ CallStep(c)
    PROVE  [Promised!Next]_Promised!vars
<1> DEFINE outcomes == [d \in Calls |-> told(d)]
           orderOf == [d \in Calls |-> {m \in orders : m[1] = d}]
<1>1. Shows(c) /\ halted' = halted
  BY CallShows
<1>2. orderOf' = orderOf
  BY StepOfCall
<1>3. \A d \in Calls \ {c} : told(d)' = told(d)
  BY StepOfCall DEF told
<1>4. outcomes' = [outcomes EXCEPT ![c] = told(c)']
  BY <1>3
<1>5. outcomes[c] = told(c)
  OBVIOUS
<1>6. CASE told(c) = "new" /\ ~halted /\ told(c)' \in {"waiting", "refused"}
  <2>1. Promised!Begin(c)
    BY <1>1, <1>2, <1>4, <1>5, <1>6 DEF Promised!Begin, Promised!becomes
  <2> QED
    BY <2>1 DEF Promised!Next
<1>7. CASE told(c) = "waiting" /\ told(c)' = "waiting"
  <2>1. outcomes' = outcomes
    BY <1>4, <1>5, <1>7
  <2> QED
    BY <1>1, <1>2, <2>1 DEF Promised!vars
<1>8. CASE told(c) = "waiting" /\ told(c)' = "failed"
  <2>1. Promised!Throw(c)
    BY <1>1, <1>2, <1>4, <1>5, <1>8 DEF Promised!Throw, Promised!becomes
  <2> QED
    BY <2>1 DEF Promised!Next
<1>9. CASE call[c].pc = "polling" /\ told(c)' = "done"
  <2>1. told(c) = "waiting"
    BY <1>9 DEF told
  <2>2. orderOf[c] # {}
    BY <1>9 DEF DoneHasOrder
  <2>3. Promised!Return(c)
    BY <1>1, <1>2, <1>4, <1>5, <1>9, <2>1, <2>2 DEF Promised!Return, Promised!becomes
  <2> QED
    BY <2>3 DEF Promised!Next
<1> QED
  BY <1>1, <1>6, <1>7, <1>8, <1>9 DEF Shows

(* A request that arrives creates the one order of its call, or none.      *)
LEMMA DeliveryKeepsPromise ==
    ASSUME Dedup, TypeInv, DoneHasOrder, RequestsSent, NEW m \in transit, Deliver(m)
    PROVE  [Promised!Next]_Promised!vars
<1> DEFINE c == m[1]
           outcomes == [d \in Calls |-> told(d)]
           orderOf == [d \in Calls |-> {o \in orders : o[1] = d}]
<1>1. outcomes' = outcomes /\ halted' = halted
  BY DEF Deliver, told
<1>2. m \in Request /\ c \in Calls
  BY DEF TypeInv, TypeOK, RequestsSent
<1>3. CASE orders' = orders
  BY <1>1, <1>3 DEF Promised!vars
<1>4. CASE ~Known(m) /\ orders' = orders \union {m}
  <2>1. \A o \in orders : o[1] # c
    BY <1>4 DEF Known, clientOrderId
  <2>2. orderOf[c] = {}
    BY <1>2, <2>1
  <2>3. told(c) \in {"waiting", "failed"}
    BY <1>2, <2>1 DEF RequestsSent, DoneHasOrder, told
  <2>4. orderOf' = [orderOf EXCEPT ![c] = {m}]
    <3>1. \A d \in Calls \ {c} : {o \in orders' : o[1] = d} = {o \in orders : o[1] = d}
      BY <1>4
    <3>2. {o \in orders' : o[1] = c} = {m}
      BY <1>4, <2>1
    <3> QED
      BY <1>2, <3>1, <3>2
  <2>5. Promised!Create(c, m)
    BY <1>1, <1>2, <2>2, <2>3, <2>4 DEF Promised!Create
  <2> QED
    BY <1>2, <2>5 DEF Promised!Next
<1> QED
  BY <1>3, <1>4, Dedup DEF Deliver

(* However requests are lost, repeated and late, what callers and the      *)
(* exchange see of the calls is OrderPlacing, if the exchange knows client *)
(* order ids again (retryExecutor.ts:19, orderManager.ts:178).             *)
THEOREM RetriesImplementPlacing ==
    ASSUME Dedup
    PROVE  CallsSpec => ImplementsPlacing
<1>1. CallsInit => Promised!Init
  BY DEF CallsInit, Promised!Init, told
<1>2. TypeInv /\ DoneHasOrder /\ RequestsSent /\ [CallsNext]_callVars => [Promised!Next]_Promised!vars
  <2> SUFFICES ASSUME TypeInv, DoneHasOrder, RequestsSent, [CallsNext]_callVars
               PROVE  [Promised!Next]_Promised!vars
    OBVIOUS
  <2>1. CASE \E c \in Calls : Place(c) \/ CallStep(c)
    BY <2>1, CallKeepsPromise
  <2>2. CASE \E m \in transit : Deliver(m)
    BY <2>2, DeliveryKeepsPromise
  <2>3. CASE UNCHANGED <<call, orders, halted>>
    BY <2>3 DEF Promised!vars, told
  <2>4. CASE Operator
    <3>1. UNCHANGED <<call, orders>> /\ halted' = ~halted
      BY <2>4 DEF Operator, net
    <3>2. Promised!Operator
      BY <3>1 DEF Promised!Operator, told
    <3> QED
      BY <3>2 DEF Promised!Next
  <2>5. CASE UNCHANGED callVars
    BY <2>3, <2>5 DEF callVars, net
  <2>6. CASE CallsNext
    BY <2>1, <2>2, <2>3, <2>4, <2>6 DEF CallsNext, Lose, Tick, net
  <2> QED
    BY <2>5, <2>6
<1> QED
  BY <1>1, <1>2, TypeInvInductive, DoneIsReal, RequestsAreSent, PTL DEF CallsSpec, ImplementsPlacing, Promised!Spec
=============================================================================
