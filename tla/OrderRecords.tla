----------------------------- MODULE OrderRecords -----------------------------
(***************************************************************************)
(* The local records of orders (OrderState) against the exchange's: an     *)
(* order is recorded when OrderManager.placeOrder() has polled it, and     *)
(* Reconciler.run() looks up what is open here and not open there.         *)
(*                                                                         *)
(* Answers travel: what a call returns is the exchange's state at some     *)
(* moment between request and answer.  upsert() changes memory and store   *)
(* in one step, so that a restart (hydrateFromStore) finds the records as  *)
(* they were and loses the calls in progress.                              *)
(***************************************************************************)
EXTENDS Naturals, Sequences

CONSTANTS
    Orders,         \* orders that may be placed
    symbolOf,       \* their symbols
    SymbolSeq,      \* config.symbols
    Runs,           \* slots for runs of the reconciler in progress
    Quantity,       \* of every order, in lots
    Ends,           \* statuses in which the exchange ends an order
    MaxRestarts     \* bound: restarts in a behaviour

ASSUME RecordsAssumption ==
    /\ SymbolSeq \in Seq(STRING) /\ SymbolSeq # << >>
    /\ symbolOf \in [Orders -> {SymbolSeq[i] : i \in 1..Len(SymbolSeq)}]
    /\ Quantity \in Nat
    /\ Ends \subseteq {"filled", "canceled", "failed"}
    /\ MaxRestarts \in Nat

VARIABLES
    remote,         \* the exchange's orders: status and filled quantity
    local,          \* OrderState.byOrderId, and the orders table
    placing,        \* placeOrder(): where the call is, and the order it was told
    run,            \* [Runs -> where the run of the reconciler is]
    restarts

vars == <<remote, local, placing, run, restarts>>

(* The statuses the adapter tells apart; any other text is 'pending'.      *)
(* (A cancellation that is only queued reads as canceled too: but nothing  *)
(* in the program asks for one, see `remote'.)                             *)
toOrderStatus(s) ==
    CASE s \in {"filled", "canceled"} -> s
      [] s \in {"pending", "open"} -> "open"
      [] OTHER -> "pending"

getOrder(o) == [status |-> toOrderStatus(remote[o].status), filled |-> remote[o].filled]

listOpenOrders(s) == {o \in DOMAIN remote : symbolOf[o] = s /\ remote[o].status = "open"}

set(f, o, r) == [x \in DOMAIN f \union {o} |-> IF x = o THEN r ELSE f[x]]

upsert(o, order) == local' = set(local, o, order)

isOpen_PendingOnly(order) == order.status = "pending"       \* mutant
isOpen(order) == order.status \in {"pending", "open"}

getOpenOrders(records, s) == {o \in DOMAIN records : symbolOf[o] = s /\ isOpen(records[o])}

-----------------------------------------------------------------------------
(* The exchange.  A new order is pending before it is open.                *)
Working == {"pending", "open"}
Settled(o) == remote[o].status \notin Working

Trade(o, status, filled) ==
    /\ remote[o].status \in Working
    /\ filled >= remote[o].filled
    /\ remote' = [remote EXCEPT ![o] = [status |-> status, filled |-> filled]]
    /\ UNCHANGED <<local, placing, run, restarts>>

Open(o) == remote[o].status = "pending" /\ Trade(o, "open", remote[o].filled)
PartialFill(o) == \E q \in 0..Quantity : q > remote[o].filled /\ Trade(o, remote[o].status, q)
End(o) == \E status \in Ends, q \in 0..Quantity :
            (status = "filled" => q = Quantity) /\ Trade(o, status, q)

-----------------------------------------------------------------------------
(* placeOrder() polls until the order is closed, or gives up and returns   *)
(* it as it last was.  An error on the way leaves no record.               *)
Idle == [pc |-> "idle"]

Submit(o) ==
    /\ placing[o] = [pc |-> "new"]
    /\ remote' = set(remote, o, [status |-> "pending", filled |-> 0])
    /\ placing' = [placing EXCEPT ![o] = [pc |-> "polling"]]
    /\ UNCHANGED <<local, run, restarts>>

Polled(o) ==
    /\ placing[o] = [pc |-> "polling"]
    /\ placing' = [placing EXCEPT ![o] = [pc |-> "answered", order |-> getOrder(o)]]
    /\ UNCHANGED <<remote, local, run, restarts>>

Placed(o) ==
    /\ placing[o].pc = "answered"
    /\ upsert(o, placing[o].order)
    /\ placing' = [placing EXCEPT ![o] = Idle]
    /\ UNCHANGED <<remote, run, restarts>>

PlaceFails(o) ==
    /\ placing[o].pc = "polling"
    /\ placing' = [placing EXCEPT ![o] = Idle]
    /\ UNCHANGED <<remote, local, run, restarts>>

-----------------------------------------------------------------------------
(* Reconciler.run().  The local orders of a symbol are read before the     *)
(* exchange is asked.                                                      *)
listing(i, records) ==
    [pc |-> "listing", at |-> i, localOpen |-> getOpenOrders(records, SymbolSeq[i])]

(* What follows when the orders in todo are still to be looked up.         *)
nextLookup(i, todo, records) ==
    IF todo # {} THEN {[pc |-> "asking", at |-> i, order |-> o, todo |-> todo \ {o}] : o \in todo}
    ELSE IF i < Len(SymbolSeq) THEN {listing(i + 1, records)}
    ELSE {Idle}

Move(r, states) == \E st \in states : run' = [run EXCEPT ![r] = st]

Start(r) ==
    /\ run[r] = Idle
    /\ Move(r, {listing(1, local)})
    /\ UNCHANGED <<remote, local, placing, restarts>>

Listed(r) ==
    /\ run[r].pc = "listing"
    /\ Move(r, nextLookup(run[r].at, run[r].localOpen \ listOpenOrders(SymbolSeq[run[r].at]), local))
    /\ UNCHANGED <<remote, local, placing, restarts>>

(* An error of the list ends the run, for the symbols that follow too.     *)
ListFails(r) ==
    /\ run[r].pc = "listing"
    /\ Move(r, {Idle})
    /\ UNCHANGED <<remote, local, placing, restarts>>

Answered(r) ==
    /\ run[r].pc = "asking"
    /\ Move(r, {[pc |-> "latest", at |-> run[r].at, order |-> run[r].order,
                 todo |-> run[r].todo, latest |-> getOrder(run[r].order)]})
    /\ UNCHANGED <<remote, local, placing, restarts>>

Update_AssumesCanceled(r) ==                                \* mutant
    /\ run[r].pc = "latest"
    /\ upsert(run[r].order, [local[run[r].order] EXCEPT !.status = "canceled"])
    /\ Move(r, nextLookup(run[r].at, run[r].todo, local'))
    /\ UNCHANGED <<remote, placing, restarts>>
Update(r) ==
    /\ run[r].pc = "latest"
    /\ upsert(run[r].order, run[r].latest)
    /\ Move(r, nextLookup(run[r].at, run[r].todo, local'))
    /\ UNCHANGED <<remote, placing, restarts>>

LookupFails(r) ==
    /\ run[r].pc = "asking"
    /\ Move(r, nextLookup(run[r].at, run[r].todo, local))
    /\ UNCHANGED <<remote, local, placing, restarts>>

(* Calls in progress are lost, whether or not the exchange has the order.  *)
Restart ==
    /\ restarts < MaxRestarts
    /\ restarts' = restarts + 1
    /\ placing' = [o \in Orders |-> IF placing[o].pc = "new" THEN placing[o] ELSE Idle]
    /\ run' = [r \in Runs |-> Idle]
    /\ UNCHANGED <<remote, local>>

-----------------------------------------------------------------------------
Init ==
    /\ remote = << >>
    /\ local = << >>
    /\ placing = [o \in Orders |-> [pc |-> "new"]]
    /\ run = [r \in Runs |-> Idle]
    /\ restarts = 0

Exchange == \E o \in DOMAIN remote : Open(o) \/ PartialFill(o) \/ End(o)
Placing == \E o \in Orders : Submit(o) \/ Polled(o) \/ Placed(o) \/ PlaceFails(o)
Reconciling == \E r \in Runs :
    Start(r) \/ Listed(r) \/ ListFails(r) \/ Answered(r) \/ Update(r) \/ LookupFails(r)

Next == Exchange \/ Placing \/ Reconciling \/ Restart

(* The scheduler starts a run at every tick; a call that is made again and *)
(* again succeeds sometimes; what is synchronous is done.                  *)
Fairness ==
    /\ \A r \in Runs : WF_vars(Start(r)) /\ WF_vars(Update(r))
    /\ \A r \in Runs, i \in 1..Len(SymbolSeq) : SF_vars(Listed(r) /\ run[r].at = i)
    /\ \A r \in Runs, o \in Orders : SF_vars(Answered(r) /\ run[r].order = o)
    /\ \A o \in Orders : WF_vars(Placed(o)) /\ WF_vars(Polled(o) \/ PlaceFails(o))
    /\ \A o \in Orders : WF_vars(o \in DOMAIN remote /\ End(o))

Spec == Init /\ [][Next]_vars /\ Fairness

-----------------------------------------------------------------------------
Records == [status : {"pending", "open", "filled", "canceled"}, filled : 0..Quantity]

Past(o, order) ==
    /\ order.filled <= remote[o].filled
    /\ order.status \in {"filled", "canceled"} => order = getOrder(o)

(* However late an answer is stored, and whichever of two runs stores it   *)
(* last: a record never shows more filled than there is, and one that is   *)
(* closed is final (reconciler.ts:23-24), so that no order that may still  *)
(* fill is ever left out of later runs.                                    *)
ClosedIsFinal == \A o \in DOMAIN local : Past(o, local[o])

(* "Update OrderState with actual fill status" (architecture.md:160): once *)
(* an order that is recorded has ended, its record comes to show how and   *)
(* stays so, whatever older answers are still to come.                     *)
Converges ==
    \A o \in Orders :
        (o \in DOMAIN local /\ Settled(o))
            ~> [](o \in DOMAIN local /\ local[o].status = remote[o].status
                                     /\ local[o].filled = remote[o].filled)
=============================================================================
