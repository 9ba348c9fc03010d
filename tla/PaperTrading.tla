----------------------------- MODULE PaperTrading -----------------------------
(***************************************************************************)
(* Orders of the paper mode and the life of a position: OrderManager's     *)
(* placeOrder() with the PaperBroker that answers it and the               *)
(* PositionStateMachine it tells.  Runs of the loops overlap, so that      *)
(* orders are in flight together; the retry executor may refuse one.       *)
(***************************************************************************)
EXTENDS Integers

CONSTANTS
    Symbols, Orders,   \* client order ids
    Prices,            \* of a ticker and of a limit: even
    Slip               \* mid price times the slippage that is allowed

VARIABLES
    positions,    \* [Orders -> record], NoPosition where there is none
    inFlight,     \* requests whose answer is awaited
    done          \* ids used
paperVars == <<positions, inFlight, done>>

NoPosition == [state |-> "none"]
Transitions ==
    [flat |-> {"pending_entry"}, pending_entry |-> {"filled", "flat"},
     filled |-> {"managing", "pending_exit", "exited"}, managing |-> {"pending_exit", "exited"},
     pending_exit |-> {"exited", "managing"}, exited |-> {"flat"}]

Requests == [id : Orders, symbol : Symbols, side : {"buy", "sell"},
             type : {"market", "limit", "stop", "stop_limit"}, price : Prices]
Tickers == {t \in [bid : Prices, ask : Prices] : t.bid <= t.ask}

inactive_Pending == {"none", "exited", "flat", "pending_entry"}    \* mutant
inactive == {"none", "exited", "flat"}
bySymbol(symbol) == {o \in Orders : positions[o].state \notin inactive /\ positions[o].symbol = symbol}

(* toBasicOrderRequest: a stop is forgotten on the way to the broker.      *)
basic(type) == IF type = "stop" THEN "market" ELSE IF type = "stop_limit" THEN "limit" ELSE type

(* PaperBroker.place: 0 for an order that is left pending, and is never    *)
(* looked at again.                                                        *)
place(req, ticker) ==
    LET mid == (ticker.bid + ticker.ask) \div 2
        worse == IF req.side = "buy" THEN ticker.ask > req.price ELSE ticker.bid < req.price
    IN  IF basic(req.type) = "limit" THEN (IF worse THEN 0 ELSE req.price)
        ELSE IF req.side = "buy" THEN mid + Slip ELSE mid - Slip

transition(o, to, record) ==
    /\ to \in Transitions[positions[o].state]
    /\ positions' = [positions EXCEPT ![o] = [record EXCEPT !.state = to]]

-----------------------------------------------------------------------------
Init ==
    /\ positions = [o \in Orders |-> NoPosition]
    /\ inFlight = {} /\ done = {}

(* A buy begins a position unless the symbol has one; create() and the     *)
(* transition follow each other without an await.                          *)
Submit(req) ==
    /\ req.id \notin done
    /\ done' = done \union {req.id}
    /\ inFlight' = inFlight \union {req}
    /\ IF req.side = "buy" /\ bySymbol(req.symbol) = {}
       THEN positions' = [positions EXCEPT ![req.id] =
                              [state |-> "pending_entry", symbol |-> req.symbol, entryPrice |-> 0]]
       ELSE UNCHANGED positions

(* get(clientOrderId) ?? getBySymbol(symbol): the fill of a sell, too,     *)
(* fills an entry that is still pending.                                   *)
Answer(req, ticker) ==
    /\ req \in inFlight
    /\ inFlight' = inFlight \ {req}
    /\ UNCHANGED done
    /\ LET own == positions[req.id].state # "none"
           pos == IF own THEN {req.id} ELSE bySymbol(req.symbol)
           price == place(req, ticker)
       IN  IF price # 0 /\ \E o \in pos : positions[o].state = "pending_entry"
           THEN \E o \in pos : /\ positions[o].state = "pending_entry"
                               /\ transition(o, "filled", [positions[o] EXCEPT !.entryPrice = price])
           ELSE UNCHANGED positions

(* The breaker is open or the tries are used up.                           *)
Refuse(req) ==
    /\ req \in inFlight
    /\ inFlight' = inFlight \ {req}
    /\ UNCHANGED <<positions, done>>

(* A restart: persist() has no caller, so that init() finds no rows.       *)
Restart ==
    /\ positions' = [o \in Orders |-> NoPosition]
    /\ inFlight' = {}
    /\ UNCHANGED done

Next ==
    \/ \E req \in Requests : Submit(req)
    \/ \E req \in inFlight : Refuse(req) \/ \E ticker \in Tickers : Answer(req, ticker)
    \/ Restart

Spec == Init /\ [][Next]_paperVars

-----------------------------------------------------------------------------
(* However orders of a symbol overlap, fail and are repeated, the symbol   *)
(* has at most one position that is not over, and one that waits for its   *)
(* entry has no price yet: the second buy joins the first one's position   *)
(* and does not begin its own.                                             *)
OnePosition ==
    LET entered == {o \in Orders : positions[o].state \in DOMAIN Transitions \ {"exited", "flat"}}
    IN  /\ \A o, x \in entered : positions[o].symbol = positions[x].symbol => o = x
        /\ \A o \in entered : (positions[o].entryPrice = 0) <=> (positions[o].state = "pending_entry")
=============================================================================
