------------------------------- MODULE LiveBot -------------------------------
(***************************************************************************)
(* The Telegram bot that keeps a wallet for each user: a conversation in   *)
(* which a button begins a flow and replies to the bot's last message are  *)
(* its answers, and the JSON file of the wallets.  Updates are handled one *)
(* after the other.  A reply to any other message changes nothing and is   *)
(* left out, and so is the encryption of what is stored.                   *)
(***************************************************************************)
EXTENDS Integers

CONSTANTS
    Users,
    Texts,        \* a user may reply: [kind, n], n a number if the kind is "number"
    Ether,        \* each wallet holds at first
    MaxUpdates    \* bound

VARIABLES
    userStates,
    file, _data,  \* wallets.json, as it would be read, and its copy in memory
    created,      \* wallets
    funds,        \* of each user, at the chain: [eth, token]
    moved,        \* the last transfer or trade: its flow, the questions its two answers replied to
    toldOf,        \* history: the wallets each user was told of
    inFlow,       \* the flow each user is in, for all the bot has said
    muddled,      \* history: users who began a flow in the middle of one
    cut,          \* history: a write of the file was cut off
    updates

wallets == <<file, _data, created, cut>>
botVars == <<userStates, wallets, funds, moved, toldOf, inFlow, muddled, updates>>

Flows == {"withdraw", "buy", "sell"}
Nobody == [address |-> 0, last |-> "none", requested |-> {}, amount |-> 0, asset |-> "none", answered |-> "none"]
firstQuestion == [withdraw |-> "amount", buy |-> "asset to buy", sell |-> "asset to sell"]
secondQuestion == [withdraw |-> "destination", buy |-> "amount to spend", sell |-> "amount to sell"]

update == updates < MaxUpdates /\ updates' = updates + 1

-----------------------------------------------------------------------------
(* JsonDatabase.set() keeps the others' entries.                           *)
written_Alone(u, w) == [x \in {u} |-> w]                     \* mutant
written(u, w) == [x \in (DOMAIN _data) \union {u} |-> IF x = u THEN w ELSE _data[x]]

addressOf(u) ==
    CASE userStates[u].address # 0 -> userStates[u].address
      [] userStates[u].address = 0 /\ u \in DOMAIN _data -> _data[u]
      [] OTHER -> created + 1

getOrCreateAddress(u) ==
    /\ IF addressOf(u) <= created THEN UNCHANGED <<file, _data, created>>
       ELSE /\ created' = created + 1
            /\ _data' = written(u, created') /\ file' = _data'
    /\ UNCHANGED cut

updateUserState(u, st) == userStates' = [userStates EXCEPT ![u] = st]

cleared_AddressOnly(u) == [userStates[u] EXCEPT !.address = 0, !.amount = 0, !.asset = "none"]  \* mutant
cleared(u) == Nobody

(* The user is told that the flow is over, and it is forgotten; if Telegram *)
(* fails, the error comes before that.                                     *)
endFlow(u, told) ==
    /\ updateUserState(u, IF told THEN cleared(u) ELSE userStates[u])
    /\ inFlow' = IF told THEN [inFlow EXCEPT ![u] = "none"] ELSE inFlow

-----------------------------------------------------------------------------
Init ==
    /\ userStates = [u \in Users |-> Nobody]
    /\ file = << >> /\ _data = << >> /\ created = 0 /\ cut = FALSE
    /\ funds = [u \in Users |-> [eth |-> Ether, token |-> 0]]
    /\ moved = [flow |-> "none"]
    /\ toldOf = [u \in Users |-> {}]
    /\ inFlow = [u \in Users |-> "none"] /\ muddled = {}
    /\ updates = 0

(* The messages of a handler that needs the wallet, up to the one, if any, *)
(* that fails; some of them tell the user of it.                           *)
answer(u, sent, tells) ==
    /\ update
    /\ getOrCreateAddress(u)
    /\ updateUserState(u, [userStates[u] EXCEPT !.address = addressOf(u), !.last = IF sent > 0 THEN "note" ELSE @])
    /\ toldOf' = IF tells THEN [toldOf EXCEPT ![u] = @ \union {addressOf(u)}] ELSE toldOf
    /\ UNCHANGED <<funds, moved, inFlow, muddled>>
handleStart(u, sent) == answer(u, sent, sent = 1)
handleCheckBalance(u, sent) == answer(u, sent, FALSE)
handleDeposit(u, sent) == answer(u, sent, sent = 3)
handleExportKey(u, sent) == answer(u, sent, sent = 2)

(* A button begins a flow; nothing is done about one begun before.         *)
Request(u, flow, sent) ==
    /\ update
    /\ updateUserState(u, [userStates[u] EXCEPT !.requested = @ \union {flow},
                                                !.last = IF sent THEN firstQuestion[flow] ELSE @])
    /\ muddled' = IF inFlow[u] # "none" THEN muddled \union {u} ELSE muddled
    /\ inFlow' = [inFlow EXCEPT ![u] = flow]
    /\ UNCHANGED <<wallets, funds, moved, toldOf>>

handlePinMessage(u, told) ==
    /\ update
    /\ endFlow(u, told)
    /\ UNCHANGED <<wallets, funds, moved, toldOf, muddled>>

(* A reply is taken for the first flow of these that was requested.        *)
takenFor(u) ==
    LET r == userStates[u].requested
    IN  IF "withdraw" \in r THEN "withdraw" ELSE IF "buy" \in r THEN "buy" ELSE IF "sell" \in r THEN "sell" ELSE "none"
reply(u, flow) == update /\ userStates[u].last # "none" /\ takenFor(u) = flow

(* parseFloat() of an address, which begins with "0x", is 0.               *)
isNaN(t) == t.kind \notin {"number", "address"}
parseFloat(t) == IF t.kind = "number" THEN t.n ELSE 0

(* What became of a transfer or trade, and whether the user was told.  The *)
(* chain refuses what is not positive or not there; a message that fails   *)
(* after it was done is told as an error, and one that fails twice keeps   *)
(* the conversation where it is, as do a balance that cannot be had and a  *)
(* first notice that fails, before which the last message is a question.   *)
move(u, flow, amount, from, to, can, done, told) ==
    /\ done => can /\ amount > 0 /\ amount <= funds[u][from]
    /\ IF ~done THEN UNCHANGED <<funds, moved>>
       ELSE /\ funds' = IF to = "out" THEN [funds EXCEPT ![u][from] = @ - amount]
                        ELSE [funds EXCEPT ![u][from] = @ - amount, ![u][to] = @ + amount]
            /\ moved' = [flow |-> flow, first |-> userStates[u].answered, second |-> userStates[u].last, by |-> u]
    /\ IF told THEN endFlow(u, TRUE)
       ELSE /\ \E said \in {"note", userStates[u].last} :
                  /\ done => said = "note"
                  /\ updateUserState(u, [userStates[u] EXCEPT !.address = addressOf(u), !.last = said])
            /\ UNCHANGED inFlow

(* handleWithdrawal(): an amount of 0 is not taken for one.                *)
WithdrawalAmount(u, t, sent) ==
    /\ reply(u, "withdraw") /\ userStates[u].amount = 0
    /\ IF isNaN(t) THEN endFlow(u, sent) /\ UNCHANGED wallets
       ELSE /\ getOrCreateAddress(u)
            /\ IF parseFloat(t) > funds[u].eth THEN endFlow(u, sent)
               ELSE /\ updateUserState(u,
                         IF ~sent THEN [userStates[u] EXCEPT !.address = addressOf(u)]
                         ELSE [userStates[u] EXCEPT !.address = addressOf(u), !.amount = parseFloat(t),
                                                    !.answered = userStates[u].last, !.last = "destination"])
                    /\ UNCHANGED inFlow
    /\ UNCHANGED <<funds, moved, toldOf, muddled>>

isDestination(t) == t.kind \in {"address", "name"}

Destination(u, t, done, told) ==
    /\ reply(u, "withdraw") /\ userStates[u].amount # 0
    /\ IF ~isDestination(t)
       THEN ~done /\ endFlow(u, told) /\ UNCHANGED <<wallets, funds, moved>>
       ELSE /\ getOrCreateAddress(u)
            /\ move(u, "withdraw", userStates[u].amount, "eth", "out", TRUE, done, told)
    /\ UNCHANGED <<toldOf, muddled>>

(* executeTrade(): the asset is kept before the next question is sent.     *)
TradeAsset(u, flow, t, sent) ==
    /\ flow # "withdraw" /\ reply(u, flow) /\ userStates[u].asset = "none"
    /\ IF t.kind = "eth" /\ flow = "sell" THEN endFlow(u, sent)
       ELSE /\ updateUserState(u, [userStates[u] EXCEPT !.asset = t.kind, !.answered = userStates[u].last,
                                                        !.last = IF sent THEN secondQuestion[flow] ELSE @])
            /\ UNCHANGED inFlow
    /\ UNCHANGED <<wallets, funds, moved, toldOf, muddled>>

TradeAmount(u, flow, t, done, told) ==
    /\ flow # "withdraw" /\ reply(u, flow) /\ userStates[u].asset # "none"
    /\ getOrCreateAddress(u)
    /\ LET from == IF flow = "buy" \/ userStates[u].asset = "eth" THEN "eth" ELSE "token"
           to == IF flow = "buy" THEN "token" ELSE "eth"
           can == userStates[u].asset \in {"ticker", "address"}
       IN  IF isNaN(t) \/ parseFloat(t) > funds[u][from]
           THEN ~done /\ endFlow(u, told) /\ UNCHANGED <<funds, moved>>
           ELSE move(u, flow, parseFloat(t), from, to, can, done, told)
    /\ UNCHANGED <<toldOf, muddled>>

-----------------------------------------------------------------------------
loaded_Empty(f) == << >>                                    \* mutant
loaded(f) == f

restarted ==
    /\ userStates' = [u \in Users |-> Nobody]
    /\ inFlow' = [u \in Users |-> "none"]
    /\ UNCHANGED <<funds, moved, toldOf, muddled>>

Restart ==
    /\ update /\ restarted
    /\ _data' = loaded(file)
    /\ UNCHANGED <<file, created, cut>>

(* writeFileSync() empties the file first; a broken one is read as empty.  *)
RestartInWrite(u) ==
    /\ update /\ restarted
    /\ addressOf(u) > created
    /\ created' = created + 1
    /\ file' = << >> /\ _data' = << >> /\ cut' = TRUE

Next ==
    \/ Restart
    \/ \E u \in Users :
           \/ RestartInWrite(u)
           \/ \E n \in 0..3 :
                  \/ n <= 1 /\ (handleStart(u, n) \/ handleCheckBalance(u, n))
                  \/ handleDeposit(u, n)
                  \/ n <= 2 /\ handleExportKey(u, n)
           \/ \E b \in BOOLEAN : handlePinMessage(u, b)
           \/ \E flow \in Flows, b \in BOOLEAN : Request(u, flow, b)
           \/ \E t \in Texts, b \in BOOLEAN : WithdrawalAmount(u, t, b)
           \/ \E t \in Texts, done, told \in BOOLEAN : Destination(u, t, done, told)
           \/ \E flow \in Flows, t \in Texts, b \in BOOLEAN : TradeAsset(u, flow, t, b)
           \/ \E flow \in Flows, t \in Texts, done, told \in BOOLEAN : TradeAmount(u, flow, t, done, told)

Spec == Init /\ [][Next]_botVars

-----------------------------------------------------------------------------
(* A wallet that a user was told of is the one in the file, so that what   *)
(* is sent to it can be reached, over restarts and whatever other users    *)
(* do; only a write that was cut off loses wallets, and then all of them.  *)
WalletKept == ~cut => \A u \in Users : toldOf[u] \subseteq {file[x] : x \in (DOMAIN file) \intersect {u}}

(* What is moved was asked for: both its answers were replies to questions *)
(* of the flow that moves it, or to a notice, however flows failed before; *)
(* provided that the user never began a flow in the middle of another.     *)
MovedAsAsked ==
    moved.flow # "none" /\ moved.by \notin muddled =>
        {moved.first, moved.second} \subseteq {firstQuestion[moved.flow], secondQuestion[moved.flow], "note"}
=============================================================================
