------------------------------ MODULE Dashboard ------------------------------
(***************************************************************************)
(* The HTTP API and the control page that is its client: the routes that   *)
(* change the running program, the timers behind them, the page's refresh  *)
(* and its buttons.  A request may be lost, before or after it is served.  *)
(***************************************************************************)
EXTENDS Integers, FiniteSets

CONSTANTS
    KillFlag,       \* KILL_SWITCH, as the process was started
    KeySet,         \* LUMENLINK_API_KEY is given; the page sends none
    Intervals, Limits, Strategies,
    Initial,        \* the configuration the process is started with
    MaxChanges, MaxFetches          \* bounds

VARIABLES
    config, timers,
    running,        \* the strategy that the loops were given
    triggered,      \* killSwitch.isTriggered()
    changes,        \* history: how many changes of the program a client may see
    data,           \* the page's copy of /api/data
    fetches,        \* its requests for one, answered or not
    form, formFetches,
    post            \* the button last pressed, until it is released

server == <<config, timers, running, triggered, changes>>
page == <<data, fetches, form, formFetches, post>>
panelVars == <<server, page>>

Nothing == [at |-> -1, killSwitch |-> FALSE, halted |-> FALSE, limit |-> 0]
Sent == [Nothing EXCEPT !.at = -2]
Unanswered == -1
Idle == [kind |-> "none", value |-> 0, status |-> "none"]
MUTABLE_FIELDS == {"strategyIntervalMs", "pollIntervalMs", "risk.maxPositionUsd"}

-----------------------------------------------------------------------------
Init ==
    /\ config = Initial
    /\ timers = [strategy |-> Initial.strategyIntervalMs, reconcile |-> Initial.pollIntervalMs]
    /\ running = Initial.strategy
    /\ triggered = FALSE /\ changes = 0
    /\ data = Nothing /\ fetches = {} /\ form = 0 /\ formFetches = {} /\ post = Idle

authorize(keyed) == ~KeySet \/ keyed
changed == changes < MaxChanges /\ changes' = changes + 1

(* Only the strategy's timer is set anew, and not for a falsy interval.    *)
rescheduled_Not(patch) == timers.strategy                   \* mutant
rescheduled(patch) ==
    IF "strategyIntervalMs" \in DOMAIN patch /\ patch["strategyIntervalMs"] # 0
    THEN patch["strategyIntervalMs"] ELSE timers.strategy

onConfigUpdate(patch) ==
    /\ config' = [config EXCEPT
           !.strategyIntervalMs = IF "strategyIntervalMs" \in DOMAIN patch THEN patch["strategyIntervalMs"] ELSE @,
           !.pollIntervalMs = IF "pollIntervalMs" \in DOMAIN patch THEN patch["pollIntervalMs"] ELSE @,
           !.limit = IF "risk.maxPositionUsd" \in DOMAIN patch THEN patch["risk.maxPositionUsd"] ELSE @]
    /\ timers' = [timers EXCEPT !.strategy = rescheduled(patch)]

(* The whitelist; a body with none of its fields changes nothing.          *)
PostConfig(body) ==
    LET patch == [k \in DOMAIN body \intersect MUTABLE_FIELDS |-> body[k]]
    IN  /\ DOMAIN patch # {}
        /\ onConfigUpdate(patch)
        /\ UNCHANGED <<running, triggered>>

limited(l) == [k \in {"risk.maxPositionUsd"} |-> l]

PostTrigger == triggered' = TRUE /\ UNCHANGED <<config, timers, running>>
PostReset == triggered' = FALSE /\ UNCHANGED <<config, timers, running>>

(* A strategy is made and its name kept; the loops keep theirs.            *)
PostSwitch(name) ==
    /\ config' = [config EXCEPT !.strategy = name]
    /\ UNCHANGED <<timers, running, triggered>>

(* Another client, with the key; or the kill switch, by its own limits.    *)
Other ==
    /\ changed
    /\ \/ \E i \in Intervals, p \in Intervals :
              \/ PostConfig([strategyIntervalMs |-> i, mode |-> "live"])
              \/ PostConfig([pollIntervalMs |-> p])
       \/ \E l \in Limits : PostConfig(limited(l))
       \/ \E s \in Strategies : PostSwitch(s)
       \/ PostTrigger \/ PostReset
    /\ UNCHANGED page

(* The kill switch's row is kept; what was configured by requests is not.  *)
Restart ==
    /\ changed
    /\ config' = Initial /\ running' = Initial.strategy
    /\ timers' = [strategy |-> Initial.strategyIntervalMs, reconcile |-> Initial.pollIntervalMs]
    /\ UNCHANGED <<triggered, page>>

-----------------------------------------------------------------------------
mayFetch_Always == Cardinality(fetches) < MaxFetches        \* mutant
mayFetch == fetches = {}                                    \* ~isLoading
fetchData == fetches' = IF mayFetch THEN fetches \union {Sent} ELSE fetches

Refresh ==
    /\ fetchData
    /\ UNCHANGED <<server, data, form, formFetches, post>>

(* getRichStatus(): the kill switch shown is the flag of the start.        *)
GetData ==
    /\ Sent \in fetches /\ authorize(FALSE)
    /\ fetches' = (fetches \ {Sent}) \union
           {[at |-> changes, killSwitch |-> config.killSwitch, halted |-> triggered, limit |-> config.limit]}
    /\ UNCHANGED <<server, data, form, formFetches, post>>

released == post' = IF post.status = "waits" THEN Idle ELSE post

(* New data lands, and the form asks for the configuration again.          *)
Land(f) ==
    /\ f # Sent
    /\ fetches' = fetches \ {f} /\ data' = f
    /\ formFetches' = formFetches \union {Unanswered}
    /\ released
    /\ UNCHANGED <<server, form>>

FetchFails(f) ==
    /\ fetches' = fetches \ {f}
    /\ released
    /\ UNCHANGED <<server, data, form, formFetches>>

GetConfig ==
    /\ Unanswered \in formFetches /\ authorize(FALSE)
    /\ formFetches' = (formFetches \ {Unanswered}) \union {config.limit}
    /\ UNCHANGED <<server, data, fetches, form, post>>

(* What is being typed is overwritten, by the answer or by its fallback.   *)
FillForm(v) ==
    /\ formFetches' = formFetches \ {v}
    /\ form' = IF v = Unanswered THEN data.limit ELSE v
    /\ UNCHANGED <<server, data, fetches, post>>

Type(v) == form' = v /\ UNCHANGED <<server, data, fetches, formFetches, post>>

(* The reset is only offered where the page shows TRIGGERED.  (The buttons *)
(* are modelled as if one at a time could be pressed; saving has a flag of *)
(* its own.)                                                               *)
Press(kind) ==
    /\ data # Nothing /\ post = Idle
    /\ kind = "reset" => data.killSwitch
    /\ kind = "trigger" => ~data.killSwitch
    /\ kind = "save" => form > 0
    /\ post' = [kind |-> kind, value |-> IF kind = "save" THEN form ELSE 0, status |-> "sent"]
    /\ UNCHANGED <<server, data, fetches, form, formFetches>>

Serve ==
    /\ post.status = "sent" /\ authorize(FALSE)
    /\ \/ /\ post.kind = "save" /\ PostConfig(limited(post.value)) /\ changed
       \/ post.kind = "trigger" /\ PostTrigger /\ changed
       \/ post.kind = "reset" /\ PostReset /\ changed
       \/ post.kind = "unwired" /\ UNCHANGED server     \* 501: pause, resume, close, cancel
    /\ post' = [post EXCEPT !.status = IF post.kind = "unwired" THEN "failed" ELSE "ok"]
    /\ UNCHANGED <<data, fetches, form, formFetches>>

(* No answer within ten seconds, or a refusal.                             *)
PostFails ==
    /\ post.status \in {"sent", "ok", "failed"}
    /\ post' = Idle
    /\ UNCHANGED <<server, data, fetches, form, formFetches>>

(* The button is released when the data is there, or one was on its way.   *)
PostReturns ==
    /\ post.status = "ok"
    /\ fetchData
    /\ post' = IF mayFetch THEN [post EXCEPT !.status = "waits"] ELSE Idle
    /\ UNCHANGED <<server, data, form, formFetches>>

Next ==
    \/ Other \/ Restart \/ Refresh \/ GetData \/ GetConfig \/ Serve \/ PostFails \/ PostReturns
    \/ \E f \in fetches : Land(f) \/ FetchFails(f)
    \/ \E v \in formFetches : FillForm(v)
    \/ \E v \in Limits : Type(v)
    \/ \E kind \in {"save", "trigger", "reset", "unwired"} : Press(kind)

Spec == Init /\ [][Next]_panelVars

-----------------------------------------------------------------------------
(* The page never shows an older state of the program after a newer one,   *)
(* and the strategy's timer runs at the interval that is configured,       *)
(* whichever clients changed it, unless one of them made it 0.             *)
NeverGoesBack == data'.at >= data.at
TimerFollows == config.strategyIntervalMs # 0 => timers.strategy = config.strategyIntervalMs
PanelSound == [][NeverGoesBack]_panelVars /\ []TimerFollows

(* "Trading is active. All systems operational." is shown only of a state  *)
(* in which the kill switch was not triggered.                             *)
KillShown == data.halted => data.killSwitch
=============================================================================
