----------------------------- MODULE OrderRetries -----------------------------
(***************************************************************************)
(* How one order reaches the exchange: RetryExecutor.execute() around the  *)
(* adapter's placeOrder(), which posts with the HTTP client's own retries  *)
(* and then polls the order; the CircuitBreaker all calls share; and the   *)
(* kill switch, which is looked at once, before the first attempt.         *)
(*                                                                         *)
(* A request is <<call, attempt, try>>.  The network may lose it, or keep  *)
(* it for as long as it likes: the client gives up on a request whether or *)
(* not it arrives.                                                         *)
(***************************************************************************)
EXTENDS Naturals, FiniteSets

CONSTANTS
    Calls,          \* calls of OrderManager.placeOrder
    MaxAttempts,    \* config.retry.maxAttempts
    HttpTries,      \* withRetry: 1 + retries
    ResetAfter,     \* resetTimeoutMs of the circuit breaker, in ticks
    Dedup           \* does the exchange know a client order id again?

ASSUME RetriesAssumption ==
    /\ {MaxAttempts, HttpTries} \subseteq Nat \ {0}
    /\ ResetAfter \in Nat
    /\ Dedup \in BOOLEAN

VARIABLES
    call,           \* [Calls -> [pc, attempt, try]]
    breaker,        \* failureCount, and the time since lastFailureTime
    transit,        \* requests on their way
    accepted,       \* requests answered with an order id
    rejected,       \* requests answered with a rejection
    orders,         \* the requests that created an order
    halted          \* KillSwitch.isTriggered()

net == <<transit, accepted, rejected, orders>>
callVars == <<call, breaker, net, halted>>

Request == Calls \X (1..MaxAttempts) \X (1..HttpTries)
current(c) == <<c, call[c].attempt, call[c].try>>
At(c, pc) == call[c].pc = pc

(* createClientOrderId() runs once per call, whatever the attempt.         *)
clientOrderId_PerAttempt(m) == <<m[1], m[2]>>               \* mutant
clientOrderId(m) == m[1]

-----------------------------------------------------------------------------
(* CircuitBreaker.  isOpen() forgets old failures before it answers.       *)
Threshold == 3 * MaxAttempts
Expired_Never == FALSE                                      \* mutant
Expired == breaker.failures > 0 /\ breaker.age > ResetAfter
breakerOpen == ~Expired /\ breaker.failures >= Threshold

Reset == [failures |-> 0, age |-> 0]
recordFailure == breaker' = [failures |-> breaker.failures + 1, age |-> 0]
recordSuccess == breaker' = Reset
askBreaker == breaker' = IF Expired THEN Reset ELSE breaker

-----------------------------------------------------------------------------
Stop(c, pc) == call' = [call EXCEPT ![c].pc = pc]

Send(c, attempt, try) ==
    /\ call' = [call EXCEPT ![c] = [pc |-> "sent", attempt |-> attempt, try |-> try]]
    /\ transit' = transit \union {<<c, attempt, try>>}
    /\ UNCHANGED <<accepted, rejected, orders>>

(* placeOrder(), then execute() as far as the first request.               *)
Place(c) ==
    /\ At(c, "new")
    /\ ~halted
    /\ askBreaker
    /\ \/ breakerOpen /\ Stop(c, "refused") /\ UNCHANGED net
       \/ ~breakerOpen /\ Send(c, 1, 1)
    /\ UNCHANGED halted

MoreAttempts(c) == call[c].attempt < MaxAttempts

(* The attempt threw: whether it is retried is read off the error's text.  *)
AttemptFails(c, retryable) ==
    /\ recordFailure
    /\ Stop(c, IF retryable /\ MoreAttempts(c) THEN "backoff" ELSE "failed")
    /\ UNCHANGED <<net, halted>>

(* withRetry() catches any error of the HTTP client.                       *)
TryFails(c) ==
    /\ At(c, "sent")
    /\ \/ /\ call[c].try < HttpTries
          /\ Stop(c, "pause")
          /\ UNCHANGED <<breaker, net, halted>>
       \/ /\ call[c].try = HttpTries
          /\ \E retryable \in BOOLEAN : AttemptFails(c, retryable)

Succeeds_AnyAnswer(c) == current(c) \in accepted \union rejected  \* mutant
Succeeds(c) == current(c) \in accepted

GotAnswer(c) ==
    /\ At(c, "sent")
    /\ \/ Succeeds(c) /\ Stop(c, "polling") /\ UNCHANGED <<breaker, net, halted>>
       \/ current(c) \in rejected /\ \E retryable \in BOOLEAN : AttemptFails(c, retryable)

GotOrder(c) ==
    /\ At(c, "polling")
    /\ \/ Stop(c, "done") /\ recordSuccess /\ UNCHANGED <<net, halted>>
       \/ \E retryable \in BOOLEAN : AttemptFails(c, retryable)

NextAttempt(c) == call[c].attempt + 1

Resend_WaitsForReset(c) ==                                  \* mutant
    /\ ~halted
    /\ \/ At(c, "pause") /\ Send(c, call[c].attempt, call[c].try + 1)
       \/ At(c, "backoff") /\ Send(c, NextAttempt(c), 1)
    /\ UNCHANGED <<breaker, halted>>
Resend(c) ==
    /\ \/ At(c, "pause") /\ Send(c, call[c].attempt, call[c].try + 1)
       \/ At(c, "backoff") /\ Send(c, NextAttempt(c), 1)
    /\ UNCHANGED <<breaker, halted>>

CallStep(c) == TryFails(c) \/ GotAnswer(c) \/ GotOrder(c) \/ Resend(c)

-----------------------------------------------------------------------------
Known(m) == \E o \in orders : clientOrderId(o) = clientOrderId(m)

Deliver(m) ==
    /\ transit' = transit \ {m}
    /\ \/ /\ accepted' = accepted \union {m}
          /\ orders' = IF Dedup /\ Known(m) THEN orders ELSE orders \union {m}
          /\ UNCHANGED rejected
       \/ /\ ~(Dedup /\ Known(m))
          /\ rejected' = rejected \union {m}
          /\ UNCHANGED <<accepted, orders>>
    /\ UNCHANGED <<call, breaker, halted>>

Lose(m) ==
    /\ transit' = transit \ {m}
    /\ UNCHANGED <<call, breaker, accepted, rejected, orders, halted>>

(* Time counts from the last failure only, and no further than it matters. *)
Tick ==
    /\ breaker.failures > 0 /\ breaker.age <= ResetAfter
    /\ breaker' = [breaker EXCEPT !.age = @ + 1]
    /\ UNCHANGED <<call, net, halted>>

Operator ==
    /\ halted' = ~halted
    /\ UNCHANGED <<call, breaker, net>>

(* Any moment before these calls: others may have failed already, as many  *)
(* as the breaker lets in.                                                 *)
CallsInit ==
    /\ call = [c \in Calls |-> [pc |-> "new", attempt |-> 1, try |-> 1]]
    /\ \E n \in 0..Threshold : breaker = [failures |-> n, age |-> 0]
    /\ transit = {} /\ accepted = {} /\ rejected = {} /\ orders = {}
    /\ halted = FALSE

CallsNext ==
    \/ \E c \in Calls : Place(c) \/ CallStep(c)
    \/ \E m \in transit : Deliver(m) \/ Lose(m)
    \/ Tick
    \/ Operator

(* Timers fire: the HTTP time limit, the pauses and back-offs, the clock.  *)
CallsFairness == WF_callVars(Tick) /\ \A c \in Calls : WF_callVars(CallStep(c))

CallsSpec == CallsInit /\ [][CallsNext]_callVars /\ CallsFairness

-----------------------------------------------------------------------------
TypeOK ==
    /\ call \in [Calls -> [pc : {"new", "sent", "pause", "backoff", "polling",
                                 "done", "failed", "refused"},
                           attempt : 1..MaxAttempts, try : 1..HttpTries]]
    /\ breaker \in [failures : Nat, age : Nat]
    /\ {transit, accepted, rejected, orders} \subseteq SUBSET Request
    /\ halted \in BOOLEAN

(* "Preserves idempotency by reusing the same request on each attempt."    *)
(* (retryExecutor.ts:19): however requests are repeated, lost, delayed and *)
(* answered, one call creates at most one order.                           *)
AtMostOneOrder ==
    \A m1, m2 \in orders : m1[1] = m2[1] => m1 = m2

(* A call that returns an order has one at the exchange.                   *)
DoneHasOrder ==
    \A c \in Calls : call[c].pc \in {"polling", "done"} => \E m \in orders : m[1] = c

(* With the network, the attempts and the breaker hidden the calls are     *)
(* those of OrderPlacing, one order each: a request lost, repeated or late *)
(* never shows but as an order that comes after its call has failed.       *)
told(c) ==
    IF call[c].pc \in {"new", "done", "failed", "refused"} THEN call[c].pc ELSE "waiting"
Promised == INSTANCE OrderPlacing WITH
    outcome <- [c \in Calls |-> told(c)],
    placed <- [c \in Calls |-> {m \in orders : m[1] = c}]
ImplementsPlacing == Promised!Spec

(* Every call that sent a request ends, after boundedly many others.       *)
CallsEnd == \A c \in Calls : At(c, "sent") ~> call[c].pc \in {"done", "failed"}

(* The breaker does not stay open: refused calls do not count as failures, *)
(* and the calls it let in run out of attempts.                            *)
BreakerCloses == breakerOpen ~> ~breakerOpen
=============================================================================
