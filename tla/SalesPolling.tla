---------------------------- MODULE SalesPolling ----------------------------
(***************************************************************************)
(* The detection of sales: the scheduled poll of every channel             *)
(* (services/lambdas/sales-poller), the isolation of a channel whose calls *)
(* fail (packages/db/src/channel-isolation.ts, rate-control.ts), and the   *)
(* poll an eBay notification asks for (services/lambdas/ebay-webhook).     *)
(*                                                                         *)
(* A step of the clock is one run of the schedule, a minute; Lookback,     *)
(* Window and NoticeLookback are in such steps and keep the order of the   *)
(* code's 5, 15 and 20 minutes. A poll and its reads are one step.         *)
(***************************************************************************)
EXTENDS Naturals, Sequences, FiniteSets, FiniteSetsExt

CONSTANTS
  Order,           \* the channels in the order the handler polls them
  Sold,            \* sales the clock goes past, as <<channel, number>>
  Lookback,        \* LOOKBACK_MS
  Window,          \* DEFAULT_WINDOW_MINUTES of the isolation
  NoticeLookback,  \* NOTIFICATION_LOOKBACK_MS
  Threshold,       \* ERROR_COUNT_THROTTLE_THRESHOLD
  MaxReceives,     \* maxReceiveCount of the notification queue
  MaxMoods,        \* changes of a marketplace's health
  MaxPollFaults    \* invocations that die, sends that fail

Polled == {Order[i] : i \in 1..Len(Order)}

ASSUME PollingAssumption ==
  /\ Order \in Seq(Polled)
  /\ \A s \in Sold : s[1] \in Polled
  /\ Lookback \in Nat \ {0}
  /\ Window \in Nat \ {0}
  /\ NoticeLookback \in Nat
  /\ Lookback < NoticeLookback
  /\ Threshold \in Nat \ {0}
  /\ MaxReceives \in Nat \ {0}
  /\ MaxMoods \in Nat
  /\ MaxPollFaults \in Nat

Moods  == {"ok", "refused", "down", "denied"}
Gone   == NoticeLookback + 1

NoErrors == [a \in 0..Window - 1 |-> 0]

VARIABLES
  mood,      \* what a call to the marketplace meets; "denied" is 429 or no valid token
  moods,
  errors,    \* sync_errors by channel and age, as what they count towards isolation
  cleared,   \* channels all of whose recent errors an operator marked resolved
  toPoll,    \* channels the running invocation still has to poll
  age,       \* of each sale in minutes, Gone when no poll reaches back to it
  placed,    \* sales that have been placed
  sent,      \* sales forwarded to the inventory sync queue
  claimed,   \* the debounce claim is held, by the minute it runs out in
  notices,   \* receives of the waiting poll request, 0 for none
  blocked,   \* history: minutes in a row without a poll of the channel that succeeded,
             \* for a reason of its own or because the invocation died
  pollFaults

pollVars == <<mood, moods, errors, cleared, toPoll, age, placed, sent,
              claimed, notices, blocked, pollFaults>>

PollingTypeOK ==
  /\ mood \in [Polled -> Moods]
  /\ moods \in 0..MaxMoods
  /\ errors \in [Polled -> [0..Window - 1 -> 0..Threshold]]
  /\ cleared \in SUBSET Polled
  /\ toPoll \in {SubSeq(Order, i, Len(Order)) : i \in 1..Len(Order) + 1}
  /\ age \in [Sold -> 0..Gone]
  /\ sent \subseteq placed
  /\ placed \subseteq Sold
  /\ claimed \in BOOLEAN
  /\ notices \in 0..MaxReceives
  /\ blocked \in [Polled -> 0..Lookback]
  /\ pollFaults \in 0..MaxPollFaults

PollingInit ==
  /\ mood = [c \in Polled |-> "ok"]
  /\ moods = 0
  /\ errors = [c \in Polled |-> NoErrors]
  /\ cleared = {}
  /\ toPoll = <<>>
  /\ age = [s \in Sold |-> 0]
  /\ placed = {}
  /\ sent = {}
  /\ claimed = FALSE
  /\ notices = 0
  /\ blocked = [c \in Polled |-> 0]
  /\ pollFaults = 0

Fault == pollFaults < MaxPollFaults /\ pollFaults' = pollFaults + 1

------------------------------------------------------------------------------
\* AUTH_FAILURE_PATTERN and a 429 isolate at once, ERROR_COUNT_THROTTLE_THRESHOLD
\* errors of class 5xx together, no other error ever.
Weight(m) ==
  CASE m = "denied" -> Threshold
    [] m = "down"   -> 1
    [] OTHER        -> 0

AtMostThreshold(n) == IF n > Threshold THEN Threshold ELSE n

Record(c, m) == [errors EXCEPT ![c][0] = AtMostThreshold(@ + Weight(m))]

\* isChannelIsolated and shouldThrottleChannel: stateless, and blind to "resolved".
Isolated(c) == MapThenSumSet(LAMBDA a : errors[c][a], 0..Window - 1) >= Threshold

Blocked(c) == [blocked EXCEPT ![c] = IF @ < Lookback THEN @ + 1 ELSE @]

Visible(c, back) == {s \in placed : s[1] = c /\ age[s] <= back}

\* pollChannelIfHealthy: the skip.
\* A plausible bug: the skip is recorded like a failure.
BugSkipped(c) == Record(c, "denied")

Skipped(c) == errors

SkipIsolated(c) ==
  /\ toPoll # <<>> /\ Head(toPoll) = c
  /\ Isolated(c)
  /\ errors' = Skipped(c)
  /\ blocked' = Blocked(c)
  /\ toPoll' = Tail(toPoll)
  /\ UNCHANGED <<mood, moods, cleared, age, placed, sent, claimed, notices, pollFaults>>

\* pollChannelSales: every line item since the lookback is enqueued.
Poll(c) ==
  /\ toPoll # <<>> /\ Head(toPoll) = c
  /\ ~Isolated(c)
  /\ mood[c] = "ok"
  /\ sent' = sent \cup Visible(c, Lookback)
  /\ blocked' = [blocked EXCEPT ![c] = 0]
  /\ toPoll' = Tail(toPoll)
  /\ UNCHANGED <<mood, moods, errors, cleared, age, placed, claimed, notices, pollFaults>>

\* The catch: the failure is recorded against the channel and goes no further.
BugAfterFailure == <<>>

AfterFailure == Tail(toPoll)

PollFails(c) ==
  /\ toPoll # <<>> /\ Head(toPoll) = c
  /\ ~Isolated(c)
  /\ mood[c] # "ok"
  /\ errors' = Record(c, mood[c])
  /\ cleared' = cleared \ {c}
  /\ blocked' = Blocked(c)
  /\ toPoll' = AfterFailure
  /\ UNCHANGED <<mood, moods, age, placed, sent, claimed, notices, pollFaults>>

\* The queue refuses a send after some: recorded too, but no error of the channel's API.
SendFails(c) ==
  /\ toPoll # <<>> /\ Head(toPoll) = c
  /\ ~Isolated(c)
  /\ mood[c] = "ok"
  /\ Fault
  /\ \E some \in SUBSET Visible(c, Lookback) :
       /\ some # Visible(c, Lookback)
       /\ sent' = sent \cup some
  /\ cleared' = cleared \ {c}
  /\ blocked' = Blocked(c)
  /\ toPoll' = AfterFailure
  /\ UNCHANGED <<mood, moods, errors, age, placed, claimed, notices>>

\* The database does not answer, or the invocation dies: nobody is polled any more.
InvocationDies ==
  /\ toPoll # <<>>
  /\ Fault
  /\ blocked' = [c \in Polled |-> IF \E i \in 1..Len(toPoll) : toPoll[i] = c
                                  THEN Blocked(c)[c] ELSE blocked[c]]
  /\ toPoll' = <<>>
  /\ UNCHANGED <<mood, moods, errors, cleared, age, placed, sent, claimed, notices>>

\* The schedule starts the next invocation a minute later.
Minute ==
  /\ toPoll = <<>>
  /\ toPoll' = Order
  /\ age' = [s \in Sold |-> IF s \in placed /\ age[s] < Gone THEN age[s] + 1 ELSE age[s]]
  /\ errors' = [c \in Polled |->
                  [a \in 0..Window - 1 |-> IF a = 0 THEN 0 ELSE errors[c][a - 1]]]
  /\ claimed' = FALSE
  /\ cleared' = {c \in cleared : errors'[c] # NoErrors}
  /\ UNCHANGED <<mood, moods, placed, sent, notices, blocked, pollFaults>>

\* What others do happens between two invocations: during one, each step below
\* commutes with the polls that do not see it.
Between == toPoll = <<>>

\* Another worker's call fails, or inventory-diff-check's, which asks for no isolation.
WorkerFails(c) ==
  /\ Between
  /\ Weight(mood[c]) > 0
  /\ errors' = Record(c, mood[c])
  /\ cleared' = cleared \ {c}
  /\ UNCHANGED <<mood, moods, toPoll, age, placed, sent, claimed, notices, blocked, pollFaults>>

\* POST /admin/ops/tenants/:id/channel-isolation/:channel/clear.
ClearIsolation(c) ==
  /\ Between
  /\ Isolated(c)
  /\ c \notin cleared
  /\ cleared' = cleared \cup {c}
  /\ UNCHANGED <<mood, moods, errors, toPoll, age, placed, sent, claimed, notices, blocked, pollFaults>>

------------------------------------------------------------------------------
Place(s) ==
  /\ Between
  /\ s \notin placed
  /\ placed' = placed \cup {s}
  /\ UNCHANGED <<mood, moods, errors, cleared, toPoll, age, sent, claimed, notices, blocked, pollFaults>>

MoodChanges(c, m) ==
  /\ Between
  /\ moods < MaxMoods
  /\ m # mood[c]
  /\ moods' = moods + 1
  /\ mood' = [mood EXCEPT ![c] = m]
  /\ UNCHANGED <<errors, cleared, toPoll, age, placed, sent, claimed, notices, blocked, pollFaults>>

\* triggerCoalescedPoll: a claim that nobody completes, and the request behind it.
Notify ==
  /\ Between
  /\ ~claimed
  /\ \E s \in placed \ sent : s[1] = "ebay"
  /\ claimed' = TRUE
  /\ \/ notices' = (IF notices = 0 THEN 1 ELSE notices) /\ UNCHANGED pollFaults
     \/ Fault /\ UNCHANGED notices
  /\ UNCHANGED <<mood, moods, errors, cleared, toPoll, age, placed, sent, blocked>>

\* dispatchPoll asks neither for isolation nor records an error.
Dispatch ==
  /\ Between
  /\ notices > 0
  /\ mood["ebay"] = "ok"
  /\ sent' = sent \cup Visible("ebay", NoticeLookback)
  /\ notices' = 0
  /\ UNCHANGED <<mood, moods, errors, cleared, toPoll, age, placed, claimed, blocked, pollFaults>>

\* The queue's redrive policy moves the request to its DLQ.
\* A plausible bug: it is received for ever.
BugReceivedAgain == notices + 1

ReceivedAgain == IF notices = MaxReceives THEN 0 ELSE notices + 1

DispatchFails ==
  /\ Between
  /\ notices > 0
  /\ mood["ebay"] # "ok"
  /\ notices' = ReceivedAgain
  /\ UNCHANGED <<mood, moods, errors, cleared, toPoll, age, placed, sent, claimed, blocked, pollFaults>>

PollerStep == \E c \in Polled : SkipIsolated(c) \/ Poll(c) \/ PollFails(c)

PollingNext ==
  \/ \E c \in Polled : \/ SkipIsolated(c) \/ Poll(c) \/ PollFails(c) \/ SendFails(c)
                       \/ WorkerFails(c) \/ ClearIsolation(c)
                       \/ \E m \in Moods : MoodChanges(c, m)
  \/ InvocationDies \/ Minute
  \/ \E s \in Sold : Place(s)
  \/ Notify \/ Dispatch \/ DispatchFails

\* The schedule, and invocations that come to their end.
PollingFairness == WF_pollVars(Minute) /\ WF_pollVars(PollerStep)

PollingSpec == PollingInit /\ [][PollingNext]_pollVars /\ PollingFairness

------------------------------------------------------------------------------
\* A channel's failure is its own: a sale leaves the lookback unforwarded only
\* when every poll since it was placed was skipped for, or failed on, its own
\* channel, or was cut short with the whole invocation ("never lets one
\* channel's poll failure escape uncaught", pollChannelIfHealthy).
MissedByOwnOutage ==
  [][\A s \in placed \ sent :
       age[s] = Lookback /\ age'[s] > Lookback => blocked[s[1]] = Lookback]_pollVars

\* Isolation lifts on its own: once a marketplace stays well, its channel is in
\* the end polled every minute again, with nothing to clear by hand ("the next
\* probe (the failure ageing out of the window) succeeds", isChannelIsolated).
IsolationLifts ==
  \A c \in Polled : <>[](mood[c] = "ok") => <>[](blocked[c] = 0)

\* "The next isChannelIsolated check then sees none and lifts isolation
\* immediately" (the route that clears an isolation, admin-api/src/handler.ts).
ClearLifts == \A c \in Polled : c \in cleared => ~Isolated(c)
==============================================================================
