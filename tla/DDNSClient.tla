---- MODULE DDNSClient ----
(***************************************************************************)
(* DDNSClient and StreamServer.setupDDNSClient: a java.util.Timer, made    *)
(* anew by every start, whose thread updates the DNS entry of the device   *)
(* and acts on the answer. The application starts and closes the client    *)
(* when networks come and go, an answer closes or restarts it, and an      *)
(* update outlives the timer that was cancelled while it was under way.    *)
(***************************************************************************)
EXTENDS Integers

CONSTANTS
    Timer,          \* bound: the timers that may exist at a time
    NoTimer,        \* null
    MaxOutages      \* bound: how often the service answers 911

ASSUME TimerAssumption == NoTimer \notin Timer /\ MaxOutages \in Nat

Network == {"wifi", "mobile"}

(* A long, as four words of 16 bits, the lowest first.                    *)
Word == 65536
Long == Int \X Int \X Int \X Int
Seconds(n) == <<n, 0, 0, 0>>

(* x * 1000, which wraps; and what it would be for an int.                *)
Thousandfold(x) ==
    LET Carry(word, carry) == (word * 1000 + carry) \div Word
        c1 == Carry(x[1], 0)
        c2 == Carry(x[2], c1)
        c3 == Carry(x[3], c2)
    IN <<(x[1] * 1000) % Word, (x[2] * 1000 + c1) % Word,
         (x[3] * 1000 + c2) % Word, (x[4] * 1000 + c3) % Word>>

Sign(word) == IF word < Word \div 2 THEN 0 ELSE Word - 1
IntMillis(x) ==
    LET y == Thousandfold(x)
    IN <<y[1], y[2], Sign(y[2]), Sign(y[2])>>

Millis(x) == Thousandfold(x)

Positive(x) == x[4] < Word \div 2 /\ x # Seconds(0)

DDNS_UPDATE_PERIOD == Seconds(600)

VARIABLES
    client,         \* "generic", or "duck": DuckDNSClient looks at no answer
    wanted,         \* ServiceConfig.serverDDNSNetworkType, as networks
    available,      \* mWiFiAvailable and mMobileAvailable
    pc,             \* where the application's thread is
    mTimer,         \* the client's timer,
    mPeriod,        \* its period in milliseconds,
    mIsStarted,     \* and its flag
    live,           \* the timers that are not cancelled
    task,           \* where the thread of each timer is
    period,         \* the mPeriod that an answer 911 has read
    outages,        \* how many such answers there were
    crashed         \* whether an exception has ended the process

config == <<client, wanted>>
clientVars == <<mTimer, mPeriod, mIsStarted, live>>
timerVars == <<task, period>>
vars == <<config, available, pc, clientVars, timerVars, outages, crashed>>

TypeOK ==
    /\ client \in {"generic", "duck"}
    /\ wanted \in SUBSET Network
    /\ available \in SUBSET Network
    /\ pc \in {"idle", "check", "start", "closed"}
    /\ mTimer \in Timer \cup {NoTimer}
    /\ mPeriod \in Long
    /\ mIsStarted \in BOOLEAN
    /\ live \in SUBSET Timer
    /\ task \in [Timer -> {"idle", "updating", "restarting"}]
    /\ period \in [Timer -> Long]
    /\ outages \in Nat
    /\ crashed \in BOOLEAN

Init ==
    /\ client \in {"generic", "duck"}
    /\ wanted \in SUBSET Network \ {{}}
    /\ available = {}
    /\ pc = "idle"
    /\ mTimer = NoTimer
    /\ mPeriod = Seconds(0)
    /\ mIsStarted = FALSE
    /\ live = {}
    /\ task = [t \in Timer |-> "idle"]
    /\ period = [t \in Timer |-> Seconds(0)]
    /\ outages = 0
    /\ crashed = FALSE

----------------------------------------------------------------------------
(* close and start, each under the client's monitor                       *)

NothingCancelled == live
Cancelled == live \ {mTimer}

KeepsFlag == mIsStarted
ClearsFlag == mIsStarted /\ mTimer = NoTimer

Close ==
    /\ live' = Cancelled
    /\ mIsStarted' = ClearsFlag
    /\ UNCHANGED <<mTimer, mPeriod>>

(* A timer that is not live, once it is cancelled, and has no task under  *)
(* way serves as the new one.                                             *)
Unused == {t \in Timer : t \notin live \ {mTimer} /\ task[t] = "idle"}

(* Timer.schedule throws IllegalArgumentException on a period that is not *)
(* positive, on the thread that called start.                             *)
Start(seconds) ==
    \E t \in Unused :
        /\ mTimer' = t
        /\ mPeriod' = Millis(seconds)
        /\ IF Positive(mPeriod')
             THEN /\ live' = Cancelled \cup {t}
                  /\ mIsStarted' = TRUE
                  /\ UNCHANGED crashed
             ELSE /\ live' = Cancelled
                  /\ mIsStarted' = ClearsFlag
                  /\ crashed' = TRUE

----------------------------------------------------------------------------
(* The application's thread                                               *)

(* setWiFiAvailable, setMobileAvailable                                   *)
SetAvailable ==
    /\ ~crashed /\ pc = "idle"
    /\ \E n \in Network : available' \in {available \cup {n}, available \ {n}}
    /\ pc' = "check"
    /\ UNCHANGED <<config, clientVars, timerVars, outages, crashed>>

(* setupDDNSClient: it asks, and starts, in two calls.                    *)
Wanted == available \cap wanted # {}

FindsStarted ==
    /\ ~crashed /\ pc = "check" /\ Wanted
    /\ pc' = IF mIsStarted THEN "idle" ELSE "start"
    /\ UNCHANGED <<config, available, clientVars, timerVars, outages, crashed>>

Starts ==
    /\ ~crashed /\ pc = "start"
    /\ pc' = "idle"
    /\ Start(DDNS_UPDATE_PERIOD)
    /\ UNCHANGED <<config, available, timerVars, outages>>

SetupCloses ==
    /\ ~crashed /\ pc = "check" /\ ~Wanted
    /\ pc' = "idle"
    /\ Close
    /\ UNCHANGED <<config, available, timerVars, outages, crashed>>

(* StreamServer.close                                                     *)
ServerCloses ==
    /\ ~crashed /\ pc = "idle"
    /\ pc' = "closed"
    /\ Close
    /\ UNCHANGED <<config, available, timerVars, outages, crashed>>

----------------------------------------------------------------------------
(* The thread of timer t: updateDDNS, which holds no monitor, and         *)
(* parseResult. By the bound, one timer always has no update under way.   *)

Updates(t) ==
    /\ ~crashed /\ t \in live /\ task[t] = "idle"
    /\ \E u \in Timer \ {t} : task[u] = "idle"
    /\ task' = [task EXCEPT ![t] = "updating"]
    /\ UNCHANGED <<config, available, pc, clientVars, period, outages, crashed>>

(* Success, a failure that is to be retried, or no answer at all          *)
GoesOn(t) ==
    /\ ~crashed /\ task[t] = "updating"
    /\ task' = [task EXCEPT ![t] = "idle"]
    /\ UNCHANGED <<config, available, pc, clientVars, period, outages, crashed>>

(* badauth and the other answers after which the client has to stop: it   *)
(* closes the timer there is now.                                         *)
IsRefused(t) ==
    /\ ~crashed /\ task[t] = "updating" /\ client = "generic"
    /\ task' = [task EXCEPT ![t] = "idle"]
    /\ Close
    /\ UNCHANGED <<config, available, pc, period, outages, crashed>>

(* 911: start(30 * 60, mPeriod). mPeriod is read first, and it is in      *)
(* milliseconds.                                                          *)
Outage(t) ==
    /\ ~crashed /\ task[t] = "updating" /\ client = "generic"
    /\ outages < MaxOutages
    /\ outages' = outages + 1
    /\ task' = [task EXCEPT ![t] = "restarting"]
    /\ period' = [period EXCEPT ![t] = mPeriod]
    /\ UNCHANGED <<config, available, pc, clientVars, crashed>>

Restarts(t) ==
    /\ ~crashed /\ task[t] = "restarting"
    /\ task' = [task EXCEPT ![t] = "idle"]
    /\ period' = [period EXCEPT ![t] = Seconds(0)]
    /\ Start(period[t])
    /\ UNCHANGED <<config, available, pc, outages>>

----------------------------------------------------------------------------
Application == FindsStarted \/ Starts \/ SetupCloses
TimerThread(t) == GoesOn(t) \/ IsRefused(t) \/ Outage(t) \/ Restarts(t)

(* The process has ended, or the server is closed and nothing is left.    *)
Ended ==
    /\ crashed \/ (pc = "closed" /\ live = {} /\ \A t \in Timer : task[t] = "idle")
    /\ UNCHANGED vars

Next ==
    \/ SetAvailable \/ ServerCloses \/ Application
    \/ \E t \in Timer : Updates(t) \/ TimerThread(t)
    \/ Ended

Spec == Init /\ [][Next]_vars

(* The application's thread runs, a timer that is not cancelled fires,    *)
(* and its thread runs: connections have a timeout.                       *)
FairSpec ==
    /\ Spec
    /\ WF_vars(Application)
    /\ \A t \in Timer : WF_vars(Updates(t)) /\ WF_vars(TimerThread(t))

----------------------------------------------------------------------------
(* Properties                                                             *)

(* However starts of the application and of the answers overlap, at most  *)
(* one timer is live, it is the client's, and mIsStarted says whether     *)
(* there is one.                                                          *)
OneTimer ==
    /\ live \subseteq {mTimer}
    /\ crashed \/ (mIsStarted <=> live # {})

(* The period grows a thousandfold with every answer 911; it takes five   *)
(* of them, half an hour apart, until the long wraps and schedule throws. *)
FourOutagesAreSurvived == crashed => outages >= 5

(* A client that is closed, with no update under way, performs none until *)
(* the application sets up a network.                                     *)
Quiet == ~mIsStarted /\ pc \in {"idle", "closed"} /\ \A t \in Timer : task[t] = "idle"
ClosedStaysQuiet == [][Quiet => Quiet' \/ pc' = "check"]_vars

(* A client that is started updates again, whoever has closed and         *)
(* restarted it before, unless it is closed.                              *)
Updating == \E t \in live : task[t] = "updating"
StartedUpdates == mIsStarted ~> (Updating \/ ~mIsStarted \/ crashed)

(* The period after so many starts of a chain, each but the first of an   *)
(* answer 911: it is positive five times.                                 *)
Grown ==
    LET p1 == Millis(DDNS_UPDATE_PERIOD)
        p2 == Millis(p1)
        p3 == Millis(p2)
        p4 == Millis(p3)
    IN <<p1, p2, p3, p4, Millis(p4)>>

GrownAtMost(x, n) == n > 5 \/ \E k \in 1..n : x = Grown[k]

(* A start of the application begins a new chain, at the first period,    *)
(* while an answer of the old one may still restart with a longer period: *)
(* the period has never grown more often than the service was out.        *)
PeriodFollowsOutages ==
    /\ crashed => outages >= 5
    /\ mTimer = NoTimer => \A t \in Timer : task[t] = "idle"
    /\ mTimer # NoTimer => crashed \/ GrownAtMost(mPeriod, outages + 1)
    /\ \A t \in Timer : task[t] = "restarting" => GrownAtMost(period[t], outages)

(* The inductive invariant.                                               *)
IInv == TypeOK /\ OneTimer /\ PeriodFollowsOutages
====
