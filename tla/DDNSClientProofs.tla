---- MODULE DDNSClientProofs ----
(***************************************************************************)
(* The DDNS client for any number of timers and outages: at most one timer *)
(* is ever live, and a client that is closed stays quiet.                  *)
(***************************************************************************)
EXTENDS DDNSClient, TLAPS

LEMMA MillisIsLong ==
  ASSUME NEW x \in Long
  PROVE  Millis(x) \in Long
  <1> DEFINE c1 == (x[1] * 1000 + 0) \div 65536
             c2 == (x[2] * 1000 + c1) \div 65536
             c3 == (x[3] * 1000 + c2) \div 65536
  <1>1. x[1] \in Int /\ x[2] \in Int /\ x[3] \in Int /\ x[4] \in Int
    BY DEF Long
  <1>2. Millis(x) = <<(x[1] * 1000) % 65536, (x[2] * 1000 + c1) % 65536,
                      (x[3] * 1000 + c2) % 65536, (x[4] * 1000 + c3) % 65536>>
    BY DEF Millis, Thousandfold, Word
  <1>3. c1 \in Int
    BY <1>1
  <1> HIDE DEF c1
  <1>4. c2 \in Int
    BY <1>1, <1>3
  <1> HIDE DEF c2
  <1>5. c3 \in Int
    BY <1>1, <1>4
  <1> HIDE DEF c3
  <1>6. /\ (x[1] * 1000) % 65536 \in Int /\ (x[2] * 1000 + c1) % 65536 \in Int
        /\ (x[3] * 1000 + c2) % 65536 \in Int /\ (x[4] * 1000 + c3) % 65536 \in Int
    BY <1>1, <1>3, <1>4, <1>5
  <1> QED
    BY <1>2, <1>6 DEF Long

LEMMA SecondsIsLong ==
  ASSUME NEW n \in Int
  PROVE  Seconds(n) \in Long
  BY DEF Seconds, Long

(* The periods of a chain, and that all five are positive.                *)
LEMMA GrownValues ==
  /\ Grown[1] = <<10176, 9, 0, 0>>
  /\ Grown[2] = <<17920, 9155, 0, 0>>
  /\ Grown[3] = <<28672, 45769, 139, 0>>
  /\ Grown[4] = <<32768, 25309, 8626, 2>>
  /\ Grown[5] = <<0, 12604, 41170, 2131>>
  <1>1. Millis(<<600, 0, 0, 0>>) = <<10176, 9, 0, 0>>
    BY DEF Millis, Thousandfold, Word
  <1>2. Millis(<<10176, 9, 0, 0>>) = <<17920, 9155, 0, 0>>
    BY DEF Millis, Thousandfold, Word
  <1>3. Millis(<<17920, 9155, 0, 0>>) = <<28672, 45769, 139, 0>>
    BY DEF Millis, Thousandfold, Word
  <1>4. Millis(<<28672, 45769, 139, 0>>) = <<32768, 25309, 8626, 2>>
    BY DEF Millis, Thousandfold, Word
  <1>5. Millis(<<32768, 25309, 8626, 2>>) = <<0, 12604, 41170, 2131>>
    BY DEF Millis, Thousandfold, Word
  <1> QED
    BY <1>1, <1>2, <1>3, <1>4, <1>5 DEF Grown, DDNS_UPDATE_PERIOD, Seconds

LEMMA GrownIsPositive ==
  ASSUME NEW k \in 1..5
  PROVE  Positive(Grown[k])
  <1>1. k = 1 \/ k = 2 \/ k = 3 \/ k = 4 \/ k = 5
    OBVIOUS
  <1> QED
    BY <1>1, GrownValues DEF Positive, Seconds, Word

LEMMA GrownGrows ==
  /\ Millis(DDNS_UPDATE_PERIOD) = Grown[1]
  /\ \A k \in 1..4 : Millis(Grown[k]) = Grown[k + 1]
  <1>1. /\ Millis(DDNS_UPDATE_PERIOD) = Grown[1] /\ Millis(Grown[1]) = Grown[2]
        /\ Millis(Grown[2]) = Grown[3] /\ Millis(Grown[3]) = Grown[4]
        /\ Millis(Grown[4]) = Grown[5]
    BY DEF Grown
  <1>2. ASSUME NEW k \in 1..4 PROVE k = 1 \/ k = 2 \/ k = 3 \/ k = 4
    OBVIOUS
  <1> QED
    BY <1>1, <1>2

(* What close and start do to the client's variables.                     *)
ClientTypeOK ==
  /\ mTimer \in Timer \cup {NoTimer}
  /\ mPeriod \in Long
  /\ mIsStarted \in BOOLEAN
  /\ live \in SUBSET Timer
  /\ crashed \in BOOLEAN

LEMMA CloseKeepsOneTimer ==
  ASSUME ClientTypeOK, OneTimer, ~crashed, Close, crashed' = crashed
  PROVE  ClientTypeOK' /\ OneTimer' /\ live' = {} /\ mIsStarted' = FALSE
  <1>1. live' = {}
    BY DEF Close, Cancelled, OneTimer
  <1>2. mTimer = NoTimer => mIsStarted = FALSE
    BY TimerAssumption DEF OneTimer, ClientTypeOK
  <1>3. mIsStarted' = FALSE
    BY <1>2 DEF Close, ClearsFlag, ClientTypeOK
  <1> QED
    BY <1>1, <1>3 DEF Close, ClientTypeOK, OneTimer

LEMMA StartKeepsOneTimer ==
  ASSUME ClientTypeOK, OneTimer, ~crashed, NEW p \in Long, Start(p)
  PROVE  ClientTypeOK' /\ OneTimer'
  <1>1. PICK t \in Unused :
          /\ mTimer' = t
          /\ mPeriod' = Millis(p)
          /\ IF Positive(mPeriod')
               THEN live' = Cancelled \cup {t} /\ mIsStarted' = TRUE /\ crashed' = crashed
               ELSE live' = Cancelled /\ mIsStarted' = ClearsFlag /\ crashed' = TRUE
    BY DEF Start
  <1>2. t \in Timer /\ Cancelled = {} /\ mPeriod' \in Long
    BY <1>1, MillisIsLong DEF Unused, Cancelled, OneTimer
  <1>3. mTimer' \in Timer \cup {NoTimer} /\ mPeriod' \in Long
    BY <1>1, <1>2
  <1>4. CASE Positive(mPeriod')
    <2>1. live' = {t} /\ mIsStarted' = TRUE /\ crashed' = crashed
      BY <1>1, <1>2, <1>4
    <2> QED
      BY <1>1, <1>2, <1>3, <2>1 DEF ClientTypeOK, OneTimer
  <1>5. CASE ~Positive(mPeriod')
    <2>1. live' = {} /\ mIsStarted' = ClearsFlag /\ crashed' = TRUE
      BY <1>1, <1>2, <1>5
    <2>2. ClearsFlag \in BOOLEAN
      BY DEF ClearsFlag
    <2> QED
      BY <1>3, <2>1, <2>2 DEF ClientTypeOK, OneTimer
  <1> QED
    BY <1>4, <1>5

LEMMA InitInv == Init => IInv
  <1> SUFFICES ASSUME Init PROVE IInv
    OBVIOUS
  <1>1. Seconds(0) \in Long
    BY SecondsIsLong
  <1>2. outages \in Nat
    BY DEF Init
  <1>3. TypeOK
    BY <1>1, <1>2 DEF Init, TypeOK
  <1>4. OneTimer
    BY DEF Init, OneTimer
  <1>5. PeriodFollowsOutages
    BY DEF Init, PeriodFollowsOutages
  <1> QED
    BY <1>3, <1>4, <1>5 DEF IInv

(* One step of anybody keeps the types, and the one timer.                *)
LEMMA NextOneTimer == IInv /\ [Next]_vars => TypeOK' /\ OneTimer'
  <1> SUFFICES ASSUME IInv, [Next]_vars PROVE TypeOK' /\ OneTimer'
    OBVIOUS
  <1>1. ClientTypeOK /\ OneTimer /\ Seconds(0) \in Long /\ DDNS_UPDATE_PERIOD \in Long
    BY SecondsIsLong DEF IInv, TypeOK, ClientTypeOK, DDNS_UPDATE_PERIOD
  <1>2. ASSUME UNCHANGED <<clientVars, crashed>> PROVE ClientTypeOK' /\ OneTimer'
    BY <1>1, <1>2 DEF clientVars, ClientTypeOK, OneTimer
  <1>3. ASSUME ClientTypeOK', OneTimer', UNCHANGED config,
               available' \in SUBSET Network, pc' \in {"idle", "check", "start", "closed"},
               task' \in [Timer -> {"idle", "updating", "restarting"}],
               period' \in [Timer -> Long], outages' \in Nat
        PROVE  TypeOK' /\ OneTimer'
    BY <1>3 DEF config, IInv, TypeOK, ClientTypeOK
  <1>4. /\ available \in SUBSET Network /\ pc \in {"idle", "check", "start", "closed"}
        /\ task \in [Timer -> {"idle", "updating", "restarting"}]
        /\ period \in [Timer -> Long] /\ outages \in Nat
    BY DEF IInv, TypeOK
  <1>5. CASE UNCHANGED vars
    BY <1>2, <1>3, <1>4, <1>5 DEF vars, timerVars
  <1>6. CASE SetAvailable
    BY <1>2, <1>3, <1>4, <1>6 DEF SetAvailable, timerVars
  <1>7. CASE FindsStarted
    BY <1>2, <1>3, <1>4, <1>7 DEF FindsStarted, timerVars
  <1>8. CASE Starts
    <2>1. ClientTypeOK' /\ OneTimer'
      BY <1>1, <1>8, StartKeepsOneTimer DEF Starts
    <2> QED
      BY <1>3, <1>4, <1>8, <2>1 DEF Starts, timerVars
  <1>9. CASE SetupCloses \/ ServerCloses
    <2>1. ClientTypeOK' /\ OneTimer'
      BY <1>1, <1>9, CloseKeepsOneTimer DEF SetupCloses, ServerCloses
    <2> QED
      BY <1>3, <1>4, <1>9, <2>1 DEF SetupCloses, ServerCloses, timerVars
  <1>10. ASSUME NEW t \in Timer, Updates(t) \/ TimerThread(t) PROVE TypeOK' /\ OneTimer'
    <2>1. CASE Updates(t) \/ GoesOn(t)
      BY <1>2, <1>3, <1>4, <2>1 DEF Updates, GoesOn
    <2>2. CASE IsRefused(t)
      <3>1. ClientTypeOK' /\ OneTimer'
        BY <1>1, <2>2, CloseKeepsOneTimer DEF IsRefused
      <3> QED
        BY <1>3, <1>4, <2>2, <3>1 DEF IsRefused
    <2>3. CASE Outage(t)
      <3>1. period' \in [Timer -> Long] /\ outages' \in Nat
        BY <1>1, <1>4, <2>3 DEF Outage, ClientTypeOK
      <3> QED
        BY <1>2, <1>3, <1>4, <2>3, <3>1 DEF Outage
    <2>4. CASE Restarts(t)
      <3>1. period[t] \in Long /\ period' \in [Timer -> Long]
        BY <1>1, <1>4, <2>4 DEF Restarts
      <3>2. ClientTypeOK' /\ OneTimer'
        BY <1>1, <2>4, <3>1, StartKeepsOneTimer DEF Restarts
      <3> QED
        BY <1>3, <1>4, <2>4, <3>1, <3>2 DEF Restarts
    <2> QED
      BY <1>10, <2>1, <2>2, <2>3, <2>4 DEF TimerThread
  <1> QED
    BY <1>5, <1>6, <1>7, <1>8, <1>9, <1>10 DEF Next, Application, Ended

(* What a start with the application's period, or with one that an answer *)
(* has read, does to the period; the fifth answer of a chain may crash it. *)
LEMMA StartGrowsPeriod ==
  ASSUME IInv, ~crashed, NEW p \in Long, Start(p),
         p = DDNS_UPDATE_PERIOD \/ GrownAtMost(p, outages)
  PROVE  /\ mTimer' \in Timer
         /\ crashed' => outages >= 5
         /\ crashed' \/ GrownAtMost(mPeriod', outages + 1)
  <1>1. PICK t \in Unused :
          /\ mTimer' = t
          /\ mPeriod' = Millis(p)
          /\ IF Positive(mPeriod')
               THEN live' = Cancelled \cup {t} /\ mIsStarted' = TRUE /\ crashed' = crashed
               ELSE live' = Cancelled /\ mIsStarted' = ClearsFlag /\ crashed' = TRUE
    BY DEF Start
  <1>2. t \in Timer /\ outages \in Nat
    BY DEF Unused, IInv, TypeOK
  <1>3. CASE outages >= 5
    BY <1>1, <1>2, <1>3 DEF GrownAtMost
  <1>4. CASE ~(outages >= 5)
    <2>1. \E k \in 1..(outages + 1) : Millis(p) = Grown[k]
      <3>1. CASE p = DDNS_UPDATE_PERIOD
        <4>1. 1 \in 1..(outages + 1)
          BY <1>2
        <4> QED
          BY <3>1, <4>1, GrownGrows
      <3>2. CASE GrownAtMost(p, outages)
        <4>1. PICK k \in 1..outages : p = Grown[k]
          BY <1>2, <1>4, <3>2 DEF GrownAtMost
        <4>2. k \in 1..4 /\ k + 1 \in 1..(outages + 1)
          BY <1>2, <1>4
        <4> QED
          BY <4>1, <4>2, GrownGrows
      <3> QED
        BY <3>1, <3>2
    <2>2. PICK k \in 1..(outages + 1) : Millis(p) = Grown[k]
      BY <2>1
    <2>3. k \in 1..5
      BY <1>2, <1>4
    <2>4. Positive(mPeriod')
      BY <1>1, <2>2, <2>3, GrownIsPositive
    <2> QED
      BY <1>1, <1>2, <2>2, <2>4 DEF GrownAtMost
  <1> QED
    BY <1>3, <1>4

(* One step of anybody keeps the period behind the outages.               *)
LEMMA NextPeriod == IInv /\ [Next]_vars => PeriodFollowsOutages'
  <1> SUFFICES ASSUME IInv, [Next]_vars PROVE PeriodFollowsOutages'
    OBVIOUS
  <1>1. PeriodFollowsOutages /\ outages \in Nat /\ live \subseteq {mTimer}
    BY DEF IInv, TypeOK, OneTimer
  <1>2. DDNS_UPDATE_PERIOD \in Long
    BY SecondsIsLong DEF DDNS_UPDATE_PERIOD
  <1>3. task \in [Timer -> {"idle", "updating", "restarting"}] /\ period \in [Timer -> Long]
    BY DEF IInv, TypeOK
  <1>4. ASSUME UNCHANGED <<mTimer, mPeriod, timerVars, outages, crashed>>
        PROVE  PeriodFollowsOutages'
    BY <1>1, <1>4 DEF PeriodFollowsOutages, GrownAtMost, Grown, timerVars
  <1>5. CASE UNCHANGED vars \/ SetAvailable \/ FindsStarted
    BY <1>4, <1>5 DEF vars, clientVars, SetAvailable, FindsStarted
  <1>6. CASE SetupCloses \/ ServerCloses
    BY <1>4, <1>6 DEF SetupCloses, ServerCloses, Close
  <1>7. CASE Starts
    <2>1. ~crashed /\ Start(DDNS_UPDATE_PERIOD) /\ UNCHANGED <<timerVars, outages>>
      BY <1>7 DEF Starts
    <2>2. /\ mTimer' \in Timer
          /\ crashed' => outages >= 5
          /\ crashed' \/ GrownAtMost(mPeriod', outages + 1)
      BY <1>2, <2>1, StartGrowsPeriod
    <2> QED
      BY <1>1, <2>1, <2>2, TimerAssumption DEF PeriodFollowsOutages, GrownAtMost, Grown, timerVars
  <1>8. ASSUME NEW t \in Timer, Updates(t) PROVE PeriodFollowsOutages'
    <2>1. t = mTimer /\ task' = [task EXCEPT ![t] = "updating"]
          /\ UNCHANGED <<mTimer, mPeriod, period, outages, crashed>>
      BY <1>1, <1>8 DEF Updates, clientVars
    <2>2. \A u \in Timer : task'[u] = "restarting" => task[u] = "restarting"
      BY <1>3, <2>1
    <2> QED
      BY <1>1, <2>1, <2>2, TimerAssumption DEF PeriodFollowsOutages, GrownAtMost, Grown
  <1>9. ASSUME NEW t \in Timer, GoesOn(t) \/ IsRefused(t) PROVE PeriodFollowsOutages'
    <2>1. task' = [task EXCEPT ![t] = "idle"]
          /\ UNCHANGED <<mTimer, mPeriod, period, outages, crashed>>
      BY <1>9 DEF GoesOn, IsRefused, Close, clientVars
    <2>2. \A u \in Timer : /\ task'[u] = "restarting" => task[u] = "restarting"
                           /\ task[u] = "idle" => task'[u] = "idle"
      BY <1>3, <2>1
    <2> QED
      BY <1>1, <2>1, <2>2 DEF PeriodFollowsOutages, GrownAtMost, Grown
  <1>10. ASSUME NEW t \in Timer, Outage(t) PROVE PeriodFollowsOutages'
    <2>1. /\ ~crashed /\ mTimer # NoTimer
          /\ outages' = outages + 1
          /\ task' = [task EXCEPT ![t] = "restarting"]
          /\ period' = [period EXCEPT ![t] = mPeriod]
          /\ UNCHANGED <<mTimer, mPeriod, crashed>>
      BY <1>1, <1>10 DEF Outage, clientVars, PeriodFollowsOutages
    <2>2. \A x, n : n \in Nat /\ GrownAtMost(x, n) => GrownAtMost(x, n + 1)
      BY DEF GrownAtMost
    <2>3. GrownAtMost(mPeriod, outages') /\ GrownAtMost(mPeriod, outages' + 1)
      BY <1>1, <2>1, <2>2 DEF PeriodFollowsOutages
    <2>4. ASSUME NEW u \in Timer, task'[u] = "restarting"
          PROVE  GrownAtMost(period'[u], outages')
      <3>1. CASE u = t
        BY <1>3, <2>1, <2>3, <3>1
      <3>2. CASE u # t
        BY <1>1, <1>3, <2>1, <2>2, <2>4, <3>2 DEF PeriodFollowsOutages
      <3> QED
        BY <3>1, <3>2
    <2> QED
      BY <1>1, <2>1, <2>3, <2>4 DEF PeriodFollowsOutages, GrownAtMost, Grown
  <1>11. ASSUME NEW t \in Timer, Restarts(t) PROVE PeriodFollowsOutages'
    <2>1. /\ ~crashed /\ Start(period[t])
          /\ task' = [task EXCEPT ![t] = "idle"]
          /\ period' = [period EXCEPT ![t] = Seconds(0)]
          /\ outages' = outages
      BY <1>11 DEF Restarts
    <2>2. GrownAtMost(period[t], outages) /\ period[t] \in Long
      BY <1>1, <1>3, <1>11 DEF Restarts, PeriodFollowsOutages
    <2>3. /\ mTimer' \in Timer
          /\ crashed' => outages >= 5
          /\ crashed' \/ GrownAtMost(mPeriod', outages + 1)
      BY <2>1, <2>2, StartGrowsPeriod
    <2>4. \A u \in Timer : task'[u] = "restarting" => task[u] = "restarting" /\ period'[u] = period[u]
      BY <1>3, <2>1
    <2> QED
      BY <1>1, <2>1, <2>3, <2>4, TimerAssumption DEF PeriodFollowsOutages, GrownAtMost, Grown
  <1> QED
    BY <1>5, <1>6, <1>7, <1>8, <1>9, <1>10, <1>11 DEF Next, Application, TimerThread, Ended

(* The inductive invariant of the client: one step of anybody keeps it.   *)
LEMMA NextInv == IInv /\ [Next]_vars => IInv'
  BY NextOneTimer, NextPeriod DEF IInv

THEOREM Invariance == Spec => []IInv
  BY InitInv, NextInv, PTL DEF Spec

(* At most one timer is live, whoever starts and closes the client, and   *)
(* the flag that setupDDNSClient asks for tells whether there is one.     *)
THEOREM AtMostOneTimer == Spec => []OneTimer
  <1>1. IInv => OneTimer
    BY DEF IInv
  <1> QED
    BY <1>1, Invariance, PTL

(* Five answers 911 have to come before the period wraps and schedule     *)
(* throws, with whatever starts of the application in between.            *)
THEOREM SurvivesFourOutages == Spec => []FourOutagesAreSurvived
  <1>1. IInv => FourOutagesAreSurvived
    BY DEF IInv, PeriodFollowsOutages, FourOutagesAreSurvived
  <1> QED
    BY <1>1, Invariance, PTL

(* A client that is closed while no update is under way performs none     *)
(* until the application sets up a network.                               *)
THEOREM NoUpdateAfterClose == Spec => ClosedStaysQuiet
  <1>1. IInv /\ [Next]_vars => [Quiet => Quiet' \/ pc' = "check"]_vars
    <2> SUFFICES ASSUME IInv, Next, Quiet, pc' # "check" PROVE Quiet'
      OBVIOUS
    <2>1. live = {} \/ crashed
      BY DEF IInv, OneTimer, Quiet
    <2>2. ~SetAvailable /\ ~Application
      BY DEF SetAvailable, Application, FindsStarted, Starts, SetupCloses, Quiet
    <2>3. \A t \in Timer : ~Updates(t) /\ ~TimerThread(t)
      BY <2>1 DEF Updates, TimerThread, GoesOn, IsRefused, Outage, Restarts, Quiet
    <2>4. CASE ServerCloses
      BY <2>4 DEF ServerCloses, Close, ClearsFlag, Quiet, timerVars
    <2>5. CASE Ended
      BY <2>5 DEF Ended, vars, clientVars, timerVars, Quiet
    <2> QED
      BY <2>2, <2>3, <2>4, <2>5 DEF Next
  <1> QED
    BY <1>1, Invariance, PTL DEF Spec, ClosedStaysQuiet
====
