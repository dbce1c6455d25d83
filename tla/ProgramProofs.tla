---------------------------- MODULE ProgramProofs ----------------------------
(* The user programs, for any size of the panel, number of writers, readers  *)
(* and threads, any values and any keys.  Each part proves an inductive      *)
(* invariant of one module of MCDemos or MCPrograms; the end puts them       *)
(* together.                                                                 *)
EXTENDS MCPrograms, SequenceTheorems, TLAPS

-----------------------------------------------------------------------------
(* The log of the thread demonstrations *)

LogPlaces == {"run", "make", "return", "lock", "line"}

\* One makes the log, and from then on every thread uses that one.
OneLog ==
  /\ \A t, u \in LogThreads : Log!At(t, "make") /\ Log!At(u, "make") => t = u
  /\ (log_ = NoLog \/ \E t \in LogThreads : Log!At(t, "make")) =>
       log_ = NoLog /\ \A t \in LogThreads : logPc[t] \in {"run", "make"}
  /\ \A t \in LogThreads : logPc[t] \in {"lock", "line"} => logMine[t] = log_
  /\ \A t \in LogThreads : Log!At(t, "line") => log_ \in held
  /\ \A t, u \in LogThreads : Log!At(t, "line") /\ Log!At(u, "line") => t = u

LogInv ==
  /\ logPc \in [LogThreads -> LogPlaces] /\ logMine \in [LogThreads -> LogThreads \union {NoLog}]
  /\ log_ \in LogThreads \union {NoLog} /\ raced \in BOOLEAN
  /\ raced \/ OneLog

LEMMA LogInit == Log!LogAssumption /\ Log!Init => LogInv
  BY DEF Log!Init, LogInv, LogPlaces, OneLog, Log!At

LEMMA LogTypeNext ==
  ASSUME LogInv, NEW t \in LogThreads,
         Log!Check(t) \/ Log!Make(t) \/ Log!Return(t) \/ Log!Lock(t) \/ Log!LineOut(t)
  PROVE  /\ logPc' \in [LogThreads -> LogPlaces]
            /\ logMine' \in [LogThreads -> LogThreads \union {NoLog}]
         /\ raced' \in BOOLEAN /\ log_' \in LogThreads \union {NoLog}
<1> USE DEF LogInv, LogPlaces, Log!Goto, Log!At
<1>1. CASE Log!Check(t)
  <2>1. raced' \in BOOLEAN
    BY <1>1 DEF Log!Check
  <2>2. logPc' \in [LogThreads -> LogPlaces]
    BY <1>1 DEF Log!Check
  <2> QED
    BY <1>1, <2>1, <2>2 DEF Log!Check
<1>2. CASE Log!Make(t)
  BY <1>2 DEF Log!Make
<1>3. CASE Log!Return(t)
  BY <1>3 DEF Log!Return
<1>4. CASE Log!Lock(t)
  BY <1>4 DEF Log!Lock
<1>5. CASE Log!LineOut(t)
  BY <1>5 DEF Log!LineOut
<1> QED
  BY <1>1, <1>2, <1>3, <1>4, <1>5

LEMMA LogStep ==
  ASSUME Log!LogAssumption, LogInv, ~raced', NEW t \in LogThreads,
         Log!Check(t) \/ Log!Make(t) \/ Log!Return(t) \/ Log!Lock(t) \/ Log!LineOut(t)
  PROVE  OneLog'
<1> USE DEF LogInv, LogPlaces, Log!Goto, Log!At, OneLog
<1>1. ~raced /\ OneLog
  BY DEF Log!Check, Log!Make, Log!Return, Log!Lock, Log!LineOut
<1>2. logPc' = [logPc EXCEPT ![t] = logPc'[t]]
  BY DEF Log!Check, Log!Make, Log!Return, Log!Lock, Log!LineOut
<1>3. \A u \in LogThreads : u # t => logPc'[u] = logPc[u]
  BY <1>2
<1>4. CASE Log!Check(t)
  <2>1. UNCHANGED <<log_, logMine, held>> /\ logPc[t] = "run" /\ logPc'[t] = IF log_ = NoLog
                                                                             THEN "make"
                                                                             ELSE "return"
    BY <1>4 DEF Log!Check
  <2>2. log_ = NoLog => \A u \in LogThreads : ~Log!At(u, "make")
    BY <1>4 DEF Log!Check
  <2> QED
    BY <1>1, <1>3, <2>1, <2>2
<1>5. CASE Log!Make(t)
  <2>1. logPc[t] = "make" /\ log_' = t /\ logPc'[t] = "return" /\ t # NoLog
    BY <1>5 DEF Log!Make, Log!LogAssumption
  <2>2. \A u \in LogThreads : logPc'[u] \in {"run", "return"}
    BY <1>1, <1>3, <2>1
  <2> QED
    BY <2>1, <2>2
<1>6. CASE Log!Return(t)
  <2>1. logPc[t] = "return" /\ logPc'[t] = "lock" /\ UNCHANGED <<log_, held>>
        /\ logMine' = [logMine EXCEPT ![t] = log_]
    BY <1>6 DEF Log!Return
  <2> QED
    BY <1>1, <1>3, <2>1
<1>7. CASE Log!Lock(t)
  <2>1. /\ logPc[t] = "lock" /\ logPc'[t] = "line" /\ UNCHANGED <<log_, logMine>>
        /\ held' = held \union {logMine[t]} /\ logMine[t] \notin held
    BY <1>7 DEF Log!Lock
  <2>2. logMine[t] = log_ /\ \A u \in LogThreads : ~Log!At(u, "line")
    BY <1>1, <2>1
  <2> QED
    BY <1>1, <1>3, <2>1, <2>2
<1>8. CASE Log!LineOut(t)
  <2>1. /\ logPc[t] = "line" /\ logPc'[t] = "run" /\ UNCHANGED <<log_, logMine>>
    BY <1>8 DEF Log!LineOut
  <2>2. \A u \in LogThreads : logPc'[u] # "line"
    BY <1>1, <1>3, <2>1
  <2> QED
    BY <1>1, <1>3, <2>1, <2>2
<1> QED
  BY <1>4, <1>5, <1>6, <1>7, <1>8

LEMMA LogNext == Log!LogAssumption /\ LogInv /\ [Log!Next]_logVars => LogInv'
<1> SUFFICES ASSUME Log!LogAssumption, LogInv, [Log!Next]_logVars PROVE LogInv'
  OBVIOUS
<1>1. CASE UNCHANGED logVars
  BY <1>1 DEF logVars, LogInv, OneLog, Log!At
<1>2. CASE Log!Next
  <2>1. PICK t \in LogThreads : Log!Check(t) \/ Log!Make(t) \/ Log!Return(t) \/ Log!Lock(t)
        \/ Log!LineOut(t)
    BY <1>2 DEF Log!Next
  <2>2. raced' \/ OneLog'
    BY <2>1, LogStep
  <2> QED
    BY <2>1, <2>2, LogTypeNext DEF LogInv
<1> QED
  BY <1>1, <1>2

LEMMA LogSafe == LogInv => Log!LinesApart
  BY DEF LogInv, OneLog, Log!LinesApart

-----------------------------------------------------------------------------
(* The threads of the scheduler demonstration *)

SchedPlaces == {"none", "start", "niceness", "run", "end"}

\* main() asks for one niceness after the other, each no less than those before.
Ascending ==
  /\ Len(MCAsked) \in Nat \ {0}
  /\ \A s, t \in Sched!Threads : s <= t /\ Sched!IsCFS(s) /\ Sched!IsCFS(t)
     => MCAsked[s].priority <= MCAsked[t].priority

\* What a thread of either kind has been given so far
CFSGiven(t) ==
  /\ schedPc[t] \in {"start", "niceness"} => schedRoot \/ nice[t] <= MCAsked[t].priority
  /\ schedPc[t] \in {"niceness", "run", "end"} => policy[t] = MCAsked[t].policy
  /\ schedPc[t] \in {"run", "end"} => nice[t] = MCAsked[t].priority
RealtimeGiven(t) ==
  /\ schedPc[t] # "niceness"
  /\ IF schedRoot
     THEN schedPc[t] \in {"run", "end"} => policy[t] = MCAsked[t].policy
     /\ priority[t] = MCAsked[t].priority
             ELSE policy[t] = "SCHED_OTHER" /\ (schedPc[t] # "none" => nice[t] <= mainNice)

\* Without root the niceness of main has not passed that of a thread still to make.
MainBehind ==
  ~schedRoot /\ mpc = "create" => \A t \in Sched!Threads : t >= schedNext /\ Sched!IsCFS(t)
    => mainNice <= MCAsked[t].priority

SchedType ==
  /\ schedRoot \in BOOLEAN /\ mpc \in {"create", "join", "end"} /\ schedNext \in Sched!Threads
  /\ schedPc \in [Sched!Threads -> SchedPlaces]
  /\ mainNice \in Nat /\ nice \in [Sched!Threads -> Nat]
  /\ policy \in [Sched!Threads -> Sched!CFS \union {"SCHED_FIFO", "SCHED_RR"}]
     /\ priority \in [Sched!Threads -> Nat]

SchedInv ==
  /\ SchedType /\ MainBehind
  /\ \A t \in Sched!Threads : IF Sched!IsCFS(t) THEN CFSGiven(t) ELSE RealtimeGiven(t)

LEMMA SchedInit == Sched!SchedAssumption /\ Ascending /\ Sched!Init => SchedInv
  BY DEF Sched!Init, SchedInv, SchedType, SchedPlaces, MainBehind, CFSGiven, RealtimeGiven,
     Sched!Threads,
     Sched!SchedAssumption, Ascending, Sched!CFS

\* Who is next, and whether main still makes threads
LEMMA AdvanceFacts ==
  ASSUME Ascending, schedNext \in Sched!Threads, mpc \in {"create", "join", "end"}, Sched!Advance
  PROVE  /\ schedNext' \in Sched!Threads /\ mpc' \in {"create", "join", "end"}
         /\ mpc' = "create" => mpc = "create" /\ schedNext' = schedNext + 1
  BY DEF Sched!Advance, Ascending, Sched!Threads

LEMMA SchedNext == Sched!SchedAssumption /\ Ascending /\ SchedInv /\ [Sched!Next]_schedVars
                   => SchedInv'
<1> SUFFICES ASSUME Sched!SchedAssumption, Ascending, SchedInv, [Sched!Next]_schedVars
             PROVE SchedInv'
  OBVIOUS
<1> USE DEF Sched!Goto, Sched!At
<1>0. /\ SchedType /\ MainBehind
      /\ \A t \in Sched!Threads : IF Sched!IsCFS(t) THEN CFSGiven(t) ELSE RealtimeGiven(t)
      /\ \A t \in Sched!Threads : /\ MCAsked[t].policy \in Sched!CFS \union {"SCHED_FIFO",
                                                                             "SCHED_RR"}
                                  /\ MCAsked[t].priority \in Nat
      /\ Sched!Threads \subseteq Nat
  BY DEF SchedInv, Sched!SchedAssumption, Sched!Threads
<1>a. UNCHANGED schedRoot
  BY DEF Sched!Next, schedVars, Sched!Create, Sched!Construct, Sched!Join, Sched!SetPolicy,
     Sched!SetNiceness, Sched!Finish
<1>1. CASE Sched!Create
  <2>1. /\ mpc = "create" /\ schedPc[schedNext] = "none"
           /\ schedPc' = [schedPc EXCEPT ![schedNext] = "start"]
        /\ nice' = [nice EXCEPT ![schedNext] = mainNice]
        /\ (Sched!Advance \/ UNCHANGED <<mpc, schedNext>>)
        /\ UNCHANGED <<schedRoot, mainNice, policy, priority>>
    BY <1>1 DEF Sched!Create
  <2>2. /\ schedNext' \in Sched!Threads /\ mpc' \in {"create", "join", "end"}
        /\ mpc' = "create" => mpc = "create" /\ schedNext' >= schedNext
    BY <1>0, <2>1, AdvanceFacts DEF SchedType
  <2>3. SchedType'
    BY <1>0, <2>1, <2>2 DEF SchedType, SchedPlaces
  <2>4. MainBehind'
    <3>1. schedNext \in Nat /\ schedNext' \in Nat
      BY <1>0, <2>2 DEF SchedType
    <3> QED
      BY <1>0, <2>1, <2>2, <3>1 DEF MainBehind, Sched!IsCFS
  <2>5. ASSUME NEW t \in Sched!Threads
        PROVE (IF Sched!IsCFS(t) THEN CFSGiven(t) ELSE RealtimeGiven(t))'
    <3>1. CASE t # schedNext
      <4>1. schedPc'[t] = schedPc[t] /\ nice'[t] = nice[t]
        BY <1>0, <2>1, <3>1 DEF SchedType
      <4> QED
        BY <1>0, <2>1, <4>1 DEF CFSGiven, RealtimeGiven, Sched!IsCFS
    <3>2. CASE t = schedNext
      <4>1. schedPc'[t] = "start" /\ nice'[t] = mainNice
        BY <1>0, <2>1, <3>2 DEF SchedType
      <4>2. Sched!IsCFS(t) => schedRoot \/ mainNice <= MCAsked[t].priority
        BY <1>0, <2>1, <3>2 DEF MainBehind, SchedType
      <4>3. mainNice <= mainNice
        BY <1>0 DEF SchedType
      <4> QED
        BY <1>0, <2>1, <4>1, <4>2, <4>3 DEF CFSGiven, RealtimeGiven, Sched!IsCFS
    <3> QED
      BY <3>1, <3>2
  <2> QED
    BY <2>3, <2>4, <2>5 DEF SchedInv
<1>2. CASE Sched!Construct
  <2>1. mpc = "create" /\ schedPc[schedNext] # "none" /\ Sched!Advance /\ UNCHANGED <<schedRoot,
                                                                                      schedPc,
                                                                                      nice>>
    BY <1>2 DEF Sched!Construct
  <2>2. /\ schedNext' \in Sched!Threads /\ mpc' \in {"create", "join", "end"}
        /\ mpc' = "create" => mpc = "create" /\ schedNext' = schedNext + 1
    BY <1>0, <2>1, AdvanceFacts DEF SchedType
  <2>3. CASE Sched!IsCFS(schedNext)
    <3>1. mainNice' = Sched!Renice(mainNice, MCAsked[schedNext].priority) /\ UNCHANGED <<policy,
                                                                                         priority>>
      BY <1>2, <2>3 DEF Sched!Construct
    <3>2. SchedType'
      BY <1>0, <2>1, <2>2, <3>1 DEF SchedType, Sched!Renice
    <3>3. ~schedRoot => mainNice <= mainNice'
      BY <1>0, <3>1 DEF Sched!Renice, SchedType
    <3>4. MainBehind'
      <4> SUFFICES ASSUME ~schedRoot, mpc' = "create", NEW t \in Sched!Threads, t >= schedNext',
                          Sched!IsCFS(t)
                   PROVE  mainNice' <= MCAsked[t].priority
        BY <2>1 DEF MainBehind, Sched!IsCFS
      <4>1. t > schedNext /\ t \in Nat /\ schedNext \in Nat
        BY <1>0, <2>2 DEF SchedType
      <4>2. MCAsked[schedNext].priority <= MCAsked[t].priority
        BY <1>0, <2>3, <4>1 DEF Ascending, SchedType
      <4>3. mainNice <= MCAsked[t].priority
        BY <1>0, <2>1, <4>1 DEF MainBehind
      <4> QED
        BY <1>0, <3>1, <4>2, <4>3 DEF Sched!Renice
    <3>5. ASSUME NEW t \in Sched!Threads
          PROVE (IF Sched!IsCFS(t) THEN CFSGiven(t) ELSE RealtimeGiven(t))'
      <4>1. ~schedRoot /\ nice[t] <= mainNice => nice[t] <= mainNice'
        <5>1. nice[t] \in Nat /\ mainNice \in Nat /\ mainNice' \in Nat
          BY <1>0, <3>2 DEF SchedType
        <5> QED
          BY <3>3, <5>1
      <4> QED
        BY <1>0, <2>1, <3>1, <4>1 DEF CFSGiven, RealtimeGiven, Sched!IsCFS
    <3> QED
      BY <3>2, <3>4, <3>5 DEF SchedInv
  <2>4. CASE ~Sched!IsCFS(schedNext)
    <3>1. Sched!SetRealtime(schedNext) /\ UNCHANGED mainNice
      BY <1>2, <2>4 DEF Sched!Construct
    <3>2. SchedType'
      BY <1>0, <2>1, <2>2, <3>1 DEF SchedType, Sched!SetRealtime
    <3>3. MainBehind'
      <4>1. schedNext \in Nat /\ schedNext' \in Nat
        BY <1>0, <3>2 DEF SchedType
      <4>2. ASSUME ~schedRoot, mpc' = "create", NEW t \in Sched!Threads, t >= schedNext',
                   Sched!IsCFS(t)
            PROVE  mainNice <= MCAsked[t].priority
        <5>1. t >= schedNext /\ mpc = "create"
          BY <1>0, <2>2, <4>1, <4>2
        <5> QED
          BY <1>0, <4>2, <5>1 DEF MainBehind
      <4> QED
        BY <2>1, <3>1, <4>2 DEF MainBehind, Sched!IsCFS
    <3>4. ASSUME NEW t \in Sched!Threads
          PROVE (IF Sched!IsCFS(t) THEN CFSGiven(t) ELSE RealtimeGiven(t))'
      <4>1. CASE t # schedNext \/ ~schedRoot
        <5>1. policy'[t] = policy[t] /\ priority'[t] = priority[t]
          BY <1>0, <3>1, <4>1 DEF Sched!SetRealtime, SchedType
        <5> QED
          BY <1>0, <2>1, <3>1, <5>1 DEF CFSGiven, RealtimeGiven, Sched!IsCFS
      <4>2. CASE t = schedNext /\ schedRoot
        <5>1. policy'[t] = MCAsked[t].policy /\ priority'[t] = MCAsked[t].priority
          BY <1>0, <3>1, <4>2 DEF Sched!SetRealtime, SchedType
        <5> QED
          BY <1>0, <2>1, <2>4, <4>2, <5>1 DEF RealtimeGiven, Sched!IsCFS
      <4> QED
        BY <4>1, <4>2
    <3> QED
      BY <3>2, <3>3, <3>4 DEF SchedInv
  <2> QED
    BY <2>3, <2>4
<1>3. CASE Sched!Join
  <2>1. /\ mpc = "join" /\ Sched!Advance /\ UNCHANGED <<schedRoot, schedPc, mainNice, nice,
                                                        policy, priority>>
    BY <1>3 DEF Sched!Join
  <2>2. /\ schedNext' \in Sched!Threads /\ mpc' \in {"create", "join", "end"} /\ mpc' # "create"
    BY <1>0, <2>1, AdvanceFacts DEF SchedType
  <2> QED
    BY <1>0, <2>1, <2>2 DEF SchedInv, SchedType, MainBehind, CFSGiven, RealtimeGiven, Sched!IsCFS
<1>4. ASSUME NEW s \in Sched!Threads, Sched!SetPolicy(s) PROVE SchedInv'
  <2>1. /\ schedPc[s] = "start" /\ UNCHANGED <<schedRoot, mpc, schedNext, mainNice, nice>>
        /\ schedPc' = [schedPc EXCEPT ![s] = IF Sched!IsCFS(s) THEN "niceness" ELSE "run"]
        /\ IF Sched!IsCFS(s)
           THEN policy' = [policy EXCEPT ![s] = MCAsked[s].policy] /\ UNCHANGED priority
                       ELSE Sched!SetRealtime(s)
    BY <1>4 DEF Sched!SetPolicy
  <2>2. SchedType'
    <3>1. schedPc' \in [Sched!Threads -> SchedPlaces]
      BY <1>0, <2>1 DEF SchedType, SchedPlaces
    <3>2. policy' \in [Sched!Threads -> Sched!CFS \union {"SCHED_FIFO", "SCHED_RR"}]
          /\ priority' \in [Sched!Threads -> Nat]
      <4>1. CASE Sched!IsCFS(s)
        BY <1>0, <2>1, <4>1 DEF SchedType
      <4>2. CASE ~Sched!IsCFS(s)
        BY <1>0, <2>1, <4>2 DEF SchedType, Sched!SetRealtime
      <4> QED
        BY <4>1, <4>2
    <3> QED
      BY <1>0, <2>1, <3>1, <3>2 DEF SchedType
  <2>3. MainBehind'
    BY <1>0, <2>1 DEF MainBehind, Sched!IsCFS
  <2>4. ASSUME NEW t \in Sched!Threads
        PROVE (IF Sched!IsCFS(t) THEN CFSGiven(t) ELSE RealtimeGiven(t))'
    <3>1. CASE t # s
      <4>1. policy'[t] = policy[t] /\ priority'[t] = priority[t] /\ schedPc'[t] = schedPc[t]
        BY <1>0, <2>1, <3>1 DEF Sched!SetRealtime, SchedType
      <4> QED
        BY <1>0, <2>1, <4>1 DEF CFSGiven, RealtimeGiven, Sched!IsCFS
    <3>2. CASE t = s /\ Sched!IsCFS(s)
      <4>1. schedPc'[t] = "niceness" /\ policy'[t] = MCAsked[t].policy
        BY <1>0, <2>1, <3>2 DEF SchedType
      <4> QED
        BY <1>0, <2>1, <3>2, <4>1 DEF CFSGiven, Sched!IsCFS
    <3>3. CASE t = s /\ ~Sched!IsCFS(s)
      <4>1. schedPc'[t] = "run"
        BY <1>0, <2>1, <3>3 DEF SchedType
      <4>2. schedRoot => policy'[t] = MCAsked[t].policy /\ priority'[t] = MCAsked[t].priority
        BY <1>0, <2>1, <3>3 DEF Sched!SetRealtime, SchedType
      <4>3. ~schedRoot => policy' = policy
        BY <1>0, <2>1, <3>3 DEF Sched!SetRealtime
      <4> QED
        BY <1>0, <2>1, <3>3, <4>1, <4>2, <4>3 DEF RealtimeGiven, Sched!IsCFS
    <3> QED
      BY <3>1, <3>2, <3>3
  <2> QED
    BY <2>2, <2>3, <2>4 DEF SchedInv
<1>5. ASSUME NEW s \in Sched!Threads, Sched!SetNiceness(s) PROVE SchedInv'
  <2>1. /\ schedPc[s] = "niceness" /\ UNCHANGED <<schedRoot, mpc, schedNext, mainNice, policy,
                                                  priority>>
        /\ schedPc' = [schedPc EXCEPT ![s] = "run"]
        /\ nice' = [nice EXCEPT ![s] = Sched!Renice(nice[s], MCAsked[s].priority)]
    BY <1>5 DEF Sched!SetNiceness
  <2>2. SchedType'
    BY <1>0, <2>1 DEF SchedType, SchedPlaces, Sched!Renice
  <2>3. MainBehind'
    BY <1>0, <2>1 DEF MainBehind, Sched!IsCFS
  <2>4. ASSUME NEW t \in Sched!Threads
        PROVE (IF Sched!IsCFS(t) THEN CFSGiven(t) ELSE RealtimeGiven(t))'
    <3>1. CASE t # s
      <4>1. nice'[t] = nice[t] /\ schedPc'[t] = schedPc[t]
        BY <1>0, <2>1, <3>1 DEF SchedType
      <4> QED
        BY <1>0, <2>1, <4>1 DEF CFSGiven, RealtimeGiven, Sched!IsCFS
    <3>2. CASE t = s
      <4>1. schedPc'[t] = "run" /\ nice'[t] = Sched!Renice(nice[t], MCAsked[t].priority)
        BY <1>0, <2>1, <3>2 DEF SchedType
      <4>2. nice[t] \in Nat /\ MCAsked[t].priority \in Nat /\ mainNice \in Nat
        BY <1>0 DEF SchedType
      <4>3. CASE Sched!IsCFS(t)
        <5>1. policy[t] = MCAsked[t].policy /\ (schedRoot \/ nice[t] <= MCAsked[t].priority)
          BY <1>0, <2>1, <3>2, <4>3 DEF CFSGiven
        <5>2. nice'[t] = MCAsked[t].priority
          BY <4>1, <4>2, <5>1 DEF Sched!Renice
        <5> QED
          BY <2>1, <4>1, <4>3, <5>1, <5>2 DEF CFSGiven, Sched!IsCFS
      <4>4. CASE ~Sched!IsCFS(t)
        BY <1>0, <2>1, <3>2, <4>4 DEF RealtimeGiven
      <4> QED
        BY <4>3, <4>4
    <3> QED
      BY <3>1, <3>2
  <2> QED
    BY <2>2, <2>3, <2>4 DEF SchedInv
<1>6. ASSUME NEW s \in Sched!Threads, Sched!Finish(s) PROVE SchedInv'
  <2>1. /\ schedPc[s] = "run" /\ UNCHANGED <<schedRoot, mpc, schedNext, mainNice, nice, policy,
                                             priority>>
        /\ schedPc' = [schedPc EXCEPT ![s] = "end"]
    BY <1>6 DEF Sched!Finish
  <2>2. \A t \in Sched!Threads : schedPc'[t] = IF t = s THEN "end" ELSE schedPc[t]
    BY <1>0, <2>1 DEF SchedType
  <2>3. SchedType'
    BY <1>0, <2>1 DEF SchedType, SchedPlaces
  <2>4. MainBehind'
    BY <1>0, <2>1 DEF MainBehind, Sched!IsCFS
  <2>5. ASSUME NEW t \in Sched!Threads
        PROVE (IF Sched!IsCFS(t) THEN CFSGiven(t) ELSE RealtimeGiven(t))'
    BY <1>0, <2>1, <2>2 DEF CFSGiven, RealtimeGiven, Sched!IsCFS
  <2> QED
    BY <2>3, <2>4, <2>5 DEF SchedInv
<1>7. CASE UNCHANGED schedVars
  BY <1>0, <1>7 DEF schedVars, SchedInv, SchedType, MainBehind, CFSGiven, RealtimeGiven, Sched!IsCFS
<1> QED
  BY <1>1, <1>2, <1>3, <1>4, <1>5, <1>6, <1>7 DEF Sched!Next

LEMMA SchedSafe == SchedInv => Sched!RunsAsAsked
  BY DEF SchedInv, CFSGiven, RealtimeGiven, Sched!RunsAsAsked

-----------------------------------------------------------------------------
(* The named pipe *)

NamedPlaces == {"start", "named", "opening", "open", "ended", "interrupted", "gone"}

\* Until its name is taken by mistake, the fifo of a writer is known to it alone as
\* long as the writer has not opened it: a reader that found the name waits.
OwnName(w) ==
  /\ Named!At(w, "start") => namedName # <<"fifo", w>>
     /\ \A p \in Named!Procs : namedFile[p] # <<"fifo", w>>
  /\ Named!At(w, "named") => /\ namedName = <<"fifo", w>>
                             /\ \A p \in Named!Procs : namedFile[p] = <<"fifo", w>>
                                => namedPc[p] \in {"opening", "gone"}
  /\ namedPc[w] \in {"start", "named"} => namedFile[w] = NoFile
  /\ namedFile[w] \in {NoFile, <<"fifo", w>>}

NamedInv ==
  /\ namedPc \in [Named!Procs -> NamedPlaces]
  /\ namedName \in Named!Files \union {NoFile}
     /\ namedFile \in [Named!Procs -> Named!Files \union {NoFile}]
  /\ robbed \in BOOLEAN
  /\ robbed \/ \A w \in Writers : OwnName(w)

LEMMA NamedInit == Named!NamedAssumption /\ Named!Init => NamedInv
<1> SUFFICES ASSUME Named!NamedAssumption, Named!Init PROVE NamedInv
  OBVIOUS
<1>1. \A w \in Writers : <<"fifo", w>> # NoFile
  BY DEF Named!NamedAssumption
<1> QED
  BY <1>1 DEF Named!Init, NamedInv, NamedPlaces, OwnName, Named!At, Named!Procs

\* Opening puts the process at "open" or "opening", and lets go of waiting ones only.
LEMMA OpensFacts ==
  ASSUME namedPc \in [Named!Procs -> NamedPlaces],
         namedFile \in [Named!Procs -> Named!Files \union {NoFile}],
         NEW p \in Named!Procs, NEW f \in Named!Files, Named!Opens(p, f)
  PROVE  /\ namedPc' \in [Named!Procs -> NamedPlaces]
         /\ namedFile' \in [Named!Procs -> Named!Files \union {NoFile}]
         /\ namedFile'[p] = f /\ \A q \in Named!Procs : q # p => namedFile'[q] = namedFile[q]
         /\ namedPc'[p] \in {"open", "opening"}
         /\ f[1] = "fifo" /\ Named!Others(p, f) = {} => namedPc'[p] = "opening"
         /\ \A q \in Named!Procs : q # p =>
              \/ namedPc'[q] = namedPc[q]
              \/ namedPc[q] = "opening" /\ namedPc'[q] = "open" /\ q \in Named!Others(p, f)
<1>1. /\ namedFile' = [namedFile EXCEPT ![p] = f]
      /\ namedPc' = [q \in Named!Procs |->
              CASE q = p -> IF f[1] = "fifo" /\ Named!Others(p, f) = {} THEN "opening" ELSE "open"
                [] q \in Named!Others(p, f) -> IF namedPc[q] = "opening" THEN "open" ELSE namedPc[q]
                [] OTHER -> namedPc[q]]
  BY DEF Named!Opens, Named!At
<1>2. p \notin Named!Others(p, f)
  BY DEF Named!Others
<1>3. namedPc'[p] = IF f[1] = "fifo" /\ Named!Others(p, f) = {} THEN "opening" ELSE "open"
  BY <1>1, <1>2
<1>4. ASSUME NEW q \in Named!Procs, q # p
      PROVE  namedPc'[q] = IF q \in Named!Others(p, f) /\ namedPc[q] = "opening" THEN "open"
                           ELSE namedPc[q]
  BY <1>1, <1>4
<1>5. \A q \in Named!Procs : namedPc'[q] \in NamedPlaces
  BY <1>3, <1>4 DEF NamedPlaces
<1>6. namedPc' \in [Named!Procs -> NamedPlaces]
  <2>1. namedPc' = [q \in Named!Procs |-> namedPc'[q]]
    BY <1>1
  <2> QED
    BY <1>5, <2>1
<1>7. /\ namedFile' \in [Named!Procs -> Named!Files \union {NoFile}]
      /\ namedFile'[p] = f /\ \A q \in Named!Procs : q # p => namedFile'[q] = namedFile[q]
  BY <1>1
<1> QED
  BY <1>3, <1>4, <1>6, <1>7

LEMMA NamedStep ==
  ASSUME Named!NamedAssumption, NamedInv, NEW p \in Named!Procs,
         \/ /\ p \in Writers
            /\ Named!Mkfifo(p) \/ Named!OpenToWrite(p) \/ Named!WriteAlone(p)
               \/ Named!Terminate(p) \/ Named!WriterUnlink(p)
         \/ p \in Readers /\ (Named!OpenToRead(p) \/ Named!EndOfFile(p) \/ Named!ReaderUnlink(p))
         \/ Named!Killed(p)
  PROVE  NamedInv'
<1> USE DEF Named!Goto, Named!At
<1>0. /\ namedPc \in [Named!Procs -> NamedPlaces]
      /\ namedName \in Named!Files \union {NoFile}
         /\ namedFile \in [Named!Procs -> Named!Files \union {NoFile}]
      /\ robbed \in BOOLEAN
      /\ ~robbed => \A w \in Writers : OwnName(w)
      /\ Writers \subseteq Named!Procs
      /\ \A w \in Writers : <<"fifo", w>> # NoFile
      /\ \A v, w \in Writers : <<"fifo", v>> = <<"fifo", w>> => v = w
      /\ \A w \in Writers : <<"fifo", w>> \in Named!Files /\ <<"regular", w>> \in Named!Files
      /\ \A w \in Writers : <<"fifo", w>>[1] = "fifo"
  BY DEF NamedInv, Named!Procs, Named!Files, Named!NamedAssumption
\* a step that only moves p on, out of the places where its fifo is its own
<1>1. ASSUME UNCHANGED <<namedName, namedFile, robbed>>,
             NEW place \in NamedPlaces \ {"start", "named", "opening"},
             namedPc' = [namedPc EXCEPT ![p] = place],
             ~robbed => \A w \in Writers : namedPc[w] = "named" /\ namedFile[p] = <<"fifo", w>>
               => place = "gone"
      PROVE  NamedInv'
  <2>1. namedPc' \in [Named!Procs -> NamedPlaces] /\ namedPc'[p] = place
        /\ \A q \in Named!Procs : q # p => namedPc'[q] = namedPc[q]
    BY <1>0, <1>1
  <2>2. ASSUME NEW w \in Writers, ~robbed PROVE OwnName(w)'
    <3>1. OwnName(w) /\ w \in Named!Procs
      BY <1>0, <2>2
    <3>2. place \notin {"start", "named"}
      BY <1>1
    <3>3. (namedPc'[w] \in {"start", "named"}) => namedPc'[w] = namedPc[w]
      BY <2>1, <3>1, <3>2
    <3>4. ASSUME namedPc'[w] = "named", NEW q \in Named!Procs, namedFile[q] = <<"fifo", w>>
          PROVE namedPc'[q] \in {"opening", "gone"}
      BY <1>1, <2>1, <3>1, <3>2, <3>3, <3>4, <2>2 DEF OwnName
    <3> QED
      BY <1>1, <2>1, <3>1, <3>3, <3>4 DEF OwnName
  <2> QED
    BY <1>0, <1>1, <2>1, <2>2 DEF NamedInv
\* p is at none of the places that know a fifo of somebody who has yet to open it
<1>2. ASSUME namedPc[p] \notin {"opening", "gone"}, ~robbed, NEW w \in Writers, namedPc[w] = "named"
      PROVE  namedFile[p] # <<"fifo", w>>
  BY <1>0, <1>2 DEF OwnName
\* unlink(): of its own file, or somebody is robbed
<1>3. ASSUME Named!RemovesName(p), UNCHANGED namedFile,
             namedPc[p] \notin {"opening", "gone", "start", "named"},
             NEW place \in NamedPlaces \ {"start", "named", "opening"},
               namedPc' = [namedPc EXCEPT ![p] = place]
      PROVE  NamedInv'
  <2>1. namedPc' \in [Named!Procs -> NamedPlaces] /\ namedPc'[p] = place
        /\ \A q \in Named!Procs : q # p => namedPc'[q] = namedPc[q]
    BY <1>0, <1>3
  <2>2. namedName' = NoFile /\ robbed' = (robbed \/ namedName \notin {NoFile, namedFile[p]})
        /\ robbed' \in BOOLEAN
    BY <1>3 DEF Named!RemovesName
  <2>3. ASSUME NEW w \in Writers, ~robbed' PROVE OwnName(w)'
    <3>1. OwnName(w) /\ w \in Named!Procs /\ ~robbed /\ namedName \in {NoFile, namedFile[p]}
      BY <1>0, <2>2, <2>3
    <3>2. namedPc[w] # "named"
      BY <1>0, <1>2, <1>3, <3>1 DEF OwnName
    <3>3. namedPc'[w] # "named" /\ (namedPc'[w] = "start" => namedPc[w] = "start")
      BY <1>3, <2>1, <3>1, <3>2
    <3> QED
      BY <1>0, <1>3, <2>2, <3>1, <3>3 DEF OwnName
  <2> QED
    BY <1>0, <1>3, <2>1, <2>2, <2>3 DEF NamedInv
<1>4. CASE p \in Writers /\ Named!Mkfifo(p)
  <2>1. CASE namedName = NoFile
    <3>1. /\ namedPc[p] = "start" /\ namedPc' = [namedPc EXCEPT ![p] = "named"]
             /\ namedName' = <<"fifo", p>>
          /\ UNCHANGED <<namedFile, robbed>>
      BY <1>4, <2>1 DEF Named!Mkfifo
    <3>2. namedPc' \in [Named!Procs -> NamedPlaces] /\ namedPc'[p] = "named"
          /\ \A q \in Named!Procs : q # p => namedPc'[q] = namedPc[q]
      BY <1>0, <3>1 DEF NamedPlaces
    <3>3. ASSUME NEW w \in Writers, ~robbed PROVE OwnName(w)'
      <4>1. OwnName(w) /\ OwnName(p) /\ w \in Named!Procs
        BY <1>0, <1>4, <3>3
      <4>2. CASE w = p
        BY <1>0, <3>1, <3>2, <4>1, <4>2 DEF OwnName
      <4>3. CASE w # p
        <5>1. namedPc'[w] = namedPc[w] /\ namedPc[w] # "named" /\ namedName' # <<"fifo", w>>
          BY <1>0, <1>4, <2>1, <3>1, <3>2, <4>1, <4>3 DEF OwnName
        <5> QED
          BY <3>1, <4>1, <5>1 DEF OwnName
      <4> QED
        BY <4>2, <4>3
    <3> QED
      BY <1>0, <1>4, <3>1, <3>2, <3>3 DEF NamedInv
  <2>2. CASE namedName # NoFile
    <3>1. namedPc' = [namedPc EXCEPT ![p] = "gone"] /\ UNCHANGED <<namedName, namedFile, robbed>>
      BY <1>4, <2>2 DEF Named!Mkfifo
    <3> QED
      BY <1>1, <3>1 DEF NamedPlaces
  <2> QED
    BY <2>1, <2>2
<1>5. CASE p \in Writers /\ Named!OpenToWrite(p)
  <2>1. /\ namedPc[p] = "named" /\ Named!Opens(p, namedName') /\ robbed' = robbed
        /\ namedName' = IF namedName = NoFile THEN <<"regular", p>> ELSE namedName
    BY <1>5 DEF Named!OpenToWrite
  <2>2. namedName' \in Named!Files
    BY <1>0, <1>5, <2>1
  <2>3. /\ namedPc' \in [Named!Procs -> NamedPlaces]
        /\ namedFile' \in [Named!Procs -> Named!Files \union {NoFile}]
        /\ namedFile'[p] = namedName' /\ \A q \in Named!Procs : q # p
           => namedFile'[q] = namedFile[q]
        /\ namedPc'[p] \in {"open", "opening"}
        /\ \A q \in Named!Procs : q # p =>
              namedPc'[q] = namedPc[q]
                \/ (namedPc[q] = "opening" /\ namedPc'[q] = "open"
                    /\ q \in Named!Others(p, namedName'))
    BY <1>0, <2>1, <2>2, OpensFacts
  <2>4. ASSUME NEW w \in Writers, ~robbed PROVE OwnName(w)'
    <3>1. OwnName(w) /\ OwnName(p) /\ w \in Named!Procs
      BY <1>0, <1>5, <2>4
    <3>2. namedName = <<"fifo", p>> /\ namedName' = namedName
      BY <1>0, <1>5, <2>1, <3>1 DEF OwnName
    <3>3. CASE w = p
      BY <2>3, <3>2, <3>3 DEF OwnName
    <3>4. CASE w # p
      <4>1. namedName # <<"fifo", w>> /\ namedFile'[p] # <<"fifo", w>>
            /\ namedFile'[w] = namedFile[w]
        BY <1>0, <1>5, <2>3, <3>1, <3>2, <3>4
      <4>2. namedPc[w] # "named" /\ (namedPc'[w] \in {"start", "named"} => namedPc'[w] = namedPc[w])
        BY <2>3, <3>1, <3>4, <4>1 DEF OwnName
      <4> QED
        BY <2>3, <3>1, <3>2, <4>1, <4>2 DEF OwnName
    <3> QED
      BY <3>3, <3>4
  <2> QED
    BY <1>0, <2>1, <2>2, <2>3, <2>4 DEF NamedInv
<1>6. CASE p \in Writers /\ Named!WriteAlone(p)
  <2>1. namedPc' = [namedPc EXCEPT ![p] = "gone"] /\ UNCHANGED <<namedName, namedFile, robbed>>
    BY <1>6 DEF Named!WriteAlone
  <2> QED
    BY <1>1, <2>1 DEF NamedPlaces
<1>7. CASE p \in Writers /\ Named!Terminate(p)
  <2>1. PICK next \in {"ended", "interrupted"} : namedPc' = [namedPc EXCEPT ![p] = next]
    BY <1>7 DEF Named!Terminate
  <2>2. namedPc[p] = "open" /\ UNCHANGED <<namedName, namedFile, robbed>>
    BY <1>7 DEF Named!Terminate
  <2>3. next \in NamedPlaces \ {"start", "named", "opening"}
    BY DEF NamedPlaces
  <2> QED
    BY <1>1, <1>2, <2>1, <2>2, <2>3
<1>8. CASE p \in Writers /\ Named!WriterUnlink(p)
  <2>1. /\ namedPc[p] \in {"ended", "interrupted"} /\ Named!RemovesName(p) /\ UNCHANGED namedFile
        /\ \/ namedPc' = [namedPc EXCEPT ![p] = IF Named!At(p, "ended") THEN "gone" ELSE "open"]
           \/ UNCHANGED namedPc
    BY <1>8 DEF Named!WriterUnlink
  <2>2. PICK place \in {"gone", "open", "ended",
                        "interrupted"} : namedPc' = [namedPc EXCEPT ![p] = place]
    <3>1. namedPc = [namedPc EXCEPT ![p] = namedPc[p]]
      BY <1>0
    <3> QED
      BY <2>1, <3>1
  <2>3. place \in NamedPlaces \ {"start", "named", "opening"}
    BY DEF NamedPlaces
  <2> QED
    BY <1>3, <2>1, <2>2, <2>3
<1>9. CASE p \in Readers /\ Named!OpenToRead(p)
  <2>1. CASE namedName = NoFile
    <3>1. namedPc' = [namedPc EXCEPT ![p] = "gone"] /\ UNCHANGED <<namedName, namedFile, robbed>>
      BY <1>9, <2>1 DEF Named!OpenToRead
    <3> QED
      BY <1>1, <3>1 DEF NamedPlaces
  <2>2. CASE namedName # NoFile
    <3>1. Named!Opens(p, namedName) /\ UNCHANGED <<namedName, robbed>> /\ namedPc[p] = "start"
      BY <1>9, <2>2 DEF Named!OpenToRead
    <3>2. /\ namedPc' \in [Named!Procs -> NamedPlaces]
          /\ namedFile' \in [Named!Procs -> Named!Files \union {NoFile}]
          /\ namedFile'[p] = namedName /\ \A q \in Named!Procs : q # p
             => namedFile'[q] = namedFile[q]
          /\ namedPc'[p] \in {"open", "opening"}
          /\ namedName[1] = "fifo" /\ Named!Others(p, namedName) = {} => namedPc'[p] = "opening"
          /\ \A q \in Named!Procs : q # p =>
                namedPc'[q] = namedPc[q]
                  \/ (namedPc[q] = "opening" /\ namedPc'[q] = "open"
                      /\ q \in Named!Others(p, namedName))
      BY <1>0, <2>2, <3>1, OpensFacts
    <3>3. p \notin Writers
      BY <1>9 DEF Named!NamedAssumption
    <3>4. ASSUME NEW w \in Writers, ~robbed PROVE OwnName(w)'
      <4>1. OwnName(w) /\ w \in Named!Procs /\ w # p
        BY <1>0, <3>3, <3>4
      <4>2. namedPc'[w] \in {"start", "named"} => namedPc'[w] = namedPc[w]
        BY <3>2, <4>1
      <4>3. namedFile'[w] = namedFile[w]
        BY <3>2, <4>1
      <4>4. ASSUME namedPc[w] = "named" PROVE Named!Others(p, namedName) = {}
        <5>1. namedName = <<"fifo", w>> /\ namedFile[w] = NoFile
          BY <4>1, <4>4 DEF OwnName
        <5>2. ASSUME NEW v \in Writers PROVE namedFile[v] # namedName
          <6>1. namedFile[v] \in {NoFile, <<"fifo", v>>}
            BY <1>0, <3>4 DEF OwnName
          <6> QED
            BY <1>0, <2>2, <5>1, <6>1
        <5> QED
          BY <3>3, <5>2 DEF Named!Others
      <4>5. ASSUME namedPc'[w] = "named", NEW q \in Named!Procs, namedFile'[q] = <<"fifo", w>>
            PROVE  namedPc'[q] \in {"opening", "gone"}
        <5>1. namedPc[w] = "named" /\ namedName = <<"fifo", w>>
          BY <4>1, <4>2, <4>5 DEF OwnName
        <5>2. Named!Others(p, namedName) = {} /\ namedName[1] = "fifo"
          BY <1>0, <4>4, <5>1
        <5>3. q # p => namedPc'[q] = namedPc[q] /\ namedFile[q] = <<"fifo", w>>
          BY <3>2, <4>5, <5>2
        <5> QED
          BY <3>2, <4>1, <5>1, <5>2, <5>3 DEF OwnName
      <4>6. namedPc'[w] = "start" => namedName' # <<"fifo", w>>
            /\ \A q \in Named!Procs : namedFile'[q] # <<"fifo", w>>
        BY <3>1, <3>2, <4>1, <4>2 DEF OwnName
      <4> QED
        BY <3>1, <4>1, <4>2, <4>3, <4>5, <4>6 DEF OwnName
    <3> QED
      BY <1>0, <3>1, <3>2, <3>4 DEF NamedInv
  <2> QED
    BY <2>1, <2>2
<1>10. CASE p \in Readers /\ Named!EndOfFile(p)
  <2>1. namedPc[p] = "open" /\ namedPc' = [namedPc EXCEPT ![p] = "ended"]
        /\ UNCHANGED <<namedName, namedFile, robbed>>
    BY <1>10 DEF Named!EndOfFile
  <2> QED
    BY <1>1, <1>2, <2>1 DEF NamedPlaces
<1>11. CASE p \in Readers /\ Named!ReaderUnlink(p)
  <2>1. namedPc[p] = "ended" /\ namedPc' = [namedPc EXCEPT ![p] = "gone"] /\ Named!RemovesName(p)
        /\ UNCHANGED namedFile
    BY <1>11 DEF Named!ReaderUnlink
  <2> QED
    BY <1>3, <2>1 DEF NamedPlaces
<1>12. CASE Named!Killed(p)
  <2>1. namedPc' = [namedPc EXCEPT ![p] = "gone"] /\ UNCHANGED <<namedName, namedFile, robbed>>
    BY <1>12 DEF Named!Killed
  <2> QED
    BY <1>1, <2>1 DEF NamedPlaces
<1> QED
  BY <1>4, <1>5, <1>6, <1>7, <1>8, <1>9, <1>10, <1>11, <1>12

LEMMA NamedNext == Named!NamedAssumption /\ NamedInv /\ [Named!Next]_namedVars => NamedInv'
<1> SUFFICES ASSUME Named!NamedAssumption, NamedInv, [Named!Next]_namedVars PROVE NamedInv'
  OBVIOUS
<1>1. CASE UNCHANGED namedVars
  BY <1>1 DEF namedVars, NamedInv, OwnName, Named!At
<1>2. CASE Named!Next
  BY <1>2, NamedStep DEF Named!Next, Named!Procs
<1> QED
  BY <1>1, <1>2

LEMMA NamedSafe == NamedInv => Named!OwnFifoUnlessRobbed
  BY DEF NamedInv, OwnName, Named!OwnFifoUnlessRobbed

-----------------------------------------------------------------------------
(* Sequences that start alike *)

\* Two sequences that agree as far as the first one goes
Starts(s, t) == Len(s) <= Len(t) /\ \A i \in 1 .. Len(s) : s[i] = t[i]

\* A sequence that agrees with the start of another is a prefix of it.
LEMMA StartsIsPrefix ==
  ASSUME NEW S, NEW s \in Seq(S), NEW t \in Seq(S), Starts(s, t)
  PROVE  Len(s) <= Len(t) /\ SubSeq(s, 1, Len(s)) = SubSeq(t, 1, Len(s))
  <1>1. Len(s) \in Nat /\ Len(t) \in Nat /\ Len(s) <= Len(t)
    BY DEF Starts
  <1>2. \A i \in 1 .. Len(s) : s[i] \in S /\ t[i] \in S
    BY <1>1, ElementOfSeq
  <1>3. /\ SubSeq(s, 1, Len(s)) \in Seq(S) /\ SubSeq(t, 1, Len(s)) \in Seq(S)
        /\ Len(SubSeq(s, 1, Len(s))) = Len(s) /\ Len(SubSeq(t, 1, Len(s))) = Len(s)
        /\ \A i \in 1 .. Len(s) : SubSeq(s, 1, Len(s))[i] = s[i]
        /\ \A i \in 1 .. Len(s) : SubSeq(t, 1, Len(s))[i] = t[i]
    BY <1>1, <1>2
  <1>4. SubSeq(s, 1, Len(s)) = SubSeq(t, 1, Len(s))
    BY <1>3, SeqEqual DEF Starts
  <1> QED
    BY <1>1, <1>4

-----------------------------------------------------------------------------
(* The unnamed pipe *)

\* The q key leaves the parent with its write end, and so the child without an end.
QuitHolds ==
  ending = "quit" => /\ ppc \in {"wait", "gone"} /\ cpc # "done"
                     /\ ppc = "wait" => "parent" \in writeEnds
                     /\ ppc = "gone" => cpc = "gone"

\* After the tenth increment the parent has no write end, a child that reads never has.
TenCloses ==
  /\ writeEnds \subseteq {"parent", "child"}
  /\ ending = "ten" => "parent" \notin writeEnds
  /\ cpc = "read" => "child" \notin writeEnds

\* What was written is what was printed and what is in the pipe.
UnnamedInv ==
  /\ ppc \in {"start", "keys", "wait", "gone"} /\ cpc \in {"start", "read", "done", "gone"}
  /\ unnamedVal \in Int /\ unnamedRaw \in BOOLEAN
  /\ unnamedPipe \in Seq(Int) /\ written \in Seq(Int) /\ printed \in Seq(Int)
  /\ written = printed \o unnamedPipe
  /\ ppc \in {"start", "keys"} => "parent" \in writeEnds
  /\ cpc = "done" => unnamedPipe = <<>> /\ writeEnds = {}
  /\ ppc = "gone" => ~unnamedRaw \/ ending = "signal"
  /\ QuitHolds /\ TenCloses

LEMMA UnnamedInit == Unnamed!Init => UnnamedInv
<1> SUFFICES ASSUME Unnamed!Init PROVE UnnamedInv
  OBVIOUS
<1>1. <<>> \in Seq(Int) /\ <<>> \o <<>> = <<>>
  BY EmptySeq, ConcatEmptySeq
<1>2. unnamedPipe = <<>> /\ written = <<>> /\ printed = <<>> /\ unnamedVal = 0
  BY DEF Unnamed!Init
<1>3. written = printed \o unnamedPipe /\ unnamedPipe \in Seq(Int) /\ written \in Seq(Int)
      /\ printed \in Seq(Int)
  BY <1>1, <1>2, Zenon
<1>4. /\ ppc = "start" /\ cpc = "start" /\ "parent" \in writeEnds /\ unnamedRaw = FALSE
  BY DEF Unnamed!Init
<1>5. /\ ppc \in {"start", "keys", "wait", "gone"} /\ cpc \in {"start", "read", "done", "gone"}
      /\ unnamedVal \in Int /\ ppc # "gone" /\ cpc # "done"
  BY <1>2, <1>4
<1>6. unnamedRaw \in BOOLEAN
  BY <1>4
<1>7. QuitHolds /\ TenCloses
  BY DEF QuitHolds, TenCloses, Unnamed!Init
<1> QED
  BY <1>3, <1>4, <1>5, <1>6, <1>7, Zenon DEF UnnamedInv

\* A record moves through the pipe.
LEMMA PipeIn ==
  ASSUME NEW p \in Seq(Int), NEW q \in Seq(Int), NEW v \in Int
  PROVE  /\ Append(p \o q, v) = p \o Append(q, v)
         /\ Append(p \o q, v) \in Seq(Int) /\ Append(q, v) \in Seq(Int)
<1>1. <<v>> \in Seq(Int) /\ p \o q \in Seq(Int)
  BY ConcatProperties
<1>2. Append(p \o q, v) = (p \o q) \o <<v>> /\ Append(q, v) = q \o <<v>>
  BY <1>1, AppendIsConcat
<1>3. (p \o q) \o <<v>> = p \o (q \o <<v>>)
  BY <1>1, ConcatAssociative
<1> QED
  BY <1>1, <1>2, <1>3, AppendProperties

LEMMA PipeOut ==
  ASSUME NEW p \in Seq(Int), NEW q \in Seq(Int), q # <<>>
  PROVE  Append(p, Head(q)) \o Tail(q) = p \o q /\ Append(p, Head(q)) \in Seq(Int)
         /\ Tail(q) \in Seq(Int)
<1> DEFINE h == Head(q)
           t == Tail(q)
<1>1. /\ h \in Int /\ t \in Seq(Int) /\ Len(t) = Len(q) - 1
      /\ \A i \in 1 .. Len(t) : t[i] = q[i + 1]
  BY HeadTailProperties
<1>2. h = q[1] /\ Len(q) \in Nat
  BY LenProperties
<1> HIDE DEF h, t
<1>3. <<h>> \in Seq(Int) /\ Len(<<h>>) = 1 /\ <<h>>[1] = h
  BY <1>1
<1>4. /\ <<h>> \o t \in Seq(Int) /\ Len(<<h>> \o t) = Len(q)
      /\ \A i \in 1 .. Len(q) : (<<h>> \o t)[i] = IF i <= 1 THEN <<h>>[i] ELSE t[i - 1]
  BY <1>1, <1>2, <1>3, ConcatProperties
<1>5. \A i \in 1 .. Len(q) : (<<h>> \o t)[i] = q[i]
  BY <1>1, <1>2, <1>3, <1>4
<1>6. <<h>> \o t = q
  BY <1>4, <1>5, SeqEqual
<1>7. Append(p, h) = p \o <<h>> /\ Append(p, h) \in Seq(Int)
  BY <1>1, AppendIsConcat, AppendProperties
<1>8. (p \o <<h>>) \o t = p \o (<<h>> \o t)
  BY <1>1, <1>3, ConcatAssociative, SMTT(30)
<1> QED
  BY <1>1, <1>6, <1>7, <1>8 DEF h, t

LEMMA UnnamedNext == Unnamed!UnnamedAssumption /\ UnnamedInv /\ [Unnamed!Next]_unnamedVars
                     => UnnamedInv'
<1> SUFFICES ASSUME Unnamed!UnnamedAssumption, UnnamedInv, [Unnamed!Next]_unnamedVars
             PROVE UnnamedInv'
  OBVIOUS
<1> USE DEF UnnamedInv, QuitHolds, TenCloses, Unnamed!ends, Unnamed!history
<1>1. CASE Unnamed!ParentStart
  BY <1>1 DEF Unnamed!ParentStart
<1>2. CASE Unnamed!KeyEnds
  BY <1>2 DEF Unnamed!KeyEnds, Unnamed!UnnamedAssumption
<1>3. CASE Unnamed!KeyWrites
  <2>1. /\ ppc = "keys" /\ unnamedVal' \in Int /\ cpc # "done"
        /\ UNCHANGED <<cpc, readEnds, unnamedRaw, printed>>
    BY <1>3 DEF Unnamed!KeyWrites
  <2>2. CASE readEnds = {}
    BY <1>3, <2>1, <2>2 DEF Unnamed!KeyWrites
  <2>3. CASE readEnds # {}
    <3>1. /\ unnamedPipe' = Append(unnamedPipe, unnamedVal')
             /\ written' = Append(written, unnamedVal')
          /\ UNCHANGED <<ppc, writeEnds, ending>>
      BY <1>3, <2>3 DEF Unnamed!KeyWrites
    <3>2. written' = printed' \o unnamedPipe' /\ written' \in Seq(Int) /\ unnamedPipe' \in Seq(Int)
      <4>1. written = printed \o unnamedPipe /\ printed \in Seq(Int) /\ unnamedPipe \in Seq(Int)
            /\ unnamedVal' \in Int
        BY <2>1
      <4> HIDE DEF UnnamedInv, QuitHolds, TenCloses
      <4>2. /\ Append(printed \o unnamedPipe, unnamedVal') = printed \o Append(unnamedPipe,
                                                                               unnamedVal')
            /\ Append(printed \o unnamedPipe, unnamedVal') \in Seq(Int)
               /\ Append(unnamedPipe, unnamedVal') \in Seq(Int)
        BY <4>1, PipeIn
      <4> QED
        BY <2>1, <3>1, <4>1, <4>2
    <3> QED
      BY <2>1, <3>1, <3>2
  <2> QED
    BY <2>2, <2>3
<1>4. CASE Unnamed!KeyQuit
  BY <1>4 DEF Unnamed!KeyQuit
<1>5. CASE Unnamed!ParentExit
  BY <1>5 DEF Unnamed!ParentExit
<1>6. CASE Unnamed!ParentInterrupt
  BY <1>6 DEF Unnamed!ParentInterrupt
<1>7. CASE Unnamed!ChildStart
  BY <1>7 DEF Unnamed!ChildStart
<1>8. CASE Unnamed!ChildRead
  <2>1. /\ unnamedPipe # <<>> /\ unnamedPipe' = Tail(unnamedPipe)
           /\ printed' = Append(printed, Head(unnamedPipe))
        /\ UNCHANGED <<ppc, cpc, writeEnds, unnamedVal, unnamedRaw, written, ending>>
           /\ cpc = "read"
    BY <1>8 DEF Unnamed!ChildRead
  <2>2. written' = printed' \o unnamedPipe' /\ printed' \in Seq(Int) /\ unnamedPipe' \in Seq(Int)
    BY <2>1, PipeOut
  <2> QED
    BY <2>1, <2>2
<1>9. CASE Unnamed!ChildEnds
  BY <1>9 DEF Unnamed!ChildEnds
<1>10. CASE Unnamed!ChildInterrupt
  BY <1>10 DEF Unnamed!ChildInterrupt
<1>11. CASE UNCHANGED unnamedVars
  BY <1>11 DEF unnamedVars
<1> QED
  BY <1>1, <1>2, <1>3, <1>4, <1>5, <1>6, <1>7, <1>8, <1>9, <1>10, <1>11 DEF Unnamed!Next,
     Unnamed!Parent, Unnamed!Child

LEMMA UnnamedQuit == UnnamedInv => Unnamed!QuitNeedsInterrupt
  BY DEF UnnamedInv, QuitHolds, Unnamed!QuitNeedsInterrupt

LEMMA UnnamedTen == UnnamedInv => Unnamed!TenReachesEnd
  BY DEF UnnamedInv, TenCloses, Unnamed!TenReachesEnd

LEMMA UnnamedSafe == UnnamedInv => Unnamed!ChildReadsAll
<1> SUFFICES ASSUME UnnamedInv PROVE Unnamed!ChildReadsAll
  OBVIOUS
<1>1. Starts(printed, written)
  <2>1. /\ Len(written) = Len(printed) + Len(unnamedPipe)
        /\ \A i \in 1 .. Len(printed) + Len(unnamedPipe) :
             written[i] = IF i <= Len(printed) THEN printed[i] ELSE unnamedPipe[i - Len(printed)]
    BY ConcatProperties DEF UnnamedInv
  <2>2. Len(printed) \in Nat /\ Len(unnamedPipe) \in Nat
    BY LenProperties DEF UnnamedInv
  <2> QED
    BY <2>1, <2>2 DEF Starts
<1>2. Unnamed!IsPrefix(printed, written)
  BY <1>1, StartsIsPrefix DEF UnnamedInv, Unnamed!IsPrefix
<1>3. cpc = "done" => printed = written
  BY ConcatEmptySeq DEF UnnamedInv
<1> QED
  BY <1>2, <1>3 DEF UnnamedInv, Unnamed!ChildReadsAll

-----------------------------------------------------------------------------
(* The locked file *)

LockPlaces   == {"keys", "opened", "locked", "written", "reading", "gone"}
Piece == Writers \X Int

LockType ==
  /\ lockPc \in [Lock!Procs -> LockPlaces]
  /\ lockFile_val \in [Writers -> Int]
  /\ lockCreated \in BOOLEAN
  /\ lockContent \in Seq(Piece) /\ lockGot \in [LockReaders -> Seq(Piece)]
  /\ lockLocks \subseteq Lock!Procs

\* A writer that has the lock has it alone, and so does not meet a reader.
LocksHeld ==
  /\ \A w \in Writers : lockPc[w] \in {"locked", "written"} => lockLocks = {w}
  /\ \A r \in LockReaders : lockPc[r] = "reading" => r \in lockLocks

\* A reader begins with nothing; from then on it has the start of the file.
ReadSoFar ==
  \A r \in LockReaders : /\ lockPc[r] \in {"keys", "opened"} => lockGot[r] = <<>>
                         /\ lockPc[r] = "reading" => Starts(lockGot[r], lockContent)

LockInv == LockType /\ LocksHeld /\ ReadSoFar

\* One more element of the longer sequence keeps the agreement.
LEMMA StartsAppend ==
  ASSUME NEW S, NEW s \in Seq(S), NEW t \in Seq(S), Starts(s, t), Len(s) < Len(t)
  PROVE  Append(s, t[Len(s) + 1]) \in Seq(S) /\ Starts(Append(s, t[Len(s) + 1]), t)
  <1>1. Len(s) \in Nat /\ Len(t) \in Nat /\ Len(s) + 1 \in 1 .. Len(t)
    BY LenProperties
  <1>2. t[Len(s) + 1] \in S
    BY <1>1, ElementOfSeq
  <1> DEFINE a == Append(s, t[Len(s) + 1])
  <1>3. /\ a \in Seq(S) /\ Len(a) = Len(s) + 1 /\ a[Len(s) + 1] = t[Len(s) + 1]
        /\ \A i \in 1 .. Len(s) : a[i] = s[i]
    BY <1>2, AppendProperties
  <1> HIDE DEF a
  <1>4. Starts(a, t)
    BY <1>1, <1>3 DEF Starts
  <1> QED
    BY <1>3, <1>4 DEF a

\* Writing a record over the start of the file leaves a file.
LEMMA OverIsFile ==
  ASSUME NEW w \in Writers, NEW val \in Int, NEW old \in Seq(Piece)
  PROVE  Lock!Over(old, Lock!Record(w, val)) \in Seq(Piece)
  <1> DEFINE rec == Lock!Record(w, val)
  <1>1. rec \in Seq(Piece)
    BY DEF Lock!Record, Piece
  <1> HIDE DEF rec
  <1>2. Len(rec) \in Nat /\ Len(old) \in Nat
    BY <1>1, LenProperties
  <1>3. \A i \in Len(rec) + 1 .. Len(old) : old[i] \in Piece
    BY <1>2, ElementOfSeq
  <1>4. SubSeq(old, Len(rec) + 1, Len(old)) \in Seq(Piece)
    BY <1>2, <1>3, SubSeqProperties
  <1> QED
    BY <1>1, <1>4, ConcatProperties DEF Lock!Over, rec

LEMMA LockInit == Lock!Init => LockInv
  <1> SUFFICES ASSUME Lock!Init PROVE LockInv
    OBVIOUS
  <1>1. <<>> \in Seq(Piece)
    OBVIOUS
  <1>2. LockType
    <2>1. lockPc \in [Lock!Procs -> LockPlaces] /\ lockFile_val \in [Writers -> Int]
      BY DEF Lock!Init, LockPlaces
    <2>2. lockGot \in [LockReaders -> Seq(Piece)] /\ lockContent \in Seq(Piece)
      BY <1>1, Zenon DEF Lock!Init
    <2>3. lockCreated \in BOOLEAN /\ lockLocks \subseteq Lock!Procs
      BY DEF Lock!Init
    <2> QED
      BY <2>1, <2>2, <2>3 DEF LockType
  <1>3. LocksHeld /\ ReadSoFar
    BY DEF Lock!Init, LocksHeld, ReadSoFar, Lock!Procs
  <1> QED
    BY <1>2, <1>3 DEF LockInv

LEMMA LockTypeNext == ASSUME Lock!LockAssumption, LockInv, [Lock!Next]_lockVars PROVE LockType'
  <1> USE DEF LockInv, LockType, LockPlaces, Lock!Procs, Lock!LockAssumption
  <1>1. CASE UNCHANGED lockVars
    BY <1>1 DEF lockVars
  <1>2. ASSUME NEW w \in Writers, Lock!KeyWrite(w) PROVE LockType'
    <2>1. lockFile_val' \in [Writers -> Int]
      BY <1>2 DEF Lock!KeyWrite
    <2>2. lockPc' \in [Lock!Procs -> LockPlaces] /\ lockCreated' \in BOOLEAN
      BY <1>2 DEF Lock!KeyWrite, Lock!Goto
    <2> QED
      BY <1>2, <2>1, <2>2 DEF Lock!KeyWrite
  <1>3. ASSUME NEW w \in Writers, Lock!LockWrite(w) PROVE LockType'
    BY <1>3 DEF Lock!LockWrite, Lock!Goto, Lock!At
  <1>4. ASSUME NEW w \in Writers, Lock!WriteRecord(w) PROVE LockType'
    <2>1. lockContent' \in Seq(Piece)
      BY <1>4, OverIsFile DEF Lock!WriteRecord
    <2> QED
      BY <1>4, <2>1 DEF Lock!WriteRecord, Lock!Goto, Lock!At
  <1>5. ASSUME NEW w \in Writers, Lock!Unlock(w) PROVE LockType'
    BY <1>5 DEF Lock!Unlock, Lock!Goto, Lock!At
  <1>6. ASSUME NEW r \in LockReaders, Lock!OpenRead(r) PROVE LockType'
    BY <1>6 DEF Lock!OpenRead, Lock!Goto, Lock!At
  <1>7. ASSUME NEW r \in LockReaders, Lock!LockRead(r) PROVE LockType'
    BY <1>7 DEF Lock!LockRead, Lock!Goto, Lock!At
  <1>8. ASSUME NEW r \in LockReaders, Lock!ReadByte(r) PROVE LockType'
    <2>1. Append(lockGot[r], lockContent[Len(lockGot[r]) + 1]) \in Seq(Piece)
      BY <1>8, StartsAppend DEF Lock!ReadByte, Lock!At, ReadSoFar
    <2> QED
      BY <1>8, <2>1 DEF Lock!ReadByte
  <1>9. ASSUME NEW r \in LockReaders, Lock!CloseRead(r) PROVE LockType'
    BY <1>9 DEF Lock!CloseRead, Lock!Goto, Lock!At
  <1>10. ASSUME NEW p \in Lock!Procs, Lock!Killed(p) PROVE LockType'
    BY <1>10 DEF Lock!Killed, Lock!Goto
  <1> QED
    BY <1>1, <1>2, <1>3, <1>4, <1>5, <1>6, <1>7, <1>8, <1>9, <1>10 DEF Lock!Next

LEMMA LockLocksNext == ASSUME Lock!LockAssumption, LockInv, [Lock!Next]_lockVars PROVE LocksHeld'
  <1> USE DEF LockInv, LockType, LocksHeld, LockPlaces, Lock!Procs, Lock!LockAssumption,
     Lock!Goto, Lock!At
  <1>1. CASE UNCHANGED lockVars
    BY <1>1 DEF lockVars
  <1>2. ASSUME NEW w \in Writers, Lock!KeyWrite(w) PROVE LocksHeld'
    BY <1>2 DEF Lock!KeyWrite
  <1>3. ASSUME NEW w \in Writers, Lock!LockWrite(w) PROVE LocksHeld'
    BY <1>3 DEF Lock!LockWrite
  <1>4. ASSUME NEW w \in Writers, Lock!WriteRecord(w) PROVE LocksHeld'
    BY <1>4 DEF Lock!WriteRecord
  <1>5. ASSUME NEW w \in Writers, Lock!Unlock(w) PROVE LocksHeld'
    BY <1>5 DEF Lock!Unlock
  <1>6. ASSUME NEW r \in LockReaders, Lock!OpenRead(r) PROVE LocksHeld'
    BY <1>6 DEF Lock!OpenRead
  <1>7. ASSUME NEW r \in LockReaders, Lock!LockRead(r) PROVE LocksHeld'
    <2>1. CASE lockLocks \cap Writers = {}
      BY <1>7, <2>1 DEF Lock!LockRead
    <2>2. CASE lockLocks \cap Writers # {}
      <3>1. lockPc' = [lockPc EXCEPT ![r] = "keys"] /\ UNCHANGED lockLocks
        BY <1>7, <2>2 DEF Lock!LockRead
      <3>2. \A p \in Lock!Procs : lockPc'[p] \in {lockPc[p], "keys"}
        BY <3>1
      <3> QED
        BY <3>1, <3>2
    <2> QED
      BY <2>1, <2>2
  <1>8. ASSUME NEW r \in LockReaders, Lock!ReadByte(r) PROVE LocksHeld'
    BY <1>8 DEF Lock!ReadByte
  <1>9. ASSUME NEW r \in LockReaders, Lock!CloseRead(r) PROVE LocksHeld'
    BY <1>9 DEF Lock!CloseRead
  <1>10. ASSUME NEW p \in Lock!Procs, Lock!Killed(p) PROVE LocksHeld'
    BY <1>10 DEF Lock!Killed
  <1> QED
    BY <1>1, <1>2, <1>3, <1>4, <1>5, <1>6, <1>7, <1>8, <1>9, <1>10 DEF Lock!Next

LEMMA LockReadNext == ASSUME Lock!LockAssumption, LockInv, [Lock!Next]_lockVars PROVE ReadSoFar'
  <1> USE DEF LockInv, LockType, ReadSoFar, LockPlaces, Lock!Procs, Lock!LockAssumption,
     Lock!Goto, Lock!At
  <1>1. CASE UNCHANGED lockVars
    BY <1>1 DEF lockVars, Starts
  <1>2. ASSUME NEW w \in Writers, Lock!KeyWrite(w) PROVE ReadSoFar'
    BY <1>2 DEF Lock!KeyWrite, Starts
  <1>3. ASSUME NEW w \in Writers, Lock!LockWrite(w) PROVE ReadSoFar'
    BY <1>3 DEF Lock!LockWrite, Starts
  <1>4. ASSUME NEW w \in Writers, Lock!WriteRecord(w) PROVE ReadSoFar'
    <2>1. \A r \in LockReaders : lockPc'[r] = lockPc[r] /\ lockPc[r] # "reading"
      BY <1>4 DEF Lock!WriteRecord, LocksHeld
    <2> QED
      BY <1>4, <2>1 DEF Lock!WriteRecord
  <1>5. ASSUME NEW w \in Writers, Lock!Unlock(w) PROVE ReadSoFar'
    BY <1>5 DEF Lock!Unlock, Starts
  <1>6. ASSUME NEW r \in LockReaders, Lock!OpenRead(r) PROVE ReadSoFar'
    BY <1>6 DEF Lock!OpenRead, Starts
  <1>7. ASSUME NEW r \in LockReaders, Lock!LockRead(r) PROVE ReadSoFar'
    <2>1. lockGot[r] = <<>> /\ Starts(lockGot[r], lockContent)
      BY <1>7 DEF Lock!LockRead, Starts
    <2> QED
      BY <1>7, <2>1 DEF Lock!LockRead, Starts
  <1>8. ASSUME NEW r \in LockReaders, Lock!ReadByte(r) PROVE ReadSoFar'
    <2>1. Starts(Append(lockGot[r], lockContent[Len(lockGot[r]) + 1]), lockContent)
      BY <1>8, StartsAppend DEF Lock!ReadByte
    <2>2. /\ lockGot'[r] = Append(lockGot[r], lockContent[Len(lockGot[r]) + 1])
          /\ \A q \in LockReaders \ {r} : lockGot'[q] = lockGot[q]
          /\ lockPc' = lockPc /\ lockContent' = lockContent
      BY <1>8 DEF Lock!ReadByte
    <2>3. ASSUME NEW q \in LockReaders
          PROVE  /\ lockPc'[q] \in {"keys", "opened"} => lockGot'[q] = <<>>
                 /\ lockPc'[q] = "reading" => Starts(lockGot'[q], lockContent')
      <3>1. CASE q = r
        BY <1>8, <2>1, <2>2, <3>1 DEF Lock!ReadByte
      <3>2. CASE q # r
        BY <2>2, <3>2
      <3> QED
        BY <3>1, <3>2
    <2> QED
      BY <2>3 DEF Starts
  <1>9. ASSUME NEW r \in LockReaders, Lock!CloseRead(r) PROVE ReadSoFar'
    BY <1>9 DEF Lock!CloseRead, Starts
  <1>10. ASSUME NEW p \in Lock!Procs, Lock!Killed(p) PROVE ReadSoFar'
    BY <1>10 DEF Lock!Killed, Starts
  <1> QED
    BY <1>1, <1>2, <1>3, <1>4, <1>5, <1>6, <1>7, <1>8, <1>9, <1>10 DEF Lock!Next

LEMMA LockNext == Lock!LockAssumption /\ LockInv /\ [Lock!Next]_lockVars => LockInv'
  BY LockTypeNext, LockLocksNext, LockReadNext DEF LockInv

LEMMA LockSafe == LockInv => Lock!ReadsOneState
  BY StartsIsPrefix DEF LockInv, LockType, ReadSoFar, Lock!ReadsOneState, Lock!At, Lock!IsPrefix

-----------------------------------------------------------------------------
(* The driver under the duty cycle program *)

\* The calls a key leaves, and what is left of them
Making4 == <<"duty", "duty", "create", "construct">>
Making3 == <<"duty", "create", "construct">>
Making2 == <<"create", "construct">>
Making1 == <<"construct">>
Period  == <<"duty">>
Write4  == <<"write", "disable", "stop", "join">>
Clear4  == <<"clear", "disable", "stop", "join">>
Ending3 == <<"disable", "stop", "join">>
Ending2 == <<"stop", "join">>
Ending1 == <<"join">>
Write1  == <<"write">>
Clear1  == <<"clear">>
Set1    == <<"set">>

LEMMA PlanFacts ==
  /\ Head(Making4) = "duty" /\ Tail(Making4) = Making3 /\ Len(Making4) = 4 /\ Making4 # <<>>
  /\ Head(Making3) = "duty" /\ Tail(Making3) = Making2 /\ Len(Making3) = 3 /\ Making3 # <<>>
  /\ Head(Making2) = "create" /\ Tail(Making2) = Making1 /\ Len(Making2) = 2 /\ Making2 # <<>>
  /\ Head(Making1) = "construct" /\ Tail(Making1) = <<>> /\ Len(Making1) = 1 /\ Making1 # <<>>
  /\ Head(Period) = "duty" /\ Tail(Period) = <<>> /\ Len(Period) = 1 /\ Period # <<>>
  /\ Head(Write4) = "write" /\ Tail(Write4) = Ending3 /\ Len(Write4) = 4 /\ Write4 # <<>>
  /\ Head(Clear4) = "clear" /\ Tail(Clear4) = Ending3 /\ Len(Clear4) = 4 /\ Clear4 # <<>>
  /\ Head(Ending3) = "disable" /\ Tail(Ending3) = Ending2 /\ Len(Ending3) = 3 /\ Ending3 # <<>>
  /\ Head(Ending2) = "stop" /\ Tail(Ending2) = Ending1 /\ Len(Ending2) = 2 /\ Ending2 # <<>>
  /\ Head(Ending1) = "join" /\ Tail(Ending1) = <<>> /\ Len(Ending1) = 1 /\ Ending1 # <<>>
  /\ Head(Write1) = "write" /\ Tail(Write1) = <<>> /\ Len(Write1) = 1 /\ Write1 # <<>>
  /\ Head(Clear1) = "clear" /\ Tail(Clear1) = <<>> /\ Len(Clear1) = 1 /\ Clear1 # <<>>
  /\ Head(Set1) = "set" /\ Tail(Set1) = <<>> /\ Len(Set1) = 1 /\ Set1 # <<>>
  BY DEF Making4, Making3, Making2, Making1, Period, Write4, Clear4, Ending3, Ending2, Ending1,
     Write1, Clear1, Set1

\* Before a longer plan comes the one call that switches the mode.
LEMMA OneThenThree == \A a, b, c, d : <<a>> \o <<b, c, d>> = <<a, b, c, d>>
<1> TAKE a, b, c, d
<1>1. /\ <<a>> \in Seq({a, b, c, d}) /\ <<b, c, d>> \in Seq({a, b, c, d})
      /\ Len(<<a>>) = 1 /\ Len(<<b, c, d>>) = 3
  OBVIOUS
<1>2. <<a>> \o <<b, c, d>> = [i \in 1 .. 4 |-> IF i <= 1 THEN <<a>>[i] ELSE <<b, c, d>>[i - 1]]
  BY <1>1
<1>3. <<a, b, c, d>> = [i \in 1 .. 4 |-> <<a, b, c, d>>[i]]
  OBVIOUS
<1>4. \A i \in 1 .. 4 : (IF i <= 1 THEN <<a>>[i] ELSE <<b, c, d>>[i - 1]) = <<a, b, c, d>>[i]
  OBVIOUS
<1> QED
  BY <1>2, <1>3, <1>4

LEMMA BeforeDestroy ==
  /\ object = "none" => <<"write">> \o Duty!Destroy = Write1 /\ <<"clear">> \o Duty!Destroy = Clear1
  /\ object # "none" => <<"write">> \o Duty!Destroy = Write4 /\ <<"clear">> \o Duty!Destroy = Clear4
<1>1. \A a : <<a>> \o <<>> = <<a>>
  OBVIOUS
<1> QED
  BY <1>1, OneThenThree DEF Duty!Destroy, Write1, Clear1, Write4, Clear4

\* What the calls that are left have still to put right in the driver
DutyPlan ==
  /\ dutyPlan \in {<<>>, Period, Making4, Making3, Making2, Making1}
  /\ dutyPlan \in {<<>>, Making2, Making1} => period = duty_cycle_msec
     /\ poll_enabled = (period > 0)
  /\ dutyPlan \in {<<>>, Period} => object # "none"
OtherPlan ==
  /\ dutyPlan \in {<<>>, Write1, Clear1, Set1, Write4, Clear4, Ending3, Ending2, Ending1}
  /\ dutyPlan \in {<<>>, Ending1} => period = 0
  /\ dutyPlan \in {<<>>, Ending1, Write1} => poll_enabled = FALSE
  /\ dutyPlan \in {<<>>, Write1, Clear1, Set1} => object = "none"

DutyInv ==
  /\ test_mode = "duty" => DutyPlan
  /\ test_mode # "duty" => OtherPlan

LEMMA DutyInit == Duty!Init => DutyInv
  BY PlanFacts DEF Duty!Init, DutyInv, OtherPlan

LEMMA DutyKey == DutyInv /\ Duty!Key => DutyInv'
<1> SUFFICES ASSUME DutyInv, Duty!Key PROVE DutyInv'
  OBVIOUS
<1>0. UNCHANGED <<object, period, poll_enabled>> /\ dutyPlan = <<>>
  BY DEF Duty!Key, Duty!objectVars, Duty!driverVars, Duty!KeyBurst, Duty!KeyToggle,
     Duty!KeyDuty, Duty!KeyArrowBurst, Duty!KeyArrowToggle,
     Duty!KeyArrowDuty, Duty!KeyQuit, Duty!Press
<1> USE PlanFacts, BeforeDestroy DEF DutyInv, DutyPlan, OtherPlan, Duty!Press
<1>1. CASE Duty!KeyBurst
  BY <1>0, <1>1 DEF Duty!KeyBurst
<1>2. CASE Duty!KeyToggle
  BY <1>0, <1>2 DEF Duty!KeyToggle
<1>3. CASE Duty!KeyDuty
  BY <1>0, <1>3 DEF Duty!KeyDuty, Making4
<1>4. CASE \E advance \in BOOLEAN : Duty!KeyArrowBurst(advance)
  BY <1>0, <1>4 DEF Duty!KeyArrowBurst, Write1
<1>5. CASE Duty!KeyArrowToggle
  BY <1>0, <1>5 DEF Duty!KeyArrowToggle, Clear1, Set1
<1>6. CASE \E advance \in BOOLEAN : Duty!KeyArrowDuty(advance)
  <2>1. dutyPlan' = Period /\ test_mode' = test_mode /\ test_mode = "duty"
    BY <1>6 DEF Duty!KeyArrowDuty, Period
  <2> QED
    BY <1>0, <2>1
<1>7. CASE Duty!KeyQuit
  BY <1>0, <1>7 DEF Duty!KeyQuit
<1> QED
  BY <1>1, <1>2, <1>3, <1>4, <1>5, <1>6, <1>7 DEF Duty!Key

LEMMA DutyCalls == DutyInv /\ Duty!Calls => DutyInv'
<1> SUFFICES ASSUME DutyInv, Duty!Calls PROVE DutyInv'
  OBVIOUS
<1>0. UNCHANGED <<test_mode, duty_cycle_msec>>
  BY DEF Duty!Calls, Duty!CallWrite, Duty!CallSetClear, Duty!CallDuty, Duty!CallCreate,
     Duty!CallConstruct, Duty!CallDisable, Duty!CallJoin, Duty!appVars
<1> USE PlanFacts DEF DutyInv, DutyPlan, OtherPlan, Duty!Call, Duty!driverVars, Duty!objectVars
<1>1. CASE Duty!CallWrite
  <2>1. test_mode # "duty" /\ dutyPlan \in {Write1, Write4} /\ dutyPlan' = Tail(dutyPlan)
        /\ period' = 0 /\ UNCHANGED <<poll_enabled, object>>
    <3>1. Head(dutyPlan) = "write" /\ dutyPlan # <<>> /\ dutyPlan' = Tail(dutyPlan)
          /\ period' = 0 /\ UNCHANGED <<poll_enabled, object>>
      BY <1>1 DEF Duty!CallWrite
    <3>2. CASE test_mode = "duty"
      BY <3>1, <3>2
    <3>3. CASE test_mode # "duty"
      BY <3>1, <3>3
    <3> QED
      BY <3>2, <3>3
  <2>2. CASE dutyPlan = Write1
    BY <1>0, <2>1, <2>2
  <2>3. CASE dutyPlan = Write4
    BY <1>0, <2>1, <2>3
  <2> QED
    BY <2>1, <2>2, <2>3
<1>2. CASE Duty!CallSetClear
  BY <1>0, <1>2, ZenonT(60) DEF Duty!CallSetClear
<1>3. CASE Duty!CallDuty
  <2>1. /\ (Duty!Call("duty") /\ period' = duty_cycle_msec) \/ (Duty!Call("stop") /\ period' = 0)
        /\ poll_enabled' = (period' > 0) /\ UNCHANGED object
    BY <1>3 DEF Duty!CallDuty
  <2>3. ASSUME Duty!Call("stop"), period' = 0 PROVE DutyInv'
    <3>0. (period' > 0) = FALSE
      BY <2>3
    <3>1. poll_enabled' = FALSE
      <4>1. poll_enabled' = (period' > 0)
        BY <2>1
      <4> QED
        BY <3>0, <4>1, Zenon
    <3>2. test_mode # "duty" /\ dutyPlan = Ending2 /\ dutyPlan' = Ending1
      BY <2>3
    <3> QED
      BY <1>0, <2>3, <3>1, <3>2
  <2>4. ASSUME Duty!Call("duty"), period' = duty_cycle_msec PROVE DutyInv'
    <3>1. test_mode = "duty" /\ dutyPlan \in {Making4, Making3, Period}
          /\ dutyPlan' = Tail(dutyPlan)
      BY <2>4
    <3>2. dutyPlan = Period => dutyPlan' = <<>> /\ object # "none"
      BY <3>1
    <3>3. dutyPlan' \in {<<>>, Making3, Making2}
      BY <3>1, ZenonT(60)
    <3>4. dutyPlan' = <<>> => dutyPlan = Period
      BY <3>1
    <3> HIDE PlanFacts
    <3>5. Making3 # <<>> /\ Making2 # <<>> /\ Making3 # Period /\ Making2 # Period /\ Period # <<>>
      BY PlanFacts
    <3>6. DutyPlan'
      <4>1. period' = duty_cycle_msec' /\ poll_enabled' = (period' > 0)
        BY <1>0, <2>1, <2>4
      <4> QED
        BY <2>1, <3>1, <3>2, <3>3, <3>4, <3>5, <4>1
    <3> QED
      BY <1>0, <3>1, <3>6
  <2> QED
    BY <2>1, <2>3, <2>4
<1>4. CASE Duty!CallCreate
  BY <1>0, <1>4 DEF Duty!CallCreate
<1>5. CASE Duty!CallConstruct
  BY <1>0, <1>5 DEF Duty!CallConstruct
<1>6. CASE Duty!CallDisable
  BY <1>0, <1>6 DEF Duty!CallDisable
<1>7. CASE Duty!CallJoin
  BY <1>0, <1>7 DEF Duty!CallJoin
<1> QED
  BY <1>1, <1>2, <1>3, <1>4, <1>5, <1>6, <1>7 DEF Duty!Calls

LEMMA DutyNext == DutyInv /\ [Duty!Next]_dutyVars => DutyInv'
<1> SUFFICES ASSUME DutyInv, [Duty!Next]_dutyVars PROVE DutyInv'
  OBVIOUS
<1>1. CASE Duty!Key
  BY <1>1, DutyKey
<1>2. CASE Duty!Calls
  BY <1>2, DutyCalls
<1>3. CASE Duty!Run \/ Duty!RunWakeOther \/ Duty!Pulse \/ UNCHANGED dutyVars
  <2>1. UNCHANGED <<test_mode, duty_cycle_msec, dutyPlan, object, period, poll_enabled>>
    BY <1>3 DEF Duty!Run, Duty!RunTest, Duty!RunSelectPoll, Duty!RunEpollCreate,
       Duty!RunEpollMark, Duty!RunEpollSkip, Duty!RunEpollWait,
       Duty!RunWakeReady, Duty!RunRead, Duty!RunWakeOther, Duty!Pulse, dutyVars, Duty!appVars,
         Duty!objectVars, Duty!driverVars
  <2> QED
    BY <2>1 DEF DutyInv, DutyPlan, OtherPlan
<1> QED
  BY <1>1, <1>2, <1>3 DEF Duty!Next

\* How far the object is when its calls are made; the destructor clears enabled_ first.
DutyMade ==
  /\ object \in {"none", "starting", "built"} /\ early \in BOOLEAN /\ enabled \in BOOLEAN
  /\ dutyPlan \in {Write4, Clear4, Ending3, Ending2, Ending1, Period} => object = "built"
  /\ dutyPlan \in {Making4, Making3, Making2} => object = "none"
  /\ dutyPlan = Making1 => object = "starting"
  /\ dutyPlan = <<>> => object # "starting"
  /\ dutyPlan \in {Ending2, Ending1} => enabled = FALSE

\* The thread lives as long as its object.  One that read no member before it was set
\* waits for nothing but the device.
DutyWaits ==
  /\ thread = "none" <=> object = "none"
  /\ object = "starting" /\ ~early => thread = "loop"
  /\ object = "built" /\ ~early => /\ ep \in {"none", "device"}
                                   /\ thread = "wait" => waits \in {"nothing", "device"}

LEMMA DutyInitMade == Duty!Init => DutyMade /\ DutyWaits
  BY PlanFacts DEF Duty!Init, DutyMade, DutyWaits

LEMMA DutyMadeNext == DutyInv /\ DutyMade /\ [Duty!Next]_dutyVars => DutyMade'
<1> SUFFICES ASSUME DutyInv, DutyMade, [Duty!Next]_dutyVars PROVE DutyMade'
  OBVIOUS
<1>1. CASE Duty!Key
  <2>1. UNCHANGED <<object, early, enabled>> /\ dutyPlan = <<>>
    BY <1>1 DEF Duty!Key, Duty!objectVars, Duty!threadVars, Duty!KeyBurst, Duty!KeyToggle,
       Duty!KeyDuty, Duty!KeyArrowBurst, Duty!KeyArrowToggle, Duty!KeyArrowDuty, Duty!KeyQuit,
       Duty!Press
  <2>2. object \in {"none", "built"} /\ (test_mode = "duty" <=> object = "built")
    BY <2>1, PlanFacts DEF DutyInv, DutyPlan, OtherPlan, DutyMade
  <2>3. \/ object = "none" /\ dutyPlan' \in {<<>>, Making4, Write1, Clear1, Set1}
        \/ object = "built" /\ dutyPlan' \in {<<>>, Period, Write4, Clear4}
    <3> USE <2>2, BeforeDestroy DEF Duty!Press
    <3>1. CASE Duty!KeyBurst
      BY <3>1 DEF Duty!KeyBurst
    <3>2. CASE Duty!KeyToggle
      BY <3>2 DEF Duty!KeyToggle
    <3>3. CASE Duty!KeyDuty
      BY <3>3 DEF Duty!KeyDuty, Making4
    <3>4. CASE \E advance \in BOOLEAN : Duty!KeyArrowBurst(advance)
      BY <3>4 DEF Duty!KeyArrowBurst, Write1
    <3>5. CASE Duty!KeyArrowToggle
      BY <3>5 DEF Duty!KeyArrowToggle, Clear1, Set1
    <3>6. CASE \E advance \in BOOLEAN : Duty!KeyArrowDuty(advance)
      BY <3>6 DEF Duty!KeyArrowDuty, Period
    <3>7. CASE Duty!KeyQuit
      BY <3>7 DEF Duty!KeyQuit
    <3> QED
      BY <1>1, <3>1, <3>2, <3>3, <3>4, <3>5, <3>6, <3>7 DEF Duty!Key
  <2> QED
    BY <2>1, <2>3, PlanFacts DEF DutyMade
<1>2. CASE Duty!Calls
  <2>0. dutyPlan \in {<<>>, Period, Making4, Making3, Making2, Making1, Write1, Clear1, Set1,
                      Write4, Clear4, Ending3, Ending2, Ending1}
    BY DEF DutyInv, DutyPlan, OtherPlan
  <2> USE PlanFacts DEF Duty!Call, Duty!objectVars, Duty!threadVars
  <2>1. CASE Duty!CallCreate
    <3>1. dutyPlan' = Making1
      BY <2>0, <2>1 DEF Duty!CallCreate
    <3>2. object' = "starting" /\ early' = FALSE /\ enabled' = enabled
      BY <2>1 DEF Duty!CallCreate
    <3> QED
      BY <3>1, <3>2 DEF DutyMade
  <2>2. CASE Duty!CallConstruct
    <3>1. dutyPlan' = <<>>
      BY <2>0, <2>2 DEF Duty!CallConstruct
    <3>2. object' = "built" /\ early' = early /\ enabled' = TRUE
      BY <2>2 DEF Duty!CallConstruct
    <3> QED
      BY <3>1, <3>2 DEF DutyMade
  <2>3. CASE Duty!CallDisable
    <3>1. dutyPlan = Ending3 /\ dutyPlan' = Ending2
      BY <2>0, <2>3 DEF Duty!CallDisable
    <3>2. UNCHANGED <<object, early>> /\ enabled' = FALSE
      BY <2>3 DEF Duty!CallDisable
    <3> QED
      BY <3>1, <3>2 DEF DutyMade
  <2>4. CASE Duty!CallJoin
    <3>1. dutyPlan' = <<>>
      BY <2>0, <2>4 DEF Duty!CallJoin
    <3>2. object' = "none" /\ UNCHANGED <<early, enabled>>
      BY <2>4 DEF Duty!CallJoin
    <3> QED
      BY <3>1, <3>2 DEF DutyMade
  <2>5. CASE Duty!CallWrite \/ Duty!CallSetClear \/ Duty!CallDuty
    <3>1. UNCHANGED <<object, early, enabled>>
      BY <2>5 DEF Duty!CallWrite, Duty!CallSetClear, Duty!CallDuty
    <3>2. \/ dutyPlan \in {Write1, Clear1, Set1, Period} /\ dutyPlan' = <<>>
          \/ dutyPlan \in {Write4, Clear4} /\ dutyPlan' = Ending3
          \/ dutyPlan = Ending2 /\ dutyPlan' = Ending1
          \/ dutyPlan = Making4 /\ dutyPlan' = Making3
          \/ dutyPlan = Making3 /\ dutyPlan' = Making2
      BY <2>0, <2>5 DEF Duty!CallWrite, Duty!CallSetClear, Duty!CallDuty
    <3>3. dutyPlan \in {Write1, Clear1, Set1} => object = "none"
      BY DEF DutyInv, DutyPlan, OtherPlan
    <3> QED
      BY <3>1, <3>2, <3>3 DEF DutyMade
  <2> QED
    BY <1>2, <2>1, <2>2, <2>3, <2>4, <2>5 DEF Duty!Calls
<1>3. CASE Duty!Run \/ Duty!RunWakeOther \/ Duty!Pulse \/ UNCHANGED dutyVars
  <2>1. UNCHANGED <<dutyPlan, object, enabled>> /\ (early' = early \/ early' = TRUE)
    <3>1. UNCHANGED <<dutyPlan, object, enabled>> /\ (early' = early
            \/ early' = (early \/ object = "starting"))
      BY <1>3 DEF Duty!Run, Duty!RunTest, Duty!RunSelectPoll, Duty!RunEpollCreate,
         Duty!RunEpollMark, Duty!RunEpollSkip, Duty!RunEpollWait, Duty!RunWakeReady, Duty!RunRead,
         Duty!RunWakeOther, Duty!Pulse, Duty!ToThread, dutyVars, Duty!objectVars, Duty!threadVars
    <3>2. early \in BOOLEAN
      BY DEF DutyMade
    <3> QED
      BY <3>1, <3>2
  <2> QED
    BY <2>1 DEF DutyMade
<1> QED
  BY <1>1, <1>2, <1>3 DEF Duty!Next

LEMMA DutyWaitsNext ==
  DutyInv /\ DutyMade /\ DutyWaits /\ [Duty!Next]_dutyVars => DutyWaits'
<1> SUFFICES ASSUME DutyInv, DutyMade, DutyWaits, [Duty!Next]_dutyVars PROVE DutyWaits'
  OBVIOUS
<1>0. early \in BOOLEAN /\ object \in {"none", "starting", "built"}
  BY DEF DutyMade
<1>1. CASE Duty!Key \/ Duty!Pulse \/ UNCHANGED dutyVars
  <2>1. UNCHANGED <<object, ep, thread, waits, early>>
    BY <1>1 DEF Duty!Key, Duty!Pulse, dutyVars, Duty!objectVars, Duty!threadVars
  <2> QED
    BY <2>1 DEF DutyWaits
<1>2. CASE Duty!CallWrite \/ Duty!CallSetClear \/ Duty!CallDuty \/ Duty!CallDisable
  <2>1. UNCHANGED <<object, ep, thread, waits, early>>
    BY <1>2 DEF Duty!CallWrite, Duty!CallSetClear, Duty!CallDuty, Duty!CallDisable,
       Duty!objectVars, Duty!threadVars
  <2> QED
    BY <2>1 DEF DutyWaits
<1>3. CASE Duty!CallCreate
  BY <1>3 DEF Duty!CallCreate, DutyWaits
<1>4. CASE Duty!CallConstruct
  <2>1. dutyPlan # <<>> /\ Head(dutyPlan) = "construct"
    BY <1>4 DEF Duty!CallConstruct, Duty!Call
  <2>2. object = "starting"
    BY <2>1, PlanFacts DEF DutyInv, DutyPlan, OtherPlan, DutyMade
  <2> QED
    BY <1>4, <2>2 DEF Duty!CallConstruct, Duty!threadVars, DutyWaits
<1>5. CASE Duty!CallJoin
  BY <1>5 DEF Duty!CallJoin, DutyWaits
<1>6. CASE Duty!Run \/ Duty!RunWakeOther
  <2>1. object' = object /\ thread # "none" /\ thread' # "none"
        /\ early' = (early \/ object = "starting")
    BY <1>6 DEF Duty!Run, Duty!RunTest, Duty!RunSelectPoll, Duty!RunEpollCreate,
       Duty!RunEpollMark, Duty!RunEpollSkip, Duty!RunEpollWait, Duty!RunWakeReady, Duty!RunRead,
       Duty!RunWakeOther, Duty!ToThread, Duty!objectVars
  <2>2. object # "none" /\ (object = "starting" => early')
    BY <2>1 DEF DutyWaits
  <2>3. CASE object = "built" /\ ~early
    <3>1. ep \in {"none", "device"}
      BY <2>3 DEF DutyWaits
    <3>2. ep' \in {"none", "device"}
      BY <1>6, <2>3, <3>1 DEF Duty!Run, Duty!RunTest, Duty!RunSelectPoll, Duty!RunEpollCreate,
         Duty!RunEpollMark, Duty!RunEpollSkip, Duty!RunEpollWait, Duty!RunWakeReady, Duty!RunRead,
         Duty!RunWakeOther, Duty!objectVars
    <3>3. thread' = "wait" => waits' \in {"nothing", "device"}
      BY <1>6, <2>3, <3>1 DEF Duty!Run, Duty!RunTest, Duty!RunSelectPoll, Duty!RunEpollCreate,
         Duty!RunEpollMark, Duty!RunEpollSkip, Duty!RunEpollWait, Duty!RunWakeReady, Duty!RunRead,
         Duty!RunWakeOther, Duty!ToThread
    <3> QED
      BY <2>1, <2>2, <2>3, <3>2, <3>3 DEF DutyWaits
  <2>4. CASE object = "starting" \/ early
    <3>1. early'
      BY <1>0, <2>1, <2>4
    <3> QED
      BY <2>1, <2>2, <3>1 DEF DutyWaits
  <2> QED
    BY <1>0, <2>2, <2>3, <2>4
<1> QED
  BY <1>1, <1>2, <1>3, <1>4, <1>5, <1>6 DEF Duty!Next, Duty!Calls

LEMMA DutyJoins == DutyInv /\ DutyMade /\ DutyWaits => Duty!JoinNotBlocked
<1> SUFFICES ASSUME DutyInv, DutyMade, DutyWaits, dutyPlan = Ending1, ~early
             PROVE  /\ ~enabled /\ ~poll_enabled /\ thread # "none"
                    /\ thread = "wait" => waits \in {"nothing", "device"}
  BY DEF Duty!JoinNotBlocked, Duty!Joining, Ending1
<1>1. enabled = FALSE /\ object = "built"
  BY DEF DutyMade
<1>2. poll_enabled = FALSE
  BY PlanFacts DEF DutyInv, DutyPlan, OtherPlan
<1> QED
  BY <1>1, <1>2 DEF DutyWaits

LEMMA DutySafe == DutyInv => Duty!DriverFollowsMode
<1>1. ~(0 > 0)
  OBVIOUS
<1> QED
  BY <1>1 DEF DutyInv, DutyPlan, OtherPlan, Duty!DriverFollowsMode

-----------------------------------------------------------------------------
(* The OLED panel *)

LEMMA ModRange == ASSUME NEW m \in Nat \ {0}, NEW a \in Int
                  PROVE  /\ a % m \in 0 .. (m - 1) /\ a \div m \in Int
                         /\ a = m * (a \div m) + (a % m)
  OBVIOUS
LEMMA Grow == ASSUME NEW m \in Nat \ {0}, NEW q \in Int, q >= 1
                  PROVE  m * q >= m
<1>1. q - 1 >= 0 /\ m >= 0 /\ q - 1 \in Nat /\ m \in Nat
  OBVIOUS
<1>2. m * (q - 1) >= 0
  BY <1>1
<1>3. m * (q - 1) = m * q - m
  BY Z3
<1> QED
  BY <1>2, <1>3

LEMMA DivUnique == ASSUME NEW m \in Nat \ {0}, NEW q \in Int, NEW r \in 0 .. (m - 1),
                          NEW p \in Int, NEW s \in 0 .. (m - 1),
                     m * q + r = m * p + s
                  PROVE  q = p /\ r = s
<1>1. m * (q - p) = s - r
  BY SMT
<1>2. CASE q - p >= 1
  BY <1>1, <1>2, Grow
<1>3. CASE p - q >= 1
  <2>1. m * (p - q) = r - s
    BY SMT
  <2> QED
    BY <2>1, <1>3, Grow
<1>4. CASE p = q
  BY <1>4
<1> QED
  BY <1>2, <1>3, <1>4

LEMMA ModUnique == ASSUME NEW m \in Nat \ {0}, NEW q \in Int, NEW r \in 0 .. (m - 1)
                  PROVE  (m * q + r) % m = r
<1> DEFINE a == m * q + r
<1>1. a \in Int
  OBVIOUS
<1> HIDE DEF a
<1>2. a % m \in 0 .. (m - 1) /\ a \div m \in Int /\ a = m * (a \div m) + (a % m)
  BY <1>1, ModRange
<1>3. m * q + r = m * (a \div m) + (a % m)
  BY <1>2 DEF a
<1>4. r = a % m
  <2> DEFINE p == a \div m
             t == a % m
  <2> HIDE DEF p, t
  <2>1. p \in Int /\ t \in 0 .. (m - 1) /\ m * q + r = m * p + t
    BY <1>2, <1>3 DEF p, t
  <2>2. r = t
    BY <2>1, DivUnique
  <2> QED
    BY <2>2 DEF t
<1> QED
  BY <1>4 DEF a

LEMMA ModWithin == ASSUME NEW m \in Nat \ {0}, NEW r \in 0 .. (m - 1)
                   PROVE  r % m = r
<1>1. (m * 0 + r) % m = r
  BY ModUnique
<1>2. m * 0 + r = r
  OBVIOUS
<1> QED
  BY <1>1, <1>2

\* The quotient of what was put together from one
LEMMA DivOf == ASSUME NEW m \in Nat \ {0}, NEW q \in Int, NEW r \in 0 .. (m - 1)
               PROVE  (m * q + r) \div m = q
<1> DEFINE a == m * q + r
           s == a % m
           p == a \div m
<1>1. a \in Int
  OBVIOUS
<1> HIDE DEF a
<1>2. s \in 0 .. (m - 1) /\ p \in Int /\ a = m * p + s
  BY <1>1, ModRange
<1> HIDE DEF s, p
<1>3. m * q + r = m * p + s
  BY <1>2 DEF a
<1>4. q = p
  BY <1>2, <1>3, DivUnique
<1> QED
  BY <1>4 DEF p, a

\* A number below a product is below it in quotient and remainder.
LEMMA CellIn ==
  ASSUME NEW w \in Nat \ {0}, NEW h \in Nat \ {0}, NEW n \in 0 .. (w * h - 1)
  PROVE  n % w \in 0 .. (w - 1) /\ n \div w \in 0 .. (h - 1)
<1> DEFINE r == n % w
           q == n \div w
<1>0. w * h \in Nat
  OBVIOUS
<1>1. n \in Int /\ n >= 0 /\ n < w * h
  BY <1>0
<1>2. r \in 0 .. (w - 1) /\ q \in Int /\ n = w * q + r
  BY <1>1, ModRange
<1> HIDE DEF r, q
<1>3. ~(q <= -1)
  <2> SUFFICES ASSUME q <= -1 PROVE FALSE
    OBVIOUS
  <2>1. 0 - q \in Int /\ 0 - q >= 1
    BY <1>2
  <2>2. w * (0 - q) >= w
    BY <2>1, Grow
  <2>3. w * (0 - q) = 0 - w * q
    BY <1>2
  <2> QED
    BY <1>1, <1>2, <2>2, <2>3
<1>4. ~(q >= h)
  <2> SUFFICES ASSUME q >= h PROVE FALSE
    OBVIOUS
  <2>1. CASE q = h
    BY <1>1, <1>2, <2>1
  <2>2. CASE q - h >= 1
    <3>1. w * (q - h) >= w
      BY <1>2, <2>2, Grow
    <3>2. w * (q - h) = w * q - w * h
      BY <1>2
    <3>3. w * q \in Int
      BY <1>2
    <3> QED
      BY <1>0, <1>1, <1>2, <3>1, <3>2, <3>3
  <2> QED
    BY <1>2, <2>1, <2>2
<1>5. q \in 0 .. (h - 1)
  BY <1>2, <1>3, <1>4
<1> QED
  BY <1>2, <1>5 DEF r, q

\* Every row and column of a rectangle has its number.
LEMMA CellOut ==
  ASSUME NEW w \in Nat \ {0}, NEW h \in Nat \ {0}, NEW c \in 0 .. (w - 1), NEW r \in 0 .. (h - 1)
  PROVE  /\ w * r + c \in 0 .. (w * h - 1)
         /\ (w * r + c) % w = c /\ (w * r + c) \div w = r
<1>1. (w * r + c) % w = c /\ (w * r + c) \div w = r
  BY ModUnique, DivOf
<1>2. w * r \in Nat /\ w * h \in Nat
  OBVIOUS
<1>3. w * (h - r) >= w
  <2>1. h - r \in Int /\ h - r >= 1
    OBVIOUS
  <2> QED
    BY <2>1, Grow
<1>4. w * (h - r) = w * h - w * r
  OBVIOUS
<1> QED
  BY <1>1, <1>2, <1>3, <1>4

\* What a drawing call stores, whatever the order
Elements(s) == {s[k] : k \in DOMAIN s}
Stores == [index : Int, rows : SUBSET Int, color : BOOLEAN]

LEMMA ElementsOfConcat ==
  ASSUME NEW S, NEW s \in Seq(S), NEW t \in Seq(S)
  PROVE  s \o t \in Seq(S) /\ Elements(s \o t) = Elements(s) \union Elements(t)
<1>1. /\ s \o t \in Seq(S)
      /\ Len(s \o t) = Len(s) + Len(t)
      /\ \A i \in 1 .. Len(s) + Len(t) : (s \o t)[i] = IF i <= Len(s) THEN s[i] ELSE t[i - Len(s)]
  BY ConcatProperties
<1>2. /\ DOMAIN s = 1 .. Len(s) /\ DOMAIN t = 1 .. Len(t) /\ DOMAIN (s \o t) = 1 .. Len(s \o t)
      /\ Len(s) \in Nat /\ Len(t) \in Nat
  BY <1>1, LenProperties
<1> DEFINE u == s \o t
<1> HIDE DEF u
<1>3. /\ DOMAIN u = 1 .. (Len(s) + Len(t))
      /\ \A i \in 1 .. Len(s) + Len(t) : u[i] = IF i <= Len(s) THEN s[i] ELSE t[i - Len(s)]
  BY <1>1, <1>2 DEF u
<1>4. ASSUME NEW e \in Elements(u) PROVE e \in Elements(s) \union Elements(t)
  <2>1. PICK k \in DOMAIN u : e = u[k]
    BY <1>4 DEF Elements
  <2>2. CASE k <= Len(s)
    BY <1>2, <1>3, <2>1, <2>2 DEF Elements
  <2>3. CASE k > Len(s)
    <3>1. k - Len(s) \in DOMAIN t /\ e = t[k - Len(s)]
      BY <1>2, <1>3, <2>1, <2>3
    <3> QED
      BY <3>1 DEF Elements
  <2> QED
    BY <1>2, <1>3, <2>1, <2>2, <2>3
<1>5. ASSUME NEW e \in Elements(s) PROVE e \in Elements(u)
  <2>1. PICK k \in DOMAIN s : e = s[k]
    BY <1>5 DEF Elements
  <2>2. k \in DOMAIN u /\ u[k] = e
    BY <1>2, <1>3, <2>1
  <2> QED
    BY <2>2 DEF Elements
<1>6. ASSUME NEW e \in Elements(t) PROVE e \in Elements(u)
  <2>1. PICK k \in DOMAIN t : e = t[k]
    BY <1>6 DEF Elements
  <2>2. /\ k + Len(s) \in 1 .. (Len(s) + Len(t)) /\ ~(k + Len(s) <= Len(s))
        /\ k + Len(s) - Len(s) = k
    BY <1>2, <2>1
  <2>3. k + Len(s) \in DOMAIN u /\ u[k + Len(s)] = e
    BY <1>3, <2>1, <2>2
  <2> QED
    BY <2>3 DEF Elements
<1> QED
  BY <1>1, <1>4, <1>5, <1>6 DEF u

\* The pixels of a rectangle given by its columns and rows
Pixels(P, color) == {Panel!Pixel(p[1], p[2], color) : p \in P}

LEMMA PixelIsStore ==
  ASSUME Panel!PanelAssumption, NEW x \in Int, NEW y \in Int, NEW color \in BOOLEAN
  PROVE  Panel!Pixel(x, y, color) \in Stores
<1>1. PageRows \in Nat \ {0} /\ Width \in Nat
  BY DEF Panel!PanelAssumption
<1>2. y % PageRows \in Int /\ y \div PageRows \in Int
  BY <1>1, ModRange
<1>3. (y \div PageRows) * Width \in Int
  BY <1>1, <1>2
<1>4. Panel!Index(x, y) \in Int
  BY <1>1, <1>2, <1>3 DEF Panel!Index
<1> QED
  BY <1>2, <1>4 DEF Panel!Pixel, Stores

LEMMA FillRectPixels ==
  ASSUME Panel!PanelAssumption, NEW x \in Nat, NEW y \in Nat, NEW w \in Nat \ {0},
         NEW h \in Nat \ {0},
         y + h <= Wrap, NEW color \in BOOLEAN
  PROVE  /\ Panel!FillRect(x, y, w, h, color) \in Seq(Stores)
         /\ Elements(Panel!FillRect(x, y, w, h,
                                    color)) = Pixels((x .. x + w - 1) \X (y .. y + h - 1), color)
<1>0. Wrap \in Nat \ {0} /\ w * h \in Nat
  BY DEF Panel!PanelAssumption
<1> DEFINE f == Panel!FillRect(x, y, w, h, color)
           P == (x .. x + w - 1) \X (y .. y + h - 1)
           n == w * h
<1>1. ASSUME NEW k \in 1 .. n
      PROVE  /\ (k - 1) % w \in 0 .. (w - 1) /\ (k - 1) \div w \in 0 .. (h - 1)
             /\ (y + ((k - 1) \div w)) % Wrap = y + ((k - 1) \div w)
  <2>1. k - 1 \in 0 .. (w * h - 1)
    BY <1>0
  <2>2. (k - 1) % w \in 0 .. (w - 1) /\ (k - 1) \div w \in 0 .. (h - 1)
    BY <2>1, CellIn
  <2> DEFINE d == y + ((k - 1) \div w)
  <2>3. d \in 0 .. (Wrap - 1)
    BY <1>0, <2>2
  <2> HIDE DEF d
  <2>4. d % Wrap = d
    BY <1>0, <2>3, ModWithin
  <2> QED
    BY <2>2, <2>4 DEF d
<1>2. DOMAIN f = 1 .. n
      /\ \A k \in 1 .. n : f[k] = Panel!Pixel(x + ((k - 1) % w), y + ((k - 1) \div w), color)
  <2>1. f = [k \in 1 .. n |-> Panel!Pixel(x + ((k - 1) % w), (y + ((k - 1) \div w)) % Wrap, color)]
    BY DEF Panel!FillRect
  <2> HIDE DEF f, n
  <2> QED
    BY <1>1, <2>1
<1> HIDE DEF f, n
<1>3. \A k \in 1 .. n : f[k] \in Pixels(P, color) /\ f[k] \in Stores
  <2> TAKE k \in 1 .. n
  <2> DEFINE i == x + ((k - 1) % w)
             j == y + ((k - 1) \div w)
  <2>a. f[k] = Panel!Pixel(i, j, color)
    BY <1>2
  <2>b. i \in x .. x + w - 1 /\ j \in y .. y + h - 1
    <3>1. (k - 1) % w \in 0 .. (w - 1) /\ (k - 1) \div w \in 0 .. (h - 1)
      BY <1>1
    <3> DEFINE c == (k - 1) % w
               r == (k - 1) \div w
    <3>2. c \in 0 .. (w - 1) /\ r \in 0 .. (h - 1) /\ i = x + c /\ j = y + r
      BY <3>1
    <3> HIDE DEF c, r, i, j
    <3> QED
      BY <3>2
  <2> HIDE DEF i, j
  <2>1. i \in x .. x + w - 1 /\ j \in y .. y + h - 1 /\ f[k] = Panel!Pixel(i, j, color)
    BY <2>a, <2>b
  <2>2. <<i, j>> \in P /\ <<i, j>>[1] = i /\ <<i, j>>[2] = j
    BY <2>1
  <2>3. f[k] \in Stores
    BY <2>1, PixelIsStore
  <2> QED
    BY <2>1, <2>2, <2>3 DEF Pixels
<1>4. ASSUME NEW p \in P PROVE \E k \in 1 .. n : f[k] = Panel!Pixel(p[1], p[2], color)
  <2> DEFINE c == p[1] - x
             r == p[2] - y
             m == w * r + c
  <2>1. c \in 0 .. (w - 1) /\ r \in 0 .. (h - 1) /\ x + c = p[1] /\ y + r = p[2]
    OBVIOUS
  <2> HIDE DEF c, r
  <2>2. m \in 0 .. (w * h - 1) /\ m % w = c /\ m \div w = r
    BY <2>1, CellOut, SMTT(30)
  <2> HIDE DEF m
  <2>3. m + 1 \in 1 .. n /\ (m + 1) - 1 = m
    BY <1>0, <2>2 DEF n
  <2>4. f[m + 1] = Panel!Pixel(x + (m % w), y + (m \div w), color)
    BY <1>2, <2>3
  <2> QED
    BY <2>1, <2>2, <2>3, <2>4
<1>5. f \in Seq(Stores)
  <2>1. f \in [1 .. n -> Stores]
    <3>1. f = [k \in 1 .. n |-> f[k]]
      BY <1>2 DEF f, Panel!FillRect
    <3> QED
      BY <1>3, <3>1
  <2>2. n \in Nat
    BY <1>0 DEF n
  <2> QED
    BY <2>1, <2>2, SeqDef
<1>6. Elements(f) = Pixels(P, color)
  <2> HIDE DEF P
  <2>1. ASSUME NEW e \in Elements(f) PROVE e \in Pixels(P, color)
    <3>1. PICK k \in 1 .. n : e = f[k]
      BY <1>2 DEF Elements
    <3> QED
      BY <1>3, <3>1
  <2>2. ASSUME NEW e \in Pixels(P, color) PROVE e \in Elements(f)
    <3>1. PICK p \in P : e = Panel!Pixel(p[1], p[2], color)
      BY DEF Pixels
    <3>2. PICK k \in 1 .. n : f[k] = Panel!Pixel(p[1], p[2], color)
      BY <1>4, <3>1
    <3>3. k \in DOMAIN f
      BY <1>2
    <3> QED
      BY <3>1, <3>2, <3>3 DEF Elements
  <2> QED
    BY <2>1, <2>2
<1> QED
  BY <1>5, <1>6 DEF f

LEMMA MinOfTwo == ASSUME NEW a \in Int, NEW b \in Int
                  PROVE  /\ Panel!Min({a, b}) \in {a, b} /\ Panel!Min({a, b}) <= a
                            /\ Panel!Min({a, b}) <= b
<1>1. \E z \in {a, b} : \A u \in {a, b} : z <= u
  OBVIOUS
<1> QED
  BY <1>1 DEF Panel!Min

\* rect() at a place of the screen clips its size to the screen.
LEMMA Clipped ==
  ASSUME NEW N \in Nat \ {0}, NEW a \in 0 .. (N - 1), NEW len \in Nat \ {0}
  PROVE  LET e == Panel!Min({N - 1, a + len - 1})
         IN  /\ e \in a .. (N - 1)
             /\ \A i \in Int : i \in 0 .. (N - 1) /\ i \in a .. (a + len - 1) <=> i \in a .. e
<1> DEFINE e == Panel!Min({N - 1, a + len - 1})
<1>1. N - 1 \in Int /\ a + len - 1 \in Int
  OBVIOUS
<1>2. e \in {N - 1, a + len - 1} /\ e <= N - 1 /\ e <= a + len - 1
  BY <1>1, MinOfTwo
<1> HIDE DEF e
<1> SUFFICES e \in a .. (N - 1) /\ \A i \in Int : i \in 0 .. (N - 1) /\ i \in a .. (a + len - 1)
    <=> i \in a .. e
  BY DEF e
<1>3. e \in a .. (N - 1)
  BY <1>2
<1>4. \A i \in Int : i \in 0 .. (N - 1) /\ i \in a .. (a + len - 1) <=> i \in a .. e
  BY <1>2
<1> QED
  BY <1>3, <1>4

\* The border of a rectangle
Border(x, y, s, t) ==
  ((x .. s) \X (y .. y)) \union ((x .. x) \X (y .. t)) \union ((x .. s) \X (t .. t)) \union ((s .. s) \X (y .. t))

LEMMA BorderIsRest ==
  ASSUME NEW x \in Int, NEW y \in Int, NEW s \in Int, NEW t \in Int, x <= s, y <= t
  PROVE  Border(x, y, s, t) = ((x .. s) \X (y .. t)) \ Panel!Inner((x .. s) \X (y .. t))
<1> DEFINE S == (x .. s) \X (y .. t)
<1>1. \A a, b : <<a, b>> \in S <=> a \in x .. s /\ b \in y .. t
  OBVIOUS
<1>2. ASSUME NEW p \in S
      PROVE  p \in Panel!Inner(S) <=> /\ <<p[1] + 1, p[2]>> \in S /\ <<p[1] - 1, p[2]>> \in S
                                      /\ <<p[1], p[2] + 1>> \in S /\ <<p[1], p[2] - 1>> \in S
  <2>1. p[1] \in Int /\ p[2] \in Int
    OBVIOUS
  <2> HIDE DEF S
  <2>2. p \in Panel!Inner(S)
        <=> \A d \in {<<1, 0>>, <<-1, 0>>, <<0, 1>>, <<0, -1>>} : <<p[1] + d[1], p[2] + d[2]>> \in S
    BY DEF Panel!Inner
  <2>3. (\A d \in {<<1, 0>>, <<-1, 0>>, <<0, 1>>, <<0, -1>>} : <<p[1] + d[1], p[2] + d[2]>> \in S)
          <=> /\ <<p[1] + 1, p[2] + 0>> \in S /\ <<p[1] + -1, p[2] + 0>> \in S
              /\ <<p[1] + 0, p[2] + 1>> \in S /\ <<p[1] + 0, p[2] + -1>> \in S
    OBVIOUS
  <2>4. p[1] + 0 = p[1] /\ p[2] + 0 = p[2] /\ p[1] + -1 = p[1] - 1 /\ p[2] + -1 = p[2] - 1
    BY <2>1
  <2> QED
    BY <2>2, <2>3, <2>4
<1>3. ASSUME NEW p \in S
      PROVE  p \in Panel!Inner(S) <=> p[1] # x /\ p[1] # s /\ p[2] # y /\ p[2] # t
  <2>1. p[1] \in x .. s /\ p[2] \in y .. t
    OBVIOUS
  <2>2. p \in Panel!Inner(S) <=> /\ p[1] + 1 \in x .. s /\ p[1] - 1 \in x .. s
                                 /\ p[2] + 1 \in y .. t /\ p[2] - 1 \in y .. t
    <3> HIDE DEF S
    <3> QED
      BY <1>1, <1>2, <2>1
  <2> QED
    BY <2>1, <2>2
<1>4. \A p : p \in Border(x, y, s, t) <=> p \in S /\ (p[1] = x \/ p[1] = s \/ p[2] = y \/ p[2] = t)
  BY DEF Border
<1> HIDE DEF S
<1>5. Border(x, y, s, t) = S \ Panel!Inner(S)
  BY <1>3, <1>4 DEF Panel!Inner
<1> QED
  BY <1>5 DEF S

\* What is to be seen of a rectangle
Drawn(x, y, width, height, fill) ==
  LET S == Panel!OnScreen(x, y, width, height) IN IF fill THEN S ELSE S \ Panel!Inner(S)

LEMMA RectPixels ==
  ASSUME Panel!PanelAssumption, NEW x \in 0 .. (Wrap - 1), NEW y \in 0 .. (Wrap - 1),
         NEW width \in 0 .. (Wrap - 1), NEW height \in 0 .. (Wrap - 1),
         NEW color \in BOOLEAN, NEW fill \in BOOLEAN
  PROVE  /\ Panel!Rect(x, y, width, height, color, fill) \in Seq(Stores)
         /\ Elements(Panel!Rect(x, y, width, height, color, fill)) =
              Pixels(Drawn(x, y, width, height, fill), color)
<1> DEFINE S == Panel!OnScreen(x, y, width, height)
           R == Panel!Rect(x, y, width, height, color, fill)
           x_end == Panel!Min({Width - 1, x + width - 1})
           y_end == Panel!Min({Panel!Height - 1, y + height - 1})
<1>0. Width \in Nat \ {0} /\ Panel!Height \in Nat \ {0} /\ Wrap \in Nat \ {0} /\ Wrap > Width
      /\ Wrap > Panel!Height
  <2>1. Pages \in Nat \ {0} /\ PageRows \in Nat \ {0}
    BY DEF Panel!PanelAssumption
  <2>2. Pages * PageRows \in Nat \ {0}
    <3>1. Pages * PageRows >= Pages
      BY <2>1, Grow
    <3>2. Pages * PageRows \in Nat
      BY <2>1
    <3> QED
      BY <2>1, <3>1, <3>2
  <2> QED
    BY <2>2 DEF Panel!PanelAssumption, Panel!Height
<1>1. CASE width < 1 \/ height < 1 \/ y >= Panel!Height \/ x >= Width
  <2>1. R = <<>>
    BY <1>1 DEF Panel!Rect
  <2>2. S = {}
    <3>1. \A i \in 0 .. (Width - 1), j \in 0 .. (Panel!Height - 1) :
            ~(i \in x .. (x + width - 1) /\ j \in y .. (y + height - 1))
      BY <1>0, <1>1
    <3> QED
      BY <3>1 DEF Panel!OnScreen
  <2>3. Elements(<<>>) = {} /\ <<>> \in Seq(Stores)
    BY DEF Elements
  <2>4. (IF fill THEN S ELSE S \ Panel!Inner(S)) = {}
    <3> HIDE DEF S
    <3> QED
      BY <2>2
  <2>5. Pixels({}, color) = {}
    BY DEF Pixels
  <2> HIDE DEF S, R
  <2>6. R \in Seq(Stores) /\ Elements(R) = Pixels(IF fill THEN S ELSE S \ Panel!Inner(S), color)
    BY <2>1, <2>3, <2>4, <2>5
  <2> QED
    BY <2>6 DEF S, R, Drawn
<1>2. CASE ~(width < 1 \/ height < 1 \/ y >= Panel!Height \/ x >= Width)
  <2>1. /\ x \in 0 .. (Width - 1) /\ y \in 0 .. (Panel!Height - 1) /\ width \in Nat \ {0}
           /\ height \in Nat \ {0}
    BY <1>0, <1>2
  <2>2. /\ x_end \in x .. (Width - 1)
        /\ \A i \in Int : i \in 0 .. (Width - 1) /\ i \in x .. (x + width - 1) <=> i \in x .. x_end
    BY <1>0, <2>1, Clipped
  <2>3. /\ y_end \in y .. (Panel!Height - 1)
        /\ \A i \in Int : i \in 0 .. (Panel!Height - 1) /\ i \in y .. (y + height - 1)
           <=> i \in y .. y_end
    BY <1>0, <2>1, Clipped
  <2>4. R = IF fill THEN Panel!FillRect(x, y, x_end - x + 1, y_end - y + 1, color)
            ELSE Panel!FillRect(x, y, x_end - x + 1, 1, color) \o Panel!FillRect(x, y, 1,
                                                                                 y_end - y + 1,
                                                                                 color)
                 \o Panel!FillRect(x, y_end, x_end - x + 1, 1, color) \o Panel!FillRect(x_end, y,
                   1, y_end - y + 1, color)
    BY <1>2 DEF Panel!Rect
  <2> HIDE DEF x_end, y_end
  <2>5. S = (x .. x_end) \X (y .. y_end)
    <3>1. ASSUME NEW p \in (0 .. (Width - 1)) \X (0 .. (Panel!Height - 1))
          PROVE  p[1] \in x .. (x + width - 1) /\ p[2] \in y .. (y + height - 1)
                 <=> p \in (x .. x_end) \X (y .. y_end)
      BY <2>2, <2>3
    <3>2. (x .. x_end) \X (y .. y_end) \subseteq (0 .. (Width - 1)) \X (0 .. (Panel!Height - 1))
      BY <1>0, <2>1, <2>2, <2>3
    <3> QED
      BY <3>1, <3>2 DEF Panel!OnScreen
  <2> DEFINE w == x_end - x + 1
             h == y_end - y + 1
             u == 1
  <2>6. /\ x \in Nat /\ y \in Nat /\ x_end \in Nat /\ y_end \in Nat
        /\ w \in Nat \ {0} /\ h \in Nat \ {0} /\ u \in Nat \ {0} /\ u = 1
        /\ y + h <= Wrap /\ y + u <= Wrap /\ y_end + u <= Wrap
        /\ x + w - 1 = x_end /\ y + h - 1 = y_end
        /\ x <= x_end /\ y <= y_end
    BY <1>0, <2>1, <2>2, <2>3
  <2>14. R = IF fill THEN Panel!FillRect(x, y, w, h, color)
             ELSE Panel!FillRect(x, y, w, u, color) \o Panel!FillRect(x, y, u, h, color)
                  \o Panel!FillRect(x, y_end, w, u, color) \o Panel!FillRect(x_end, y, u, h, color)
    BY <2>4
  <2> HIDE DEF w, h, u, R, S
  <2>7. /\ Panel!FillRect(x, y, w, h, color) \in Seq(Stores)
        /\ Elements(Panel!FillRect(x, y, w, h, color)) = Pixels((x .. x_end) \X (y .. y_end), color)
    <3>0. /\ x \in Nat /\ y \in Nat /\ w \in Nat \ {0} /\ h \in Nat \ {0}
          /\ y + h <= Wrap /\ Panel!PanelAssumption /\ color \in BOOLEAN
      BY <2>6
    <3>1. /\ Panel!FillRect(x, y, w, h, color) \in Seq(Stores)
          /\ Elements(Panel!FillRect(x, y, w, h, color)) =
               Pixels((x .. x + w - 1) \X (y .. y + h - 1), color)
      BY <3>0, FillRectPixels
    <3>2. x + w - 1 = x_end /\ y + h - 1 = y_end
      BY <2>6
    <3> QED
      BY <3>1, <3>2
  <2>8. /\ Panel!FillRect(x, y, w, u, color) \in Seq(Stores)
        /\ Elements(Panel!FillRect(x, y, w, u, color)) = Pixels((x .. x_end) \X (y .. y), color)
    <3>0. /\ x \in Nat /\ y \in Nat /\ w \in Nat \ {0} /\ u \in Nat \ {0} /\ u = 1
          /\ y + u <= Wrap /\ Panel!PanelAssumption /\ color \in BOOLEAN
      BY <2>6
    <3>1. /\ Panel!FillRect(x, y, w, u, color) \in Seq(Stores)
          /\ Elements(Panel!FillRect(x, y, w, u, color)) =
               Pixels((x .. x + w - 1) \X (y .. y + u - 1), color)
      BY <3>0, FillRectPixels
    <3>2. x + w - 1 = x_end /\ y + u - 1 = y
      BY <2>6
    <3> QED
      BY <3>1, <3>2
  <2>9. /\ Panel!FillRect(x, y, u, h, color) \in Seq(Stores)
        /\ Elements(Panel!FillRect(x, y, u, h, color)) = Pixels((x .. x) \X (y .. y_end), color)
    <3>0. /\ x \in Nat /\ y \in Nat /\ u \in Nat \ {0} /\ h \in Nat \ {0}
          /\ y + h <= Wrap /\ Panel!PanelAssumption /\ color \in BOOLEAN
      BY <2>6
    <3>1. /\ Panel!FillRect(x, y, u, h, color) \in Seq(Stores)
          /\ Elements(Panel!FillRect(x, y, u, h, color)) =
               Pixels((x .. x + u - 1) \X (y .. y + h - 1), color)
      BY <3>0, FillRectPixels
    <3>2. x + u - 1 = x /\ y + h - 1 = y_end
      BY <2>6
    <3> QED
      BY <3>1, <3>2
  <2>10. /\ Panel!FillRect(x, y_end, w, u, color) \in Seq(Stores)
         /\ Elements(Panel!FillRect(x, y_end, w, u,
                                    color)) = Pixels((x .. x_end) \X (y_end .. y_end), color)
    <3>0. /\ x \in Nat /\ y_end \in Nat /\ w \in Nat \ {0} /\ u \in Nat \ {0} /\ u = 1
          /\ y_end + u <= Wrap /\ Panel!PanelAssumption /\ color \in BOOLEAN
      BY <2>6
    <3>1. /\ Panel!FillRect(x, y_end, w, u, color) \in Seq(Stores)
          /\ Elements(Panel!FillRect(x, y_end, w, u, color)) =
               Pixels((x .. x + w - 1) \X (y_end .. y_end + u - 1), color)
      BY <3>0, FillRectPixels
    <3>2. x + w - 1 = x_end /\ y_end + u - 1 = y_end
      BY <2>6
    <3> QED
      BY <3>1, <3>2
  <2>11. /\ Panel!FillRect(x_end, y, u, h, color) \in Seq(Stores)
         /\ Elements(Panel!FillRect(x_end, y, u, h,
                                    color)) = Pixels((x_end .. x_end) \X (y .. y_end), color)
    <3>0. /\ x_end \in Nat /\ y \in Nat /\ u \in Nat \ {0} /\ h \in Nat \ {0}
          /\ y + h <= Wrap /\ Panel!PanelAssumption /\ color \in BOOLEAN
      BY <2>6
    <3>1. /\ Panel!FillRect(x_end, y, u, h, color) \in Seq(Stores)
          /\ Elements(Panel!FillRect(x_end, y, u, h, color)) =
               Pixels((x_end .. x_end + u - 1) \X (y .. y + h - 1), color)
      BY <3>0, FillRectPixels
    <3>2. x_end + u - 1 = x_end /\ y + h - 1 = y_end
      BY <2>6
    <3> QED
      BY <3>1, <3>2
  <2>12. R \in Seq(Stores) /\ Elements(R) = Pixels(IF fill THEN S ELSE S \ Panel!Inner(S), color)
    <3>1. CASE fill
      <4>1. R = Panel!FillRect(x, y, w, h, color)
        BY <2>14, <3>1
      <4> QED
        BY <2>5, <2>7, <3>1, <4>1
    <3>2. CASE ~fill
      <4> DEFINE f1 == Panel!FillRect(x, y, w, u, color)
                 f2 == Panel!FillRect(x, y, u, h, color)
                 f3 == Panel!FillRect(x, y_end, w, u, color)
                 f4 == Panel!FillRect(x_end, y, u, h, color)
                 g2 == f1 \o f2
                 g3 == g2 \o f3
                 P1 == (x .. x_end) \X (y .. y)
                 P2 == (x .. x) \X (y .. y_end)
                 P3 == (x .. x_end) \X (y_end .. y_end)
                 P4 == (x_end .. x_end) \X (y .. y_end)
      <4>1. R = g3 \o f4
        BY <2>14, <3>2
      <4>2. /\ f1 \in Seq(Stores) /\ f2 \in Seq(Stores) /\ f3 \in Seq(Stores) /\ f4 \in Seq(Stores)
            /\ Elements(f1) = Pixels(P1, color) /\ Elements(f2) = Pixels(P2, color)
            /\ Elements(f3) = Pixels(P3, color) /\ Elements(f4) = Pixels(P4, color)
        BY <2>8, <2>9, <2>10, <2>11
      <4>3. Border(x, y, x_end, y_end) = ((P1 \union P2) \union P3) \union P4
        BY DEF Border
      <4> HIDE DEF f1, f2, f3, f4, P1, P2, P3, P4, g3
      <4>4. g2 \in Seq(Stores) /\ Elements(g2) = Elements(f1) \union Elements(f2)
        BY <4>2, ElementsOfConcat
      <4> HIDE DEF g2
      <4>5. g3 \in Seq(Stores) /\ Elements(g3) = Elements(g2) \union Elements(f3)
        BY <4>2, <4>4, ElementsOfConcat DEF g3
      <4>6. g3 \o f4 \in Seq(Stores) /\ Elements(g3 \o f4) = Elements(g3) \union Elements(f4)
        BY <4>2, <4>5, ElementsOfConcat
      <4>7. Pixels(((P1 \union P2) \union P3) \union P4, color) =
              ((Pixels(P1, color) \union Pixels(P2, color)) \union Pixels(P3,
                                                                          color)) \union Pixels(P4, color)
        BY DEF Pixels
      <4>8. Elements(R) = Pixels(Border(x, y, x_end, y_end), color)
        <5>2. Elements(R) = ((Elements(f1) \union Elements(f2)) \union Elements(f3)) \union Elements(f4)
          BY <4>1, <4>4, <4>5, <4>6
        <5> QED
          BY <4>2, <4>3, <4>7, <5>2
      <4>9. Border(x, y, x_end, y_end) = S \ Panel!Inner(S)
        <5>1. x \in Int /\ y \in Int /\ x_end \in Int /\ y_end \in Int /\ x <= x_end /\ y <= y_end
          BY <2>6
        <5>2. Border(x, y, x_end,
                     y_end) = ((x .. x_end) \X (y .. y_end)) \ Panel!Inner((x .. x_end) \X (y .. y_end))
          BY <5>1, BorderIsRest
        <5> QED
          BY <2>5, <5>2
      <4> QED
        BY <3>2, <4>1, <4>6, <4>8, <4>9
    <3> QED
      BY <3>1, <3>2
  <2> QED
    BY <2>12 DEF R, S, Drawn
<1> QED
  BY <1>1, <1>2

LEMMA PanelRect == Panel!PanelAssumption => Panel!RectIsClipped
<1>1. ASSUME Panel!PanelAssumption, NEW x \in 0 .. (Wrap - 1), NEW y \in 0 .. (Wrap - 1),
             NEW width \in 0 .. (Wrap - 1), NEW height \in 0 .. (Wrap - 1),
             NEW color \in BOOLEAN, NEW fill \in BOOLEAN
      PROVE  {Panel!Rect(x, y, width, height, color, fill)[k] : k \in DOMAIN Panel!Rect(x, y,
             width, height, color, fill)} =
             {Panel!Pixel(p[1], p[2], color) : p \in Drawn(x, y, width, height, fill)}
  <2>1. Elements(Panel!Rect(x, y, width, height, color, fill)) = Pixels(Drawn(x, y, width, height,
                                                                              fill), color)
    BY <1>1, RectPixels
  <2> DEFINE stores == Panel!Rect(x, y, width, height, color, fill)
             P == Drawn(x, y, width, height, fill)
  <2> HIDE DEF stores, P
  <2>2. Elements(stores) = {stores[k] : k \in DOMAIN stores}
        /\ Pixels(P, color) = {Panel!Pixel(p[1], p[2], color) : p \in P}
    BY DEF Elements, Pixels
  <2> QED
    BY <2>1, <2>2 DEF stores, P
<1> QED
  BY <1>1, Zenon DEF Panel!RectIsClipped, Drawn

\* What a pixel of the screen stores is in the frame buffer.
OnBuffer == {s \in Stores : s.index \in Panel!Bytes}

LEMMA PixelOnBuffer ==
  ASSUME Panel!PanelAssumption, NEW x \in 0 .. (Width - 1), NEW y \in 0 .. (Panel!Height - 1),
         NEW color \in BOOLEAN
  PROVE  Panel!Pixel(x, y, color) \in OnBuffer
<1>1. Width \in Nat \ {0} /\ Pages \in Nat \ {0} /\ PageRows \in Nat \ {0}
  BY DEF Panel!PanelAssumption
<1>2. Panel!Height = PageRows * Pages /\ Panel!Height \in Nat
  BY <1>1 DEF Panel!Height
<1>3. y \in 0 .. (PageRows * Pages - 1) /\ y \in Int /\ x \in Int
  BY <1>2
<1> DEFINE q == y \div PageRows
<1>4. q \in 0 .. (Pages - 1)
  BY <1>1, <1>3, CellIn
<1> HIDE DEF q
<1>5. Width * q + x \in 0 .. (Width * Pages - 1)
  BY <1>1, <1>4, CellOut
<1>6. q * Width = Width * q /\ Width * q \in Int /\ Width * Pages \in Nat
  BY <1>1, <1>4
<1>7. Panel!Index(x, y) \in Panel!Bytes
  <2>1. Panel!Index(x, y) = q * Width + x + 1
    BY DEF Panel!Index, q
  <2> QED
    BY <1>3, <1>5, <1>6, <2>1 DEF Panel!Bytes
<1>8. Panel!Pixel(x, y, color) \in Stores /\ Panel!Pixel(x, y, color).index = Panel!Index(x, y)
  <2>1. Panel!Pixel(x, y, color) \in Stores
    BY <1>3, PixelIsStore
  <2> QED
    BY <2>1 DEF Panel!Pixel
<1> QED
  BY <1>7, <1>8 DEF OnBuffer

LEMMA RectOnBuffer ==
  ASSUME Panel!PanelAssumption, NEW x \in 0 .. (Wrap - 1), NEW y \in 0 .. (Wrap - 1),
         NEW width \in 0 .. (Wrap - 1), NEW height \in 0 .. (Wrap - 1),
         NEW color \in BOOLEAN, NEW fill \in BOOLEAN
  PROVE  Panel!Rect(x, y, width, height, color, fill) \in Seq(OnBuffer)
<1> DEFINE R == Panel!Rect(x, y, width, height, color, fill)
           P == Drawn(x, y, width, height, fill)
<1>1. R \in Seq(Stores) /\ Elements(R) = Pixels(P, color)
  BY RectPixels
<1>2. P \subseteq (0 .. (Width - 1)) \X (0 .. (Panel!Height - 1))
  BY DEF Drawn, Panel!OnScreen
<1> HIDE DEF R, P
<1>3. ASSUME NEW k \in DOMAIN R PROVE R[k] \in OnBuffer
  <2>1. R[k] \in Pixels(P, color)
    BY <1>1 DEF Elements
  <2>2. PICK p \in P : R[k] = Panel!Pixel(p[1], p[2], color)
    BY <2>1 DEF Pixels
  <2>3. p[1] \in 0 .. (Width - 1) /\ p[2] \in 0 .. (Panel!Height - 1)
    BY <1>2
  <2> QED
    BY <2>2, <2>3, PixelOnBuffer
<1>4. R \in [1 .. Len(R) -> Stores] /\ Len(R) \in Nat
  BY <1>1, LenProperties
<1>5. R \in [1 .. Len(R) -> OnBuffer]
  BY <1>3, <1>4
<1>6. R \in Seq(OnBuffer)
  BY <1>4, <1>5, SeqDef
<1> QED
  BY <1>6 DEF R

LEMMA FillOnBuffer ==
  ASSUME Panel!PanelAssumption, NEW color \in BOOLEAN
  PROVE  Panel!Fill(color) \in Seq(OnBuffer)
<1>1. Width * Pages \in Nat /\ PageRows \in Nat
  BY DEF Panel!PanelAssumption
<1>2. Panel!Fill(color) = [k \in 1 .. (Width * Pages) |-> [index |-> k, rows |-> Panel!Rows,
                                                           color |-> color]]
  BY DEF Panel!Fill, Panel!Bytes
<1>3. Panel!Rows \in SUBSET Int /\ Panel!Bytes = 1 .. (Width * Pages) /\ Panel!Bytes \subseteq Int
  BY <1>1 DEF Panel!Rows, Panel!Bytes
<1>4. \A k \in Panel!Bytes : [index |-> k, rows |-> Panel!Rows, color |-> color] \in OnBuffer
  BY <1>3 DEF OnBuffer, Stores
<1>5. Panel!Fill(color) \in [1 .. (Width * Pages) -> OnBuffer]
  BY <1>2, <1>3, <1>4
<1> QED
  BY <1>1, <1>5, SeqDef

-----------------------------------------------------------------------------
PanelPlaces == {"idle", "apply", "load", "store", "show", "window", "send"}

PanelType ==
  /\ panelPc \in [Panel!Callers -> PanelPlaces]
  /\ panelPlan = [c \in Panel!Callers |-> panelPlan[c]]
     /\ panelSeen = [c \in Panel!Callers |-> panelSeen[c]]
  /\ buffer = [i \in Panel!Bytes |-> buffer[i]] /\ sent = [i \in Panel!Bytes |-> sent[i]]

\* A caller that will yet send the frame buffer, or fail to
Pending == \E c \in Panel!Callers : panelPc[c] \in {"load", "store", "show", "window"}

\* What of the frame buffer nobody will send again is on the panel.
Shown ==
  /\ \A c \in Panel!Callers : panelPc[c] = "send" <=> bus = c
  /\ bus \in Panel!Callers \union {"free"}
  /\ bus # "free" => sending \in Panel!Bytes
  /\ bus # "free" => Pending \/ \A i \in Panel!Bytes : i < sending => sent[i] = buffer[i]
  /\ bus = "free" => Pending \/ failed \/ sent = buffer

\* A move was tested against what it will count from, if nobody interferes.
MovesFrom(method, n) ==
  /\ n \in Nat
  /\ method = "down" => n < Panel!Height - 1
  /\ method = "up" => n < Panel!Height
  /\ method = "right" => n < Width - 1
  /\ method = "left" => 0 < n /\ n < Width

\* The cursor is on the screen, and every store in the frame buffer.
Inside ==
  /\ ~outside
  /\ x_cur \in 0 .. (Width - 1) /\ y_cur \in 0 .. (Panel!Height - 1)
  /\ todo \in [Panel!Callers -> Seq(OnBuffer)]
  /\ \A c \in Panel!Callers : panelPc[c] = "store" => todo[c] # <<>>
  /\ \A c \in Panel!Callers : panelPc[c] = "apply" /\ Head(panelPlan[c]) \in Panel!Moves =>
                          MovesFrom(Head(panelPlan[c]), panelSeen[c].cursor)

PanelInv == PanelType /\ Shown /\ (excused \/ Inside)

LEMMA PanelSizes ==
  Panel!PanelAssumption => /\ Width \in Nat \ {0} /\ Panel!Height \in Nat \ {0} /\ Wrap \in Nat
                           /\ Width * Pages \in Nat \ {0} /\ Wrap > Width /\ Wrap > Panel!Height
<1> SUFFICES ASSUME Panel!PanelAssumption
             PROVE  /\ Width \in Nat \ {0} /\ Panel!Height \in Nat \ {0} /\ Wrap \in Nat
                    /\ Width * Pages \in Nat \ {0} /\ Wrap > Width /\ Wrap > Panel!Height
  OBVIOUS
<1>1. Pages \in Nat \ {0} /\ PageRows \in Nat \ {0} /\ Width \in Nat \ {0}
  BY DEF Panel!PanelAssumption
<1>2. Pages * PageRows >= Pages /\ Width * Pages >= Width
  BY <1>1, Grow
<1>3. Pages * PageRows \in Nat /\ Width * Pages \in Nat
  BY <1>1
<1> QED
  BY <1>1, <1>2, <1>3 DEF Panel!PanelAssumption, Panel!Height

LEMMA PanelInit == Panel!PanelAssumption /\ Panel!Init => PanelInv
<1> SUFFICES ASSUME Panel!PanelAssumption, Panel!Init PROVE PanelInv
  OBVIOUS
<1>1. /\ panelPc = [c \in Panel!Callers |-> "idle"] /\ panelPlan = [c \in Panel!Callers |-> <<>>]
      /\ panelSeen = [c \in Panel!Callers |-> Panel!Nothing]
         /\ todo = [c \in Panel!Callers |-> <<>>]
      /\ buffer = [i \in Panel!Bytes |-> {}] /\ sent = buffer /\ bus = "free"
      /\ x_cur = 0 /\ y_cur = 0 /\ outside = FALSE
  BY DEF Panel!Init
<1>2. PanelType
  BY <1>1 DEF PanelType, PanelPlaces
<1>3. Shown
  BY <1>1 DEF Shown, Panel!Callers
<1>4. Inside
  <2>1. <<>> \in Seq(OnBuffer)
    OBVIOUS
  <2>2. x_cur \in 0 .. (Width - 1) /\ y_cur \in 0 .. (Panel!Height - 1)
    BY <1>1, PanelSizes
  <2>3. todo \in [Panel!Callers -> Seq(OnBuffer)]
    BY <1>1, <2>1
  <2> QED
    BY <1>1, <2>2, <2>3 DEF Inside
<1> QED
  BY <1>2, <1>3, <1>4 DEF PanelInv

LEMMA PanelTypeNext ==
  ASSUME PanelType, NEW c \in Panel!Callers,
         \/ Panel!Event(c) \/ Panel!Begin(c) \/ Panel!MovePixel(c) \/ Panel!ToggleFill(c)
            \/ Panel!RectToTopLeft(c)
         \/ Panel!LineToTopLeft(c) \/ Panel!Load(c) \/ Panel!Store(c) \/ Panel!ToggleEnable(c)
         \/ Panel!ShowWindow(c) \/ Panel!ShowFrame(c) \/ Panel!Send(c)
  PROVE  PanelType'
<1>0. /\ panelPc \in [Panel!Callers -> PanelPlaces]
      /\ panelPlan = [d \in Panel!Callers |-> panelPlan[d]]
         /\ panelSeen = [d \in Panel!Callers |-> panelSeen[d]]
      /\ buffer = [i \in Panel!Bytes |-> buffer[i]] /\ sent = [i \in Panel!Bytes |-> sent[i]]
  BY DEF PanelType
<1>1. panelPc' = panelPc \/ \E place \in PanelPlaces : panelPc' = [panelPc EXCEPT ![c] = place]
  BY DEF PanelPlaces, Panel!Event, Panel!Begin, Panel!MovePixel, Panel!ToggleFill,
     Panel!RectToTopLeft, Panel!LineToTopLeft, Panel!Load, Panel!Store,
     Panel!ToggleEnable, Panel!ShowWindow, Panel!ShowFrame, Panel!Send, Panel!Draw,
       Panel!MethodEnds, Panel!Set
<1>2. panelPlan' = panelPlan \/ \E v : panelPlan' = [panelPlan EXCEPT ![c] = v]
  BY DEF Panel!Event, Panel!Begin, Panel!MovePixel, Panel!ToggleFill, Panel!RectToTopLeft,
     Panel!LineToTopLeft, Panel!Load, Panel!Store,
     Panel!ToggleEnable, Panel!ShowWindow, Panel!ShowFrame, Panel!Send, Panel!Draw,
       Panel!MethodEnds, Panel!Set
<1>3. panelSeen' = panelSeen \/ \E v : panelSeen' = [panelSeen EXCEPT ![c] = v]
  BY DEF Panel!Event, Panel!Begin, Panel!MovePixel, Panel!ToggleFill, Panel!RectToTopLeft,
     Panel!LineToTopLeft, Panel!Load, Panel!Store,
     Panel!ToggleEnable, Panel!ShowWindow, Panel!ShowFrame, Panel!Send, Panel!Draw,
       Panel!MethodEnds, Panel!Set
<1>4. buffer' = buffer \/ \E i, v : buffer' = [buffer EXCEPT ![i] = v]
  BY DEF Panel!Event, Panel!Begin, Panel!MovePixel, Panel!ToggleFill, Panel!RectToTopLeft,
     Panel!LineToTopLeft, Panel!Load, Panel!Store,
     Panel!ToggleEnable, Panel!ShowWindow, Panel!ShowFrame, Panel!Send, Panel!Draw,
       Panel!MethodEnds, Panel!Set
<1>5. sent' = sent \/ \E i, v : sent' = [sent EXCEPT ![i] = v]
  BY DEF Panel!Event, Panel!Begin, Panel!MovePixel, Panel!ToggleFill, Panel!RectToTopLeft,
     Panel!LineToTopLeft, Panel!Load, Panel!Store,
     Panel!ToggleEnable, Panel!ShowWindow, Panel!ShowFrame, Panel!Send, Panel!Draw,
       Panel!MethodEnds, Panel!Set, Panel!busVars
<1> QED
  BY <1>0, <1>1, <1>2, <1>3, <1>4, <1>5 DEF PanelType

LEMMA PanelShown ==
  ASSUME Panel!PanelAssumption, PanelType, Shown, NEW c \in Panel!Callers,
         \/ Panel!Event(c) \/ Panel!Begin(c) \/ Panel!MovePixel(c) \/ Panel!ToggleFill(c)
            \/ Panel!RectToTopLeft(c)
         \/ Panel!LineToTopLeft(c) \/ Panel!Load(c) \/ Panel!Store(c) \/ Panel!ToggleEnable(c)
         \/ Panel!ShowWindow(c) \/ Panel!ShowFrame(c) \/ Panel!Send(c)
  PROVE  Shown'
<1>0. /\ panelPc \in [Panel!Callers -> PanelPlaces] /\ "free" \notin Panel!Callers
      /\ \A d \in Panel!Callers : panelPc[d] = "send" <=> bus = d
      /\ bus \in Panel!Callers \union {"free"}
      /\ bus # "free" => sending \in Panel!Bytes
      /\ bus # "free" => Pending \/ \A i \in Panel!Bytes : i < sending => sent[i] = buffer[i]
      /\ bus = "free" => Pending \/ failed \/ sent = buffer
  BY DEF PanelType, Shown, Panel!Callers
\* the frame buffer is about to be sent
<1>1. ASSUME NEW place \in {"load", "store", "show", "window"},
             panelPc' = [panelPc EXCEPT ![c] = place],
             panelPc[c] # "send", UNCHANGED <<bus, sending>>
      PROVE  Shown'
  <2>1. panelPc'[c] = place /\ \A d \in Panel!Callers : d # c => panelPc'[d] = panelPc[d]
    BY <1>0, <1>1
  <2>2. Pending'
    BY <2>1 DEF Pending
  <2> QED
    BY <1>0, <1>1, <2>1, <2>2 DEF Shown
\* nothing to do with sending
<1>2. ASSUME \/ UNCHANGED panelPc
             \/ \E place \in {"idle", "apply"} : panelPc' = [panelPc EXCEPT ![c] = place]
                /\ panelPc[c] \in {"idle", "apply"},
             UNCHANGED <<buffer, sent, sending, bus, failed>>
      PROVE  Shown'
  <2>1. \A d \in Panel!Callers : (panelPc'[d] = "send" <=> panelPc[d] = "send")
                           /\ (panelPc[d] \in {"load", "store", "show", "window"}
                               => panelPc'[d] = panelPc[d])
    BY <1>0, <1>2
  <2>2. Pending => Pending'
    BY <2>1 DEF Pending
  <2> QED
    BY <1>0, <1>2, <2>1, <2>2 DEF Shown
\* a transfer fails before it began
<1>3. ASSUME panelPc' = [panelPc EXCEPT ![c] = "idle"], panelPc[c] # "send", failed',
             bus = "free", UNCHANGED bus
      PROVE  Shown'
  <2>1. \A d \in Panel!Callers : (panelPc'[d] = "send" <=> panelPc[d] = "send")
    BY <1>0, <1>3
  <2> QED
    BY <1>0, <1>3, <2>1 DEF Shown
<1>4. CASE Panel!Event(c)
  BY <1>2, <1>4 DEF Panel!Event, Panel!busVars
<1>5. CASE Panel!Begin(c)
  BY <1>2, <1>5 DEF Panel!Begin, Panel!Set, Panel!busVars
<1>6. CASE Panel!MovePixel(c)
  BY <1>1, <1>6 DEF Panel!MovePixel, Panel!Draw, Panel!Set, Panel!busVars
<1>7. CASE Panel!ToggleFill(c)
  BY <1>1, <1>7 DEF Panel!ToggleFill, Panel!Draw, Panel!Set, Panel!busVars
<1>8. CASE Panel!RectToTopLeft(c)
  BY <1>1, <1>8 DEF Panel!RectToTopLeft, Panel!Draw, Panel!Set, Panel!busVars
<1>9. CASE Panel!LineToTopLeft(c)
  BY <1>1, <1>9 DEF Panel!LineToTopLeft, Panel!Draw, Panel!Set, Panel!busVars
<1>10. CASE Panel!Load(c)
  BY <1>1, <1>10 DEF Panel!Load, Panel!Set, Panel!busVars
<1>11. CASE Panel!Store(c)
  BY <1>1, <1>11 DEF Panel!Store, Panel!Set, Panel!busVars
<1>12. CASE Panel!ToggleEnable(c)
  BY <1>2, <1>12 DEF Panel!ToggleEnable, Panel!MethodEnds, Panel!Set
<1>13. CASE Panel!ShowWindow(c)
  <2>1. panelPc[c] = "show" /\ bus = "free" /\ UNCHANGED <<sending, bus>>
    BY <1>13 DEF Panel!ShowWindow
  <2>2. \/ panelPc' = [panelPc EXCEPT ![c] = "window"]
        \/ panelPc' = [panelPc EXCEPT ![c] = "idle"] /\ failed'
    BY <1>13 DEF Panel!ShowWindow, Panel!MethodEnds, Panel!Set
  <2> QED
    BY <1>1, <1>3, <2>1, <2>2
<1>14. CASE Panel!ShowFrame(c)
  <2>1. panelPc[c] = "window" /\ bus = "free" /\ UNCHANGED <<sent, buffer>>
    BY <1>14 DEF Panel!ShowFrame
  <2>2. CASE panelPc' = [panelPc EXCEPT ![c] = "send"] /\ bus' = c /\ sending' = 1
    <3>1. panelPc'[c] = "send" /\ \A d \in Panel!Callers : d # c => panelPc'[d] = panelPc[d]
      BY <1>0, <2>2
    <3>2. 1 \in Panel!Bytes /\ \A i \in Panel!Bytes : ~(i < 1)
      BY PanelSizes DEF Panel!Bytes
    <3> QED
      BY <1>0, <2>1, <2>2, <3>1, <3>2 DEF Shown
  <2>3. CASE panelPc' = [panelPc EXCEPT ![c] = "idle"] /\ failed' /\ UNCHANGED bus
    BY <1>3, <2>1, <2>3
  <2> QED
    BY <1>14, <2>2, <2>3 DEF Panel!ShowFrame, Panel!MethodEnds, Panel!Set
<1>15. CASE Panel!Send(c)
  <2>1. /\ panelPc[c] = "send" /\ sent' = [sent EXCEPT ![sending] = buffer[sending]]
        /\ UNCHANGED buffer /\ bus = c /\ sending \in Panel!Bytes
    BY <1>0, <1>15 DEF Panel!Send, Panel!Set
  <2>2. \A i \in Panel!Bytes : sent'[i] = IF i = sending THEN buffer[i] ELSE sent[i]
    BY <2>1 DEF PanelType
  <2>3. Width * Pages \in Nat /\ Panel!Bytes = 1 .. (Width * Pages)
    BY PanelSizes DEF Panel!Bytes
  <2>4. CASE sending = Width * Pages
    <3>1. bus' = "free" /\ panelPc' = [panelPc EXCEPT ![c] = "idle"]
      BY <1>15, <2>4 DEF Panel!Send, Panel!MethodEnds, Panel!Set
    <3>2. panelPc'[c] = "idle" /\ \A d \in Panel!Callers : d # c => panelPc'[d] = panelPc[d]
      BY <1>0, <3>1
    <3>3. Pending => Pending'
      BY <2>1, <3>2 DEF Pending
    <3>4. Pending \/ sent' = buffer'
      <4>1. SUFFICES ASSUME ~Pending PROVE sent' = buffer'
        OBVIOUS
      <4>2. \A i \in Panel!Bytes : i < sending => sent[i] = buffer[i]
        BY <1>0, <2>1, <4>1
      <4>3. \A i \in Panel!Bytes : sent'[i] = buffer[i]
        BY <2>2, <2>3, <2>4, <4>2
      <4>4. sent' = [i \in Panel!Bytes |-> sent'[i]] /\ buffer = [i \in Panel!Bytes |-> buffer[i]]
        BY <2>1 DEF PanelType
      <4> QED
        BY <2>1, <4>3, <4>4
    <3>5. \A d \in Panel!Callers : panelPc'[d] = "send" <=> bus' = d
      BY <1>0, <2>1, <3>1, <3>2
    <3> QED
      BY <3>1, <3>3, <3>4, <3>5 DEF Shown
  <2>5. CASE sending # Width * Pages
    <3>1. sending' = sending + 1 /\ UNCHANGED <<bus, panelPc>>
      BY <1>15, <2>5 DEF Panel!Send
    <3>2. sending' \in Panel!Bytes
      BY <2>1, <2>3, <2>5, <3>1
    <3>3. Pending' <=> Pending
      BY <3>1 DEF Pending
    <3>4. Pending \/ \A i \in Panel!Bytes : i < sending' => sent'[i] = buffer'[i]
      <4>1. SUFFICES ASSUME ~Pending, NEW i \in Panel!Bytes, i < sending'
                     PROVE sent'[i] = buffer'[i]
        OBVIOUS
      <4>2. i = sending \/ i < sending
        BY <2>1, <2>3, <3>1, <4>1
      <4>3. i < sending => sent[i] = buffer[i]
        BY <1>0, <2>1, <4>1
      <4> QED
        BY <2>1, <2>2, <4>2, <4>3
    <3> QED
      BY <1>0, <2>1, <3>1, <3>2, <3>3, <3>4 DEF Shown
  <2> QED
    BY <2>4, <2>5
<1> QED
  BY <1>4, <1>5, <1>6, <1>7, <1>8, <1>9, <1>10, <1>11, <1>12, <1>13, <1>14, <1>15

LEMMA OneElement ==
  ASSUME NEW S, NEW e \in S
  PROVE  <<e>> \in Seq(S)
  OBVIOUS

LEMMA PanelInside ==
  ASSUME Panel!PanelAssumption, PanelType, Inside, ~excused, ~excused', NEW c \in Panel!Callers,
         \/ Panel!Event(c) \/ Panel!Begin(c) \/ Panel!MovePixel(c) \/ Panel!ToggleFill(c)
            \/ Panel!RectToTopLeft(c)
         \/ Panel!LineToTopLeft(c) \/ Panel!Load(c) \/ Panel!Store(c) \/ Panel!ToggleEnable(c)
         \/ Panel!ShowWindow(c) \/ Panel!ShowFrame(c) \/ Panel!Send(c)
  PROVE  Inside'
<1>0. /\ panelPc \in [Panel!Callers -> PanelPlaces]
      /\ panelPlan = [d \in Panel!Callers |-> panelPlan[d]]
         /\ panelSeen = [d \in Panel!Callers |-> panelSeen[d]]
      /\ todo \in [Panel!Callers -> Seq(OnBuffer)]
      /\ ~outside /\ x_cur \in 0 .. (Width - 1) /\ y_cur \in 0 .. (Panel!Height - 1)
      /\ \A d \in Panel!Callers : panelPc[d] = "store" => todo[d] # <<>>
      /\ \A d \in Panel!Callers : panelPc[d] = "apply" /\ Head(panelPlan[d]) \in Panel!Moves =>
                              MovesFrom(Head(panelPlan[d]), panelSeen[d].cursor)
  BY DEF PanelType, Inside
<1>s. /\ Width \in Nat \ {0} /\ Panel!Height \in Nat \ {0} /\ Wrap \in Nat \ {0}
      /\ Wrap > Width /\ Wrap > Panel!Height
  BY PanelSizes
\* c goes on, and leaves the cursor, its stores and the other caller alone
<1>1. ASSUME UNCHANGED <<x_cur, y_cur, todo, outside>>,
             NEW place \in PanelPlaces \ {"apply"}, panelPc' = [panelPc EXCEPT ![c] = place],
             place = "store" => todo[c] # <<>>,
             \A d \in Panel!Callers : d # c => panelPlan'[d] = panelPlan[d]
               /\ panelSeen'[d] = panelSeen[d]
      PROVE  Inside'
  <2>1. panelPc'[c] = place /\ \A d \in Panel!Callers : d # c => panelPc'[d] = panelPc[d]
    BY <1>0, <1>1
  <2> QED
    BY <1>0, <1>1, <2>1 DEF Inside, MovesFrom
\* c is about to draw
<1>2. ASSUME NEW stores \in Seq(OnBuffer), Panel!Draw(c, stores), UNCHANGED <<panelPlan,
                                                                              panelSeen, outside>>,
             x_cur' \in 0 .. (Width - 1), y_cur' \in 0 .. (Panel!Height - 1)
      PROVE  Inside'
  <2>1. panelPc'[c] = "load" /\ \A d \in Panel!Callers : d # c => panelPc'[d] = panelPc[d]
    BY <1>0, <1>2 DEF Panel!Draw, Panel!Set
  <2>2. todo' \in [Panel!Callers -> Seq(OnBuffer)] /\ \A d \in Panel!Callers : d # c
        => todo'[d] = todo[d]
    BY <1>0, <1>2 DEF Panel!Draw, Panel!Set
  <2> QED
    BY <1>0, <1>2, <2>1, <2>2 DEF Inside, MovesFrom
<1>3. \A b : (~b) \in BOOLEAN
  OBVIOUS
<1>4. CASE Panel!Event(c)
  <2>1. /\ UNCHANGED <<x_cur, y_cur, todo, outside, panelSeen>> /\ panelPc[c] = "idle"
           /\ panelPc' = panelPc
        /\ \E v : panelPlan' = [panelPlan EXCEPT ![c] = v]
    BY <1>4 DEF Panel!Event, Panel!Set, Panel!appVars
  <2>2. \A d \in Panel!Callers : d # c => panelPlan'[d] = panelPlan[d]
    BY <1>0, <2>1
  <2> QED
    BY <1>0, <2>1, <2>2 DEF Inside, MovesFrom
<1>5. CASE Panel!Begin(c)
  <2> DEFINE method == Head(panelPlan[c])
  <2>1. UNCHANGED <<x_cur, y_cur, todo, outside>> /\ panelPc[c] = "idle"
    BY <1>5 DEF Panel!Begin, Panel!appVars
  <2>2. CASE panelPlan' = Panel!Set(panelPlan, c, Tail(panelPlan[c])) /\ UNCHANGED <<panelPc,
                                                                                     panelSeen>>
    <3>1. \A d \in Panel!Callers : d # c => panelPlan'[d] = panelPlan[d]
      BY <1>0, <2>2 DEF Panel!Set
    <3> QED
      BY <1>0, <2>1, <2>2, <3>1 DEF Inside, MovesFrom
  <2>3. CASE /\ method \in Panel!Moves => Panel!MayMove(method)
             /\ panelPc' = Panel!Set(panelPc, c, "apply")
             /\ panelSeen' = Panel!Set(panelSeen, c,
                  CASE method \in Panel!Moves -> [Panel!Nothing EXCEPT !.cursor = Panel!Cursor(method)]
                    [] method = "fill"  -> [Panel!Nothing EXCEPT !.flag = oled_filled]
                    [] method = "rect"  -> [Panel!Nothing EXCEPT !.flag = oled_rect_filled]
                    [] OTHER -> Panel!Nothing)
             /\ UNCHANGED panelPlan
    <3>1. panelPc'[c] = "apply" /\ \A d \in Panel!Callers : d # c => panelPc'[d] = panelPc[d]
          /\ panelSeen'[d] = panelSeen[d]
      BY <1>0, <2>3 DEF Panel!Set
    <3>2. ASSUME method \in Panel!Moves PROVE MovesFrom(method, panelSeen'[c].cursor)
      <4>1. panelSeen'[c] = [Panel!Nothing EXCEPT !.cursor = Panel!Cursor(method)]
        <5>1. method # "fill" /\ method # "rect"
          BY <3>2 DEF Panel!Moves
        <5> HIDE DEF method
        <5>2. panelSeen' = [panelSeen EXCEPT ![c] = [Panel!Nothing EXCEPT !.cursor = Panel!Cursor(method)]]
          BY <2>3, <3>2, <5>1 DEF Panel!Set
        <5> QED
          BY <1>0, <5>2
      <4>2. panelSeen'[c].cursor = Panel!Cursor(method)
        BY <4>1 DEF Panel!Nothing
      <4>3. MovesFrom(method, Panel!Cursor(method))
        <5> HIDE DEF method
        <5>1. Panel!MayMove(method)
          BY <2>3, <3>2
        <5>2. CASE method = "down"
          BY <1>0, <1>s, <5>1, <5>2 DEF Panel!MayMove, MovesFrom, Panel!Cursor
        <5>3. CASE method = "up"
          BY <1>0, <1>s, <5>1, <5>3 DEF Panel!MayMove, MovesFrom, Panel!Cursor
        <5>4. CASE method = "right"
          BY <1>0, <1>s, <5>1, <5>4 DEF Panel!MayMove, MovesFrom, Panel!Cursor
        <5>5. CASE method = "left"
          BY <1>0, <1>s, <5>1, <5>5 DEF Panel!MayMove, MovesFrom, Panel!Cursor
        <5> QED
          BY <3>2, <5>2, <5>3, <5>4, <5>5 DEF Panel!Moves
      <4> QED
        BY <4>2, <4>3
    <3> QED
      BY <1>0, <2>1, <2>3, <3>1, <3>2 DEF Inside, MovesFrom
  <2> QED
    BY <1>5, <2>2, <2>3 DEF Panel!Begin
<1>6. CASE Panel!MovePixel(c)
  <2> DEFINE method == Head(panelPlan[c])
             step == IF method \in {"down", "right"} THEN 1 ELSE -1
  <2>1. /\ panelPc[c] = "apply" /\ method \in Panel!Moves
           /\ Panel!Draw(c, <<Panel!Pixel(x_cur', y_cur', TRUE)>>)
        /\ UNCHANGED <<panelPlan, panelSeen, outside>>
    BY <1>6 DEF Panel!MovePixel
  <2>2. PICK from \in {panelSeen[c].cursor, Panel!Cursor(method)} :
          /\ IF method \in {"up", "down"}
             THEN y_cur' = (from + step) % Wrap /\ UNCHANGED x_cur
             ELSE x_cur' = (from + step) % Wrap /\ UNCHANGED y_cur
          /\ excused' = (excused \/ from # panelSeen[c].cursor \/ (method = "up" /\ from = 0))
    BY <1>6 DEF Panel!MovePixel
  <2>3. from = panelSeen[c].cursor /\ ~(method = "up" /\ from = 0)
    <3> HIDE DEF method
    <3> QED
      BY <2>2
  <2>4. MovesFrom(method, from)
    BY <1>0, <2>1, <2>3
  <2> HIDE DEF method
  <2>5. from \in Nat /\ from + step \in 0 .. (Wrap - 1)
    BY <1>s, <2>1, <2>3, <2>4 DEF MovesFrom, Panel!Moves
  <2>6. (from + step) % Wrap = from + step
    <3> DEFINE d == from + step
    <3>1. d \in 0 .. (Wrap - 1)
      BY <2>5
    <3> HIDE DEF d
    <3>2. d % Wrap = d
      BY <1>s, <3>1, ModWithin
    <3> QED
      BY <3>2 DEF d
  <2>7. x_cur' \in 0 .. (Width - 1) /\ y_cur' \in 0 .. (Panel!Height - 1)
    <3>1. CASE method = "down"
      BY <1>0, <1>s, <2>2, <2>4, <2>5, <2>6, <3>1 DEF MovesFrom
    <3>2. CASE method = "up"
      BY <1>0, <1>s, <2>2, <2>3, <2>4, <2>5, <2>6, <3>2 DEF MovesFrom
    <3>3. CASE method = "right"
      BY <1>0, <1>s, <2>2, <2>4, <2>5, <2>6, <3>3 DEF MovesFrom
    <3>4. CASE method = "left"
      BY <1>0, <1>s, <2>2, <2>4, <2>5, <2>6, <3>4 DEF MovesFrom
    <3> QED
      BY <2>1, <3>1, <3>2, <3>3, <3>4 DEF Panel!Moves
  <2>8. <<Panel!Pixel(x_cur', y_cur', TRUE)>> \in Seq(OnBuffer)
    <3>1. Panel!Pixel(x_cur', y_cur', TRUE) \in OnBuffer
      BY <2>7, PixelOnBuffer
    <3> QED
      BY <3>1, OneElement
  <2> QED
    BY <1>2, <2>1, <2>7, <2>8
<1>7. CASE Panel!ToggleFill(c)
  <2>1. Panel!Draw(c, Panel!Fill(~panelSeen[c].flag)) /\ UNCHANGED <<x_cur, y_cur, panelPlan,
                                                                     panelSeen, outside>>
    BY <1>7 DEF Panel!ToggleFill
  <2>2. Panel!Fill(~panelSeen[c].flag) \in Seq(OnBuffer)
    BY <1>3, FillOnBuffer
  <2> QED
    BY <1>0, <1>2, <2>1, <2>2
<1>8. CASE Panel!RectToTopLeft(c)
  <2>1. Panel!Draw(c, Panel!Rect(0, 0, x_cur, y_cur, ~panelSeen[c].flag, TRUE))
        /\ UNCHANGED <<x_cur, y_cur, panelPlan, panelSeen, outside>>
    BY <1>8 DEF Panel!RectToTopLeft
  <2>2. 0 \in 0 .. (Wrap - 1) /\ x_cur \in 0 .. (Wrap - 1) /\ y_cur \in 0 .. (Wrap - 1)
    BY <1>0, <1>s
  <2>3. (~panelSeen[c].flag) \in BOOLEAN /\ TRUE \in BOOLEAN
    BY <1>3
  <2>4. Panel!Rect(0, 0, x_cur, y_cur, ~panelSeen[c].flag, TRUE) \in Seq(OnBuffer)
    BY <2>2, <2>3, RectOnBuffer
  <2> QED
    BY <1>0, <1>2, <2>1, <2>4
<1>9. CASE Panel!LineToTopLeft(c)
  <2>1. /\ Panel!Draw(c, Panel!Rect(0, y_cur, x_cur, 1, TRUE, TRUE))
           \/ Panel!Draw(c, Panel!Rect(x_cur, 0, 1, y_cur, TRUE, TRUE))
        /\ UNCHANGED <<x_cur, y_cur, panelPlan, panelSeen, outside>>
    BY <1>9 DEF Panel!LineToTopLeft, Panel!appVars
  <2>2. 0 \in 0 .. (Wrap - 1) /\ 1 \in 0 .. (Wrap - 1) /\ x_cur \in 0 .. (Wrap - 1)
        /\ y_cur \in 0 .. (Wrap - 1)
    BY <1>0, <1>s
  <2>3. TRUE \in BOOLEAN
    OBVIOUS
  <2>4. Panel!Rect(0, y_cur, x_cur, 1, TRUE, TRUE) \in Seq(OnBuffer)
    BY <2>2, <2>3, RectOnBuffer
  <2>5. Panel!Rect(x_cur, 0, 1, y_cur, TRUE, TRUE) \in Seq(OnBuffer)
    BY <2>2, <2>3, RectOnBuffer
  <2> QED
    BY <1>0, <1>2, <2>1, <2>4, <2>5
<1>10. CASE Panel!Load(c)
  <2>1. UNCHANGED <<x_cur, y_cur, todo, outside, panelPlan>>
    BY <1>10 DEF Panel!Load, Panel!appVars
  <2>2. \/ panelPc' = [panelPc EXCEPT ![c] = "show"] /\ UNCHANGED panelSeen
        \/ panelPc' = [panelPc EXCEPT ![c] = "store"] /\ todo[c] # <<>>
           /\ \E v : panelSeen' = [panelSeen EXCEPT ![c] = v]
    BY <1>10 DEF Panel!Load, Panel!Set
  <2>3. \A d \in Panel!Callers : d # c => panelPlan'[d] = panelPlan[d]
        /\ panelSeen'[d] = panelSeen[d]
    BY <1>0, <2>1, <2>2
  <2> QED
    BY <1>1, <2>1, <2>2, <2>3 DEF PanelPlaces
<1>11. CASE Panel!Store(c)
  <2>1. /\ panelPc[c] = "store" /\ todo' = [todo EXCEPT ![c] = Tail(todo[c])]
           /\ panelPc' = [panelPc EXCEPT ![c] = "load"]
        /\ UNCHANGED <<x_cur, y_cur, panelPlan, panelSeen>>
    BY <1>11 DEF Panel!Store, Panel!Set, Panel!appVars
  <2>2. todo[c] \in Seq(OnBuffer) /\ todo[c] # <<>>
    BY <1>0, <2>1
  <2>3. Head(todo[c]) \in OnBuffer /\ Tail(todo[c]) \in Seq(OnBuffer)
    BY <2>2, HeadTailProperties
  <2>4. UNCHANGED outside
    BY <1>11, <2>3 DEF Panel!Store, OnBuffer
  <2>5. todo' \in [Panel!Callers -> Seq(OnBuffer)] /\ \A d \in Panel!Callers : d # c
        => todo'[d] = todo[d]
    BY <1>0, <2>1, <2>3
  <2>6. panelPc'[c] = "load" /\ \A d \in Panel!Callers : d # c => panelPc'[d] = panelPc[d]
    BY <1>0, <2>1
  <2> QED
    BY <1>0, <2>1, <2>4, <2>5, <2>6 DEF Inside, MovesFrom
<1>12. CASE Panel!ToggleEnable(c) \/ Panel!ShowWindow(c) \/ Panel!ShowFrame(c) \/ Panel!Send(c)
  <2>1. UNCHANGED <<x_cur, y_cur, todo, outside, panelSeen>>
    BY <1>12 DEF Panel!ToggleEnable, Panel!ShowWindow, Panel!ShowFrame, Panel!Send, Panel!appVars
  <2>2. /\ panelPc[c] \notin {"apply", "store"} \/ Panel!ToggleEnable(c)
        /\ panelPc' = panelPc
           \/ \E place \in {"idle", "window", "send"} : panelPc' = [panelPc EXCEPT ![c] = place]
        /\ panelPlan' = panelPlan \/ \E v : panelPlan' = [panelPlan EXCEPT ![c] = v]
    BY <1>12 DEF Panel!ToggleEnable, Panel!ShowWindow, Panel!ShowFrame, Panel!Send,
       Panel!MethodEnds, Panel!Set
  <2>3. \A d \in Panel!Callers : d # c => panelPlan'[d] = panelPlan[d]
        /\ panelSeen'[d] = panelSeen[d]
    BY <1>0, <2>1, <2>2
  <2>4. CASE \E place \in {"idle", "window", "send"} : panelPc' = [panelPc EXCEPT ![c] = place]
    BY <1>1, <2>1, <2>3, <2>4 DEF PanelPlaces
  <2>5. CASE panelPc' = panelPc
    <3>1. panelPc[c] = "send"
      <4>1. panelPc[c] = "idle" => FALSE
        BY <1>12 DEF Panel!ToggleEnable, Panel!ShowWindow, Panel!ShowFrame, Panel!Send
      <4>2. ~Panel!ToggleEnable(c) /\ ~Panel!ShowWindow(c) /\ ~Panel!ShowFrame(c)
        BY <1>0, <2>5, <4>1 DEF Panel!ToggleEnable, Panel!ShowWindow, Panel!ShowFrame,
           Panel!MethodEnds, Panel!Set
      <4> QED
        BY <1>12, <4>2 DEF Panel!Send
    <3> QED
      BY <1>0, <2>1, <2>3, <2>5, <3>1 DEF Inside, MovesFrom
  <2> QED
    BY <2>2, <2>4, <2>5
<1> QED
  BY <1>4, <1>5, <1>6, <1>7, <1>8, <1>9, <1>10, <1>11, <1>12

LEMMA PanelNext == Panel!PanelAssumption /\ PanelInv /\ [Panel!Next]_panelVars => PanelInv'
<1> SUFFICES ASSUME Panel!PanelAssumption, PanelInv, [Panel!Next]_panelVars PROVE PanelInv'
  OBVIOUS
<1>1. CASE UNCHANGED panelVars
  <2>1. UNCHANGED <<x_cur, y_cur, panelPc, panelPlan, panelSeen, todo, buffer, sent, sending, bus,
                    failed, outside, excused>>
    BY <1>1 DEF panelVars, Panel!appVars, Panel!busVars
  <2> QED
    BY <2>1 DEF PanelInv, PanelType, Shown, Pending, Inside, MovesFrom
<1>2. CASE Panel!Next
  <2>1. PICK c \in Panel!Callers :
          \/ Panel!Event(c) \/ Panel!Begin(c) \/ Panel!MovePixel(c) \/ Panel!ToggleFill(c)
             \/ Panel!RectToTopLeft(c)
          \/ Panel!LineToTopLeft(c) \/ Panel!Load(c) \/ Panel!Store(c) \/ Panel!ToggleEnable(c)
          \/ Panel!ShowWindow(c) \/ Panel!ShowFrame(c) \/ Panel!Send(c)
    BY <1>2 DEF Panel!Next
  <2>2. excused => excused'
    BY <2>1 DEF Panel!Event, Panel!Begin, Panel!MovePixel, Panel!ToggleFill,
       Panel!RectToTopLeft, Panel!LineToTopLeft, Panel!Load, Panel!Store,
       Panel!ToggleEnable, Panel!ShowWindow, Panel!ShowFrame, Panel!Send
  <2>3. PanelType' /\ Shown'
    BY <2>1, PanelTypeNext, PanelShown DEF PanelInv
  <2>4. excused' \/ Inside'
    BY <2>1, <2>2, PanelInside DEF PanelInv
  <2> QED
    BY <2>3, <2>4 DEF PanelInv
<1> QED
  BY <1>1, <1>2

LEMMA PanelSafe == PanelInv => Panel!NothingUnshown /\ Panel!OutsideNeedsWrap
<1> SUFFICES ASSUME PanelInv PROVE Panel!NothingUnshown /\ Panel!OutsideNeedsWrap
  OBVIOUS
<1>1. Panel!OutsideNeedsWrap
  BY DEF PanelInv, Inside, Panel!OutsideNeedsWrap
<1>2. (\A c \in Panel!Callers : panelPc[c] = "idle") => bus = "free" /\ ~Pending
  BY DEF PanelInv, Shown, Pending
<1>3. Panel!NothingUnshown
  BY <1>2 DEF PanelInv, Shown, Panel!NothingUnshown
<1> QED
  BY <1>1, <1>3

-----------------------------------------------------------------------------
(* All of them *)

ProgramsInv ==
  LogInv /\ SchedInv /\ NamedInv /\ UnnamedInv /\ LockInv /\ DutyInv /\ DutyMade
  /\ DutyWaits /\ PanelInv

\* The threads that main() of thread_scheduler makes ask for ascending priorities.
LEMMA MadeAscending == Ascending
<1>1. Len(MCAsked) = 6
  BY DEF MCAsked
<1>2. /\ MCAsked[1].priority = 0 /\ MCAsked[2].priority = 3 /\ MCAsked[3].priority = 4
      /\ MCAsked[4].priority = 5
      /\ MCAsked[5].policy = "SCHED_FIFO" /\ MCAsked[6].policy = "SCHED_RR"
  BY DEF MCAsked, Made
<1>3. ASSUME NEW s \in Sched!Threads, Sched!IsCFS(s) PROVE s \in 1 .. 4
  <2>1. s \in 1 .. 6 /\ s # 5 /\ s # 6
    BY <1>1, <1>2, <1>3 DEF Sched!Threads, Sched!IsCFS, Sched!CFS
  <2> QED
    BY <2>1
<1>4. ASSUME NEW s \in Sched!Threads, NEW t \in Sched!Threads, s <= t,
             Sched!IsCFS(s), Sched!IsCFS(t)
      PROVE  MCAsked[s].priority <= MCAsked[t].priority
  <2>1. s \in 1 .. 4 /\ t \in 1 .. 4
    BY <1>3, <1>4
  <2> QED
    BY <1>2, <1>4, <2>1
<1> QED
  BY <1>1, <1>4 DEF Ascending

LEMMA ProgramsInitInv == ProgramsInit => ProgramsInv
  BY ProgramsAssumption, MadeAscending, LogInit, SchedInit, NamedInit, UnnamedInit, LockInit,
     DutyInit, DutyInitMade, PanelInit
     DEF ProgramsInit, DemosInit, ProgramsInv, ProgramsAssumption, DemosAssumption

\* A step of one program leaves the others alone.
LEMMA ProgramsStep ==
  [ProgramsNext]_allVars =>
    /\ [Log!Next]_logVars
    /\ [Sched!Next]_schedVars
    /\ [Named!Next]_namedVars
    /\ [Unnamed!Next]_unnamedVars
    /\ [Lock!Next]_lockVars
    /\ [Duty!Next]_dutyVars
    /\ [Panel!Next]_panelVars
  BY DEF ProgramsNext, DemosNext, allVars, demosVars

LEMMA ProgramsNextInv == ProgramsInv /\ [ProgramsNext]_allVars => ProgramsInv'
<1> SUFFICES ASSUME ProgramsInv, [ProgramsNext]_allVars PROVE ProgramsInv'
  OBVIOUS
<1> USE ProgramsAssumption, ProgramsStep DEF ProgramsInv, ProgramsAssumption, DemosAssumption
<1>1. LogInv'
  BY LogNext
<1>2. SchedInv'
  BY SchedNext, MadeAscending
<1>3. NamedInv'
  BY NamedNext
<1>4. UnnamedInv'
  BY UnnamedNext
<1>5. LockInv'
  BY LockNext
<1>6. DutyInv' /\ DutyMade' /\ DutyWaits'
  BY DutyNext, DutyMadeNext, DutyWaitsNext
<1>7. PanelInv'
  BY PanelNext
<1> QED
  BY <1>1, <1>2, <1>3, <1>4, <1>5, <1>6, <1>7

\* What rect() stores is the part of the rectangle on the screen, for a panel of any
\* size and whatever the corners, equal ones and ones beyond the edge included.
THEOREM RectAlwaysClipped == ProgramsSpec => []RectIsClipped
<1>1. ProgramsInv => RectIsClipped
  BY ProgramsAssumption, PanelRect DEF ProgramsAssumption, RectIsClipped
<1> QED
  BY <1>1, ProgramsInitInv, ProgramsNextInv, PTL DEF ProgramsSpec

\* When both threads are done the panel shows the frame buffer, however their calls
\* interleave, but for a failed or torn transfer.
THEOREM EverythingIsShown == ProgramsSpec => []NothingUnshown
<1>1. ProgramsInv => NothingUnshown
  BY PanelSafe DEF ProgramsInv, NothingUnshown
<1> QED
  BY <1>1, ProgramsInitInv, ProgramsNextInv, PTL DEF ProgramsSpec

\* The cursor leaves the screen, and with it the stores the frame buffer, only after
\* two racing moves or PixelUp() at the top row.
THEOREM OnlyWrapsLeave == ProgramsSpec => []OutsideNeedsWrap
<1>1. ProgramsInv => OutsideNeedsWrap
  BY PanelSafe DEF ProgramsInv, OutsideNeedsWrap
<1> QED
  BY <1>1, ProgramsInitInv, ProgramsNextInv, PTL DEF ProgramsSpec

\* After any sequence of keys the timer and the waits of the gpio driver follow the
\* mode they chose.
THEOREM DriverAlwaysFollows == ProgramsSpec => []DriverFollowsMode
<1>1. ProgramsInv => DriverFollowsMode
  BY DutySafe DEF ProgramsInv, DriverFollowsMode
<1> QED
  BY <1>1, ProgramsInitInv, ProgramsNextInv, PTL DEF ProgramsSpec

\* While the destructor waits in join(), whatever the keys and the way to wait, the thread
\* is told to end and waits for nothing that does not come, but for one that read a member
\* before it was set.
THEOREM JoinIsNotBlocked == ProgramsSpec => []Duty!JoinNotBlocked
<1>1. ProgramsInv => Duty!JoinNotBlocked
  BY DutyJoins DEF ProgramsInv
<1> QED
  BY <1>1, ProgramsInitInv, ProgramsNextInv, PTL DEF ProgramsSpec

\* The child of the unnamed pipe prints the records in order, at the end of file all
\* of them, for a pipe of any size.
THEOREM ChildReadsEverything == ProgramsSpec => []ChildReadsAll
<1>1. ProgramsInv => ChildReadsAll
  BY UnnamedSafe DEF ProgramsInv, ChildReadsAll
<1> QED
  BY <1>1, ProgramsInitInv, ProgramsNextInv, PTL DEF ProgramsSpec

\* Where the q key was pressed, parent and child of the unnamed pipe wait for each other:
\* the child never meets the end of file, the parent ends only when Ctrl-C ended the child.
THEOREM QuitWaits == ProgramsSpec => []Unnamed!QuitNeedsInterrupt
<1>1. ProgramsInv => Unnamed!QuitNeedsInterrupt
  BY UnnamedQuit DEF ProgramsInv
<1> QED
  BY <1>1, ProgramsInitInv, ProgramsNextInv, PTL DEF ProgramsSpec

\* After the tenth increment a child that reads finds a record or the end of file.
THEOREM TenAlwaysReachesEnd == ProgramsSpec => []Unnamed!TenReachesEnd
<1>1. ProgramsInv => Unnamed!TenReachesEnd
  BY UnnamedTen DEF ProgramsInv
<1> QED
  BY <1>1, ProgramsInitInv, ProgramsNextInv, PTL DEF ProgramsSpec

\* For any number of writers and readers, a writer gets the fifo it made but for a
\* late unlink() of another.
THEOREM FifoIsOwn == ProgramsSpec => []OwnFifoUnlessRobbed
<1>1. ProgramsInv => OwnFifoUnlessRobbed
  BY NamedSafe DEF ProgramsInv, OwnFifoUnlessRobbed
<1> QED
  BY <1>1, ProgramsInitInv, ProgramsNextInv, PTL DEF ProgramsSpec

\* While a reader reads, nobody writes: for any number of writers and readers what it
\* has read is the start of the file.
THEOREM ReadsOneStateAlways == ProgramsSpec => []ReadsOneState
<1>1. ProgramsInv => ReadsOneState
  BY LockSafe DEF ProgramsInv, ReadsOneState
<1> QED
  BY <1>1, ProgramsInitInv, ProgramsNextInv, PTL DEF ProgramsSpec

\* For any number of threads and lines, lines mix only when two threads made the log
\* at once; a thread of the scheduler demonstration runs as it was made to.
THEOREM ThreadsAlwaysAsAsked == ProgramsSpec => []ThreadsAsAsked
<1>1. ProgramsInv => ThreadsAsAsked
  BY LogSafe, SchedSafe DEF ProgramsInv, ThreadsAsAsked
<1> QED
  BY <1>1, ProgramsInitInv, ProgramsNextInv, PTL DEF ProgramsSpec
=============================================================================
