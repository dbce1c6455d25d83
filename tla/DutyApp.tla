------------------------------- MODULE DutyApp -------------------------------
(***************************************************************************)
(* The program of the rpi_3b_v1_2 gpio driver, main.cpp: the keyboard loop *)
(* switches between toggle, burst and duty cycle mode; in duty cycle mode  *)
(* a DutyCycle object runs a thread that waits for the driver with        *)
(* select(), poll() or epoll_wait(), a different one for each object.      *)
(*                                                                         *)
(* Each call of the keyboard loop is a step, and the thread's steps come   *)
(* between them.  The driver is what its calls do to it (GpioIrq.tla has   *)
(* the whole of it).  The constructor starts the thread before it sets the *)
(* members the thread reads: until then any value may be found there.      *)
(***************************************************************************)
EXTENDS Integers, Sequences

CONSTANTS
  MaxMsec,              \* ULONG_MAX
  FirstMsec,            \* 1000
  Wrap, ShortPeriod,    \* 256, 0x3F
  MaxKeys               \* bound: keys pressed

DutyAssumption ==
  /\ MaxMsec \in Nat /\ FirstMsec \in 1..MaxMsec
  /\ Wrap \in Nat /\ ShortPeriod \in 1..(Wrap - 1) /\ MaxKeys \in Nat

VARIABLES
  test_mode, poll_mode, duty_cycle_msec,
  burst,               \* gpio_burst_sequence[3] and [7]
  plan,                \* calls the keyboard loop has left for this key
  keys,
  object,              \* "none", "starting" (constructor), "built"
  mode,                \* its poll_mode_
  enabled,             \* its enabled_
  ep, epInit,          \* what ep_fd_ waits for, epoll_initialized_
  thread, waits,       \* where Run() is, and what it waits for
  early,               \* history: Run() read a member before it was set
  period,              \* driver: the timer's period, 0 when it is stopped
  poll_enabled, gpo, records

appVars    == <<test_mode, poll_mode, duty_cycle_msec, burst, keys>>
objectVars == <<object, mode, enabled, ep, epInit>>
threadVars == <<thread, waits, early>>
driverVars == <<period, poll_enabled, gpo, records>>
vars == <<appVars, plan, objectVars, threadVars, driverVars>>

Init ==
  /\ test_mode = "toggle" /\ poll_mode = "select" /\ duty_cycle_msec = FirstMsec
  /\ burst = <<ShortPeriod, Wrap - 1>> /\ keys = 0
  /\ plan = <<>>
  /\ object = "none" /\ mode = "select" /\ enabled = FALSE
  /\ ep = "none" /\ epInit = FALSE
  /\ thread = "none" /\ waits = "none" /\ early = FALSE
  /\ period = 0 /\ poll_enabled = FALSE /\ gpo = FALSE /\ records = FALSE

-----------------------------------------------------------------------------
(* Keys.  An escape that is not an arrow leaves advance_mode uninitialised, *)
(* so it counts as one of them.                                            *)

\* duty_cycle = nullptr;
Destroy == IF object = "none" THEN <<>> ELSE <<"disable", "stop", "join">>

Press(calls) == plan = <<>> /\ keys < MaxKeys /\ keys' = keys + 1 /\ plan' = calls

KeyBurst ==
  /\ test_mode # "burst"
  /\ Press(<<"write">> \o Destroy)
  /\ burst' = <<ShortPeriod, Wrap - 1>>
  /\ test_mode' = "burst"
  /\ UNCHANGED <<poll_mode, duty_cycle_msec>>

KeyToggle ==
  /\ test_mode # "toggle"
  /\ Press(<<"clear">> \o Destroy)
  /\ test_mode' = "toggle"
  /\ UNCHANGED <<poll_mode, duty_cycle_msec, burst>>

KeyDuty ==
  /\ test_mode # "duty"
  /\ Press(<<"duty", "duty", "create", "construct">>)
  /\ test_mode' = "duty"
  /\ UNCHANGED <<poll_mode, duty_cycle_msec, burst>>

\* [1] is tested, [3] and [7] are counted down.
KeyArrowBurst(advance) ==
  /\ test_mode = "burst"
  /\ Press(<<"write">>)
  /\ burst' = CASE advance /\ burst[2] < Wrap - 1  -> [i \in 1..2 |-> (burst[i] + 1) % Wrap]
                [] ~advance /\ ShortPeriod > 1     -> [i \in 1..2 |-> (burst[i] - 1) % Wrap]
                [] OTHER                           -> burst
  /\ UNCHANGED <<test_mode, poll_mode, duty_cycle_msec>>

KeyArrowToggle ==
  /\ test_mode = "toggle"
  /\ Press(<<IF gpo THEN "clear" ELSE "set">>)
  /\ UNCHANGED <<test_mode, poll_mode, duty_cycle_msec, burst>>

KeyArrowDuty(advance) ==
  /\ test_mode = "duty"
  /\ Press(<<"duty">>)
  /\ duty_cycle_msec' = CASE advance /\ duty_cycle_msec < MaxMsec -> duty_cycle_msec + 1
                          [] ~advance /\ duty_cycle_msec > 0      -> duty_cycle_msec - 1
                          [] OTHER                                -> duty_cycle_msec
  /\ UNCHANGED <<test_mode, poll_mode, burst>>

\* 'q': also the last key.
KeyQuit ==
  /\ plan = <<>> /\ keys < MaxKeys
  /\ keys' = MaxKeys
  /\ plan' = IF test_mode = "toggle" THEN <<>> ELSE <<"clear">> \o Destroy
  /\ test_mode' = "toggle"
  /\ UNCHANGED <<poll_mode, duty_cycle_msec, burst>>

Key ==
  /\ \/ KeyBurst \/ KeyToggle \/ KeyDuty \/ KeyArrowToggle \/ KeyQuit
     \/ \E advance \in BOOLEAN : KeyArrowBurst(advance) \/ KeyArrowDuty(advance)
  /\ UNCHANGED <<objectVars, threadVars, driverVars>>

-----------------------------------------------------------------------------
(* The calls of a key. *)

Call(name) == plan # <<>> /\ Head(plan) = name /\ plan' = Tail(plan)

\* write(): it stops the timer, plays the sequence and ends at 0; poll_enabled
\* stays.
CallWrite ==
  /\ Call("write")
  /\ period' = 0 /\ gpo' = FALSE
  /\ UNCHANGED <<appVars, objectVars, threadVars, poll_enabled, records>>

\* ESS_SET_GPIO, ESS_CLR_GPIO
CallSetClear ==
  /\ \/ Call("set") /\ gpo' = TRUE
     \/ Call("clear") /\ gpo' = FALSE
  /\ period' = 0 /\ poll_enabled' = FALSE
  /\ UNCHANGED <<appVars, objectVars, threadVars, records>>

\* Seeded fault: a period of 0 does not end the waits.
CallDutyAlwaysOn ==
  /\ \/ Call("duty") /\ period' = duty_cycle_msec
     \/ Call("stop") /\ period' = 0
  /\ poll_enabled' = TRUE
  /\ UNCHANGED <<appVars, objectVars, threadVars, gpo, records>>

\* ESS_DUTY_CYCLE_GPIO with the period, and with 0 in the destructor
CallDuty ==
  /\ \/ Call("duty") /\ period' = duty_cycle_msec
     \/ Call("stop") /\ period' = 0
  /\ poll_enabled' = (period' > 0)
  /\ UNCHANGED <<appVars, objectVars, threadVars, gpo, records>>

NextMode(m) == CASE m = "select" -> "poll" [] m = "poll" -> "epoll" [] m = "epoll" -> "select"

\* The constructor: poll_mode_ and the thread, ...
CallCreate ==
  /\ Call("create")
  /\ object' = "starting" /\ mode' = poll_mode
  /\ thread' = "loop" /\ waits' = "none" /\ early' = FALSE
  /\ UNCHANGED <<appVars, enabled, ep, epInit, driverVars>>

\* ... and then the other members.
CallConstruct ==
  /\ Call("construct")
  /\ object' = "built"
  /\ enabled' = TRUE /\ ep' = "none" /\ epInit' = FALSE
  /\ poll_mode' = NextMode(poll_mode)
  /\ UNCHANGED <<test_mode, duty_cycle_msec, burst, keys, mode, threadVars, driverVars>>

\* Seeded fault: the destructor leaves the driver alone.
CallDisableOnly ==
  /\ plan # <<>> /\ Head(plan) = "disable" /\ plan' = <<"join">>
  /\ enabled' = FALSE
  /\ UNCHANGED <<appVars, object, mode, ep, epInit, threadVars, driverVars>>

\* The destructor
CallDisable ==
  /\ Call("disable")
  /\ enabled' = FALSE
  /\ UNCHANGED <<appVars, object, mode, ep, epInit, threadVars, driverVars>>

CallJoin ==
  /\ Call("join") /\ thread = "exited"
  /\ object' = "none" /\ thread' = "none"
  /\ UNCHANGED <<appVars, mode, enabled, ep, epInit, waits, early, driverVars>>

Calls == CallWrite \/ CallSetClear \/ CallDuty \/ CallCreate \/ CallConstruct
         \/ CallDisable \/ CallJoin

-----------------------------------------------------------------------------
(* DutyCycle::Run() *)

ToThread(pc) == thread' = pc /\ early' = (early \/ object = "starting")

\* while (enabled_)
RunTest ==
  /\ thread = "loop"
  /\ \E on \in IF object = "built" THEN {enabled} ELSE BOOLEAN :
       ToThread(IF on THEN "poll" ELSE "exited")
  /\ UNCHANGED <<appVars, plan, objectVars, waits, driverVars>>

\* select() waits for fd_, poll() has a timeout of 0.
RunSelectPoll ==
  /\ thread = "poll" /\ mode # "epoll"
  /\ ToThread("wait")
  /\ waits' = IF mode = "poll" THEN "nothing" ELSE IF object = "built" THEN "device" ELSE "other"
  /\ UNCHANGED <<appVars, plan, objectVars, driverVars>>

\* EpollInit(): epoll_create() and epoll_ctl() for fd_, ...
RunEpollCreate ==
  /\ thread = "poll" /\ mode = "epoll"
  /\ object = "built" => ~epInit
  /\ ep' = IF object = "built" THEN "device" ELSE "other"
  /\ ToThread("mark")
  /\ UNCHANGED <<appVars, plan, object, mode, enabled, epInit, waits, driverVars>>

\* ... and epoll_initialized_.
RunEpollMark ==
  /\ thread = "mark"
  /\ epInit' = TRUE
  /\ ToThread("epoll")
  /\ UNCHANGED <<appVars, plan, object, mode, enabled, ep, waits, driverVars>>

RunEpollSkip ==
  /\ thread = "poll" /\ mode = "epoll"
  /\ object = "built" => epInit
  /\ ToThread("epoll")
  /\ UNCHANGED <<appVars, plan, objectVars, waits, driverVars>>

\* epoll_wait() fails at once on an ep_fd_ of -1.
RunEpollWait ==
  /\ thread = "epoll"
  /\ waits' \in IF ep = "none" THEN (IF object = "built" THEN {"nothing"} ELSE {"nothing", "other"})
                ELSE {ep}
  /\ ToThread("wait")
  /\ UNCHANGED <<appVars, plan, objectVars, driverVars>>

\* The wait is over: the device has a record or has hung up.  Another
\* descriptor may or may not become ready (see Fairness).
RunWakeReady ==
  /\ thread = "wait"
  /\ waits = "nothing" \/ (waits = "device" /\ (records \/ ~poll_enabled))
  /\ ToThread("read")
  /\ UNCHANGED <<appVars, plan, objectVars, waits, driverVars>>

RunWakeOther ==
  /\ thread = "wait" /\ waits = "other"
  /\ ToThread("loop")
  /\ UNCHANGED <<appVars, plan, objectVars, waits, driverVars>>

\* read() until there are no more
RunRead ==
  /\ thread = "read"
  /\ records' = FALSE
  /\ ToThread("loop")
  /\ UNCHANGED <<appVars, plan, objectVars, waits, period, poll_enabled, gpo>>

Run == RunTest \/ RunSelectPoll \/ RunEpollCreate \/ RunEpollMark \/ RunEpollSkip
       \/ RunEpollWait \/ RunWakeReady \/ RunRead

\* The timer's edge, which comes back as an interrupt and a record.
Pulse ==
  /\ period > 0
  /\ gpo' = ~gpo
  /\ records' = (records \/ ~gpo)
  /\ UNCHANGED <<appVars, plan, objectVars, threadVars, period, poll_enabled>>

Next == Key \/ Calls \/ Run \/ RunWakeOther \/ Pulse

\* Both threads run; keys, edges and other descriptors owe nothing.
Fairness == WF_vars(Calls) /\ WF_vars(Run)
Spec     == Init /\ [][Next]_vars
FairSpec == Spec /\ Fairness

-----------------------------------------------------------------------------
(* Properties *)

\* The destructor's join() returns: enabled_ is cleared before the ioctl() that
\* ends any wait, in all three ways to wait, with a burst's write() before it
\* that ends none; but for a thread that read a member before it was set.
Joining == plan = <<"join">>
JoinReturns == Joining /\ ~early ~> ~Joining

\* While it waits, enabled_ is cleared, and the thread waits for nothing but a device
\* that has hung up.
JoinNotBlocked ==
  Joining /\ ~early =>
    /\ ~enabled /\ ~poll_enabled /\ thread # "none"
    /\ thread = "wait" => waits \in {"nothing", "device"}

\* Whatever the keys and their calls, between two keys the driver runs its timer,
\* at the period shown, and lets poll() sleep exactly in duty cycle mode with a
\* period of more than 0.
DriverFollowsMode ==
  plan = <<>> =>
    /\ period = IF test_mode = "duty" THEN duty_cycle_msec ELSE 0
    /\ poll_enabled <=> period > 0
=============================================================================
