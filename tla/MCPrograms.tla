----------------------------- MODULE MCPrograms -----------------------------
(***************************************************************************)
(* The user programs for TLC: writer and reader of the shared memory       *)
(* (ShmSem), the OLED program with its panel (OledPanel), the duty cycle   *)
(* program of the gpio driver (DutyApp) and the programs of MCDemos.  They *)
(* share nothing: a behaviour is of one of them.                           *)
(***************************************************************************)
EXTENDS ShmSem, MCDemos

CONSTANTS
  Width, Pages, PageRows, Wrap, MaxCalls,
  MaxMsec, FirstMsec, ShortPeriod, DutyKeys

VARIABLES
  x_cur, y_cur, oled_enabled, oled_filled, oled_rect_filled,
  panelPc, panelPlan, panelSeen, todo, buffer,
  sent, sending, bus, failed, torn, outside, excused, calls,
  test_mode, poll_mode, duty_cycle_msec, burst, dutyPlan, dutyKeys,
  object, mode, enabled, ep, epInit, thread, waits, early,
  period, poll_enabled, gpo, records

Panel == INSTANCE OledPanel WITH pc <- panelPc, plan <- panelPlan, seen <- panelSeen
Duty  == INSTANCE DutyApp WITH plan <- dutyPlan, keys <- dutyKeys, MaxKeys <- DutyKeys

ASSUME ProgramsAssumption ==
  DemosAssumption /\ Panel!PanelAssumption /\ Duty!DutyAssumption

panelVars == <<x_cur, y_cur, oled_enabled, oled_filled, oled_rect_filled,
               panelPc, panelPlan, panelSeen, todo, buffer,
               sent, sending, bus, failed, torn, outside, excused, calls>>
dutyVars  == <<test_mode, poll_mode, duty_cycle_msec, burst, dutyPlan, dutyKeys,
               object, mode, enabled, ep, epInit, thread, waits, early,
               period, poll_enabled, gpo, records>>
allVars   == <<program, vars, demosVars, panelVars, dutyVars>>

ProgramsInit ==
  /\ program \in Demos \cup {"shm", "panel", "duty"}
  /\ Init /\ DemosInit /\ Panel!Init /\ Duty!Init

ProgramsNext ==
  /\ UNCHANGED program
  /\ \/ program = "shm" /\ Next /\ UNCHANGED <<demosVars, panelVars, dutyVars>>
     \/ DemosNext /\ UNCHANGED <<vars, panelVars, dutyVars>>
     \/ program = "panel" /\ Panel!Next /\ UNCHANGED <<vars, demosVars, dutyVars>>
     \/ program = "duty" /\ Duty!Next /\ UNCHANGED <<vars, demosVars, panelVars>>

\* The fairness of Unnamed, when it is the one that runs; the other two owe no step
\* before they start.
UnnamedFairness ==
  /\ WF_unnamedVars(program = "unnamed" /\ Unnamed!ParentGoes)
  /\ WF_unnamedVars(program = "unnamed" /\ Unnamed!ChildGoes)

ProgramsSpec ==
  /\ ProgramsInit /\ [][ProgramsNext]_allVars
  /\ Fairness /\ Duty!Fairness /\ UnnamedFairness

\* What rect() stores is the part of the rectangle on the screen.
RectIsClipped == program = "panel" => Panel!RectIsClipped

\* When both threads are done the panel shows the frame buffer, but for a failed
\* or torn transfer.
NothingUnshown == Panel!NothingUnshown

\* A store outside of the frame buffer needs two racing moves or PixelUp() at the
\* top row.
OutsideNeedsWrap == Panel!OutsideNeedsWrap

\* The timer and the waits of the gpio driver follow the mode the keys chose.
DriverFollowsMode == Duty!DriverFollowsMode

\* The join() of ~DutyCycle() returns; the tenth increment ends both processes of
\* the unnamed pipe.
ProgramsEnd == Duty!JoinReturns /\ Unnamed!TenEndsBoth
=============================================================================
