------------------------------- MODULE MCLives -------------------------------
(***************************************************************************)
(* Modules that come, are used and go, for TLC: the OLED module (OledLife),*)
(* the gpio module (GpioLife), the OLED module over regmap (RegmapLife),   *)
(* the dma module (DmaLife), the timer module (TimerLife), the memory      *)
(* module (MemoryDev), the linked list demonstration (LinkedList) and the  *)
(* wait queue one (WaitQueue).  They share nothing: a behaviour is of one  *)
(* of them, the others stay where they start.                              *)
(***************************************************************************)
EXTENDS Naturals

CONSTANTS
  LastPin, Procs, Nobody, Size, num_elements, Fifth

VARIABLES
  module,          \* which module this behaviour is of
  oledPc, oledPin, descs, irqs, numbered, oledDriver, oledBound, oledOled,
  oledRings, oledWorkInit, oledWork, oledNodes, oledOpen, oledStale, oledCauses,
  gpioPc, gpioPins, gpioIrq, gpioRings, gpioWorkInit, pending, gpioRunning,
  hrt, gpioTimer, gpioNodes, gpioOpen, gpioStale, gpioCauses,
  regmapPc, regmapDriver, regmapBound, leaving, regmapPins, regmapOled,
  regmapMap, regmapOpen, regmapStale, regmapCauses,
  dmaPc, dmaDriver, dmaBound, dmaLeaving, dmaMemory, channel, misc, sized,
  proc, dmaOpen, moving, dmaStale, dmaCauses,
  timerPc, timerAt, timerMemory, armed, timerRunning, timerStale, timerFailed,
  memoryPc, memoryAt, memoryHeld, memoryLock, memoryFd, memoryView,
  fill_offset, stray, memoryFailed,
  linkedPc, linkedI, linkedRound, linkedHead, linkedArray, linkedNodes,
  linkedList, linkedPos, linkedTemp, linkedMisused, linkedFailed,
  waitPc, waitWork, wait_queue_condition, waitWaiting, triggered, signalled,
  late

Oled == INSTANCE OledLife WITH
  pc <- oledPc, pin <- oledPin, driver <- oledDriver, bound <- oledBound,
  oled <- oledOled, rings <- oledRings, workInit <- oledWorkInit,
  work <- oledWork, nodes <- oledNodes, open <- oledOpen, stale <- oledStale,
  causes <- oledCauses
Gpio == INSTANCE GpioLife WITH
  pc <- gpioPc, pins <- gpioPins, irq <- gpioIrq, rings <- gpioRings,
  workInit <- gpioWorkInit, running <- gpioRunning, timer <- gpioTimer,
  nodes <- gpioNodes, open <- gpioOpen, stale <- gpioStale, causes <- gpioCauses
Regmap == INSTANCE RegmapLife WITH
  pc <- regmapPc, driver <- regmapDriver, bound <- regmapBound,
  pins <- regmapPins, oled <- regmapOled, map <- regmapMap,
  open <- regmapOpen, stale <- regmapStale, causes <- regmapCauses
DmaDriver == INSTANCE DmaLife WITH
  pc <- dmaPc, driver <- dmaDriver, bound <- dmaBound, leaving <- dmaLeaving,
  memory <- dmaMemory, open <- dmaOpen, stale <- dmaStale, causes <- dmaCauses
Timer == INSTANCE TimerLife WITH
  pc <- timerPc, at <- timerAt, memory <- timerMemory,
  running <- timerRunning, stale <- timerStale, failed <- timerFailed
Memory == INSTANCE MemoryDev WITH
  pc <- memoryPc, at <- memoryAt, held <- memoryHeld, lock <- memoryLock,
  fd <- memoryFd, view <- memoryView, failed <- memoryFailed
Linked == INSTANCE LinkedList WITH
  pc <- linkedPc, i <- linkedI, round <- linkedRound, head <- linkedHead,
  array <- linkedArray, nodes <- linkedNodes, list <- linkedList,
  pos <- linkedPos, temp <- linkedTemp, misused <- linkedMisused,
  failed <- linkedFailed
Wait == INSTANCE WaitQueue WITH
  pc <- waitPc, work <- waitWork, waiting <- waitWaiting

oledVars == <<oledPc, oledPin, descs, irqs, numbered, oledDriver, oledBound,
              oledOled, oledRings, oledWorkInit, oledWork, oledNodes,
              oledOpen, oledStale, oledCauses>>
gpioVars == <<gpioPc, gpioPins, gpioIrq, gpioRings, gpioWorkInit, pending,
              gpioRunning, hrt, gpioTimer, gpioNodes, gpioOpen, gpioStale,
              gpioCauses>>
regmapVars == <<regmapPc, regmapDriver, regmapBound, leaving, regmapPins,
                regmapOled, regmapMap, regmapOpen, regmapStale, regmapCauses>>
dmaDriverVars == <<dmaPc, dmaDriver, dmaBound, dmaLeaving, dmaMemory, channel,
                   misc, sized, proc, dmaOpen, moving, dmaStale, dmaCauses>>
timerVars == <<timerPc, timerAt, timerMemory, armed, timerRunning, timerStale,
               timerFailed>>
memoryVars == <<memoryPc, memoryAt, memoryHeld, memoryLock, memoryFd,
                memoryView, fill_offset, stray, memoryFailed>>
linkedVars == <<linkedPc, linkedI, linkedRound, linkedHead, linkedArray,
                linkedNodes, linkedList, linkedPos, linkedTemp, linkedMisused,
                linkedFailed>>
waitVars == <<waitPc, waitWork, wait_queue_condition, waitWaiting, triggered,
              signalled, late>>

ASSUME LivesAssumption ==
  Oled!LifeAssumption /\ Memory!MemoryAssumption /\ Linked!ListAssumption

Lives == {"oled", "gpio", "regmap", "dma driver", "timer", "memory", "linked", "wait"}

LivesInit ==
  /\ Oled!Init /\ Gpio!Init /\ Regmap!Init /\ DmaDriver!Init /\ Timer!Init
  /\ Memory!Init /\ Linked!Init /\ Wait!Init

livesVars == <<oledVars, gpioVars, regmapVars, dmaDriverVars, timerVars, memoryVars, linkedVars, waitVars>>

LivesNext ==
  \/ /\ module = "oled" /\ Oled!Next
     /\ UNCHANGED <<gpioVars, regmapVars, dmaDriverVars, timerVars, memoryVars, linkedVars, waitVars>>
  \/ /\ module = "gpio" /\ Gpio!Next
     /\ UNCHANGED <<oledVars, regmapVars, dmaDriverVars, timerVars, memoryVars, linkedVars, waitVars>>
  \/ /\ module = "regmap" /\ Regmap!Next
     /\ UNCHANGED <<oledVars, gpioVars, dmaDriverVars, timerVars, memoryVars, linkedVars, waitVars>>
  \/ /\ module = "dma driver" /\ DmaDriver!Next
     /\ UNCHANGED <<oledVars, gpioVars, regmapVars, timerVars, memoryVars, linkedVars, waitVars>>
  \/ /\ module = "timer" /\ Timer!Next
     /\ UNCHANGED <<oledVars, gpioVars, regmapVars, dmaDriverVars, memoryVars, linkedVars, waitVars>>
  \/ /\ module = "memory" /\ Memory!Next
     /\ UNCHANGED <<oledVars, gpioVars, regmapVars, dmaDriverVars, timerVars, linkedVars, waitVars>>
  \/ /\ module = "linked" /\ Linked!Next
     /\ UNCHANGED <<oledVars, gpioVars, regmapVars, dmaDriverVars, timerVars, memoryVars, waitVars>>
  \/ /\ module = "wait" /\ Wait!Next
     /\ UNCHANGED <<oledVars, gpioVars, regmapVars, dmaDriverVars, timerVars, memoryVars, linkedVars>>

LivesSpec == LivesInit /\ [][LivesNext]_livesVars

-----------------------------------------------------------------------------
(* Properties *)

\* Memory, list nodes and code are used only while they are there, but for the
\* causes each module names.
NoStaleUse ==
  /\ Oled!NoStaleUse /\ Gpio!NoStaleUse /\ Regmap!NoStaleUse /\ DmaDriver!NoStaleUse
  /\ Timer!NoStaleUse /\ Linked!NoStaleUse /\ Wait!NoStaleUse

\* A module that was unloaded left nothing behind, but for the failures each module
\* names.  One that fails to load once its own init is done, over its device node,
\* gives nothing back: what it had stays, with no code to release it.
UnloadReleases ==
  /\ Oled!UnloadReleases /\ Gpio!UnloadReleases /\ Regmap!UnloadReleases /\ DmaDriver!UnloadReleases
  /\ Timer!UnloadReleases /\ Memory!UnloadReleases /\ Linked!EndReleases

\* One process at a time has the file of the memory module or a mapping of it.
OneHolder == Memory!OneHolder
=============================================================================
