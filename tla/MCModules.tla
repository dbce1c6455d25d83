------------------------------ MODULE MCModules ------------------------------
(***************************************************************************)
(* The ring buffers and the kernel modules for TLC: the power-of-two ring  *)
(* (CircBufQueue) with its bit operations (CircBufMask), the drivers of    *)
(* MCDrivers and the modules of MCLives.  They share nothing: a behaviour  *)
(* is of one of them.                                                      *)
(***************************************************************************)
EXTENDS CircBufQueue, MCDrivers

CONSTANTS W, MaxElements

VARIABLES maskCapacity, maskHead, maskTail

Mask == INSTANCE CircBufMask WITH
  capacity <- maskCapacity, head <- maskHead, tail <- maskTail

maskVars == <<maskCapacity, maskHead, maskTail>>
allVars == <<module, vars, driversVars, maskVars>>

ASSUME ModulesAssumption == DriversAssumption /\ Mask!MaskAssumption

\* A ring that is not exercised has one initial state.
ModulesInit ==
  /\ module \in Drivers \cup {"pow2", "mask"}
  /\ Init /\ DriversInit /\ Mask!Init
  /\ module # "pow2" => \A j \in DOMAIN buf.slots : buf.slots[j] = (CHOOSE v \in Value : TRUE)
  /\ module # "mask" => maskCapacity = 1

ModulesNext ==
  /\ UNCHANGED module
  /\ \/ DriversNext /\ UNCHANGED <<vars, maskVars>>
     \/ module = "pow2" /\ Next /\ UNCHANGED <<driversVars, maskVars>>
     \/ module = "mask" /\ Mask!Next /\ UNCHANGED <<vars, driversVars>>

\* A module that is not the one chosen owes no step.
ModulesSpec ==
  ModulesInit /\ [][ModulesNext]_allVars /\ Dma!Fairness /\ Wait!Fairness

-----------------------------------------------------------------------------
(* Properties *)

\* The bit operations of the power-of-two ring are the remainders of its model.
MaskIsRemainder == Mask!MaskIsRemainder

\* A writer returns, unless another one reset the completion it waits for; so does
\* insmod from the wait queue demonstration.
WaitersReturn == Dma!WriterReturns /\ Wait!DemoReturns
=============================================================================
