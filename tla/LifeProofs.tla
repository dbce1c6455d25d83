----------------------------- MODULE LifeProofs -----------------------------
(* Modules that come, are used and go use nothing that is gone and leave     *)
(* nothing behind, but for the causes each names: for any number of pins,    *)
(* processes and list elements.  Each part proves an inductive invariant of  *)
(* one module of MCLives; the end puts them together.                        *)
EXTENDS MCLives, Integers, FiniteSets, SequencesExt, SequenceTheorems, TLAPS

-----------------------------------------------------------------------------
(* The oled module *)

OledPcs == {"out", "add_driver", "probe_pin", "probe_undo", "alloc", "init_panel", "init_rings",
            "region", "class", "device", "cdev", "loaded", "free_pin", "flush", "release",
            "unregister", "gone"}

OledType ==
  /\ oledPc \in OledPcs
  /\ oledPin \in Oled!Pins
  /\ descs \in SUBSET Oled!Pins /\ irqs \in SUBSET Oled!Pins /\ numbered \in SUBSET Oled!Pins
  /\ oledDriver \in BOOLEAN /\ oledBound \in BOOLEAN /\ oledOled \in {"none", "live", "freed"}
  /\ oledRings \in [Oled!Rings -> {"none", "live", "freed"}]
  /\ oledWorkInit \in BOOLEAN /\ oledWork \in {"idle", "queued", "running"}
  /\ oledNodes \in SUBSET Oled!Nodes /\ oledOpen \in BOOLEAN

\* However the load went: exit frees pin after pin.
OledPlaced ==
  /\ OledType
  /\ oledOpen => oledPc = "loaded"
  /\ oledPc \in {"out", "free_pin", "flush", "release", "unregister"} => ~oledDriver
  /\ oledPc = "out" => oledNodes \subseteq {"cdev"}
  /\ oledPc = "free_pin" => \A k \in Oled!Pins : k \in irqs \/ k \in descs \intersect numbered
     => k >= oledPin
  /\ oledPc \in {"out", "flush", "release", "unregister"} =>
       irqs = {} /\ descs \intersect numbered = {}

Registering == oledPc \in {"region", "class", "device", "cdev", "loaded", "gone"}
RingsHeld   == Registering \/ oledPc \in {"free_pin", "flush"}
PinsHeld    == Registering \/ oledPc \in {"alloc", "init_panel", "init_rings"}

\* With no failed step: each step has what the steps before it made, and the pins
\* that remove has put are the only ones released twice.
OledWhole ==
  \/ "failed" \in oledCauses
  \/ /\ oledPc # "probe_undo"
     /\ oledPc = "gone" => "node" \in oledCauses
     /\ oledPc = "add_driver" => oledPin = 1
     /\ oledPc = "probe_pin" => \A k \in Oled!Pins : k < oledPin => k \in descs \intersect irqs
     /\ PinsHeld => descs = Oled!Pins /\ irqs = Oled!Pins
     /\ PinsHeld \/ oledPc = "probe_pin" => oledDriver
     /\ oledPc = "free_pin" =>
          "removed" \in oledCauses /\ \A k \in Oled!Pins : k >= oledPin => k \in irqs
     /\ oledPc \in {"out", "add_driver", "free_pin", "flush", "release", "unregister"} => descs = {}
     /\ oledPc \in {"free_pin", "flush", "release", "unregister", "out"} => oledOled # "live"
     /\ oledPc \in {"init_panel", "init_rings"} \/ Registering => oledOled = "live"
     /\ oledPc = "init_rings" \/ Registering => oledBound
     /\ RingsHeld \/ oledPc = "release" => oledRings = [r \in Oled!Rings |-> "live"]
     /\ Oled!Early => ~oledWorkInit
     /\ oledWork # "idle" => RingsHeld

OledInv == OledPlaced /\ OledWhole /\ Oled!NoStaleUse

LEMMA OledInit == Oled!LifeAssumption /\ Oled!Init => OledInv
<1> SUFFICES ASSUME Oled!LifeAssumption, Oled!Init PROVE OledInv
  OBVIOUS
<1>1. oledRings \in [Oled!Rings -> {"none", "live", "freed"}]
  BY DEF Oled!Init
<1>2. oledPin \in Oled!Pins
  BY DEF Oled!Init, Oled!LifeAssumption, Oled!Pins
<1>3. /\ oledDriver \in BOOLEAN /\ oledBound \in BOOLEAN /\ oledWorkInit \in BOOLEAN
         /\ oledOpen \in BOOLEAN
  BY DEF Oled!Init
<1>4. ~oledDriver /\ ~oledOpen /\ ~oledWorkInit
  BY DEF Oled!Init
<1>5. OledType
  BY <1>1, <1>2, <1>3 DEF Oled!Init, OledType, OledPcs
<1>6. OledPlaced
  BY <1>4, <1>5 DEF Oled!Init, OledPlaced
<1>7. OledWhole
  BY <1>4 DEF Oled!Init, OledWhole, Registering, RingsHeld, PinsHeld, Oled!Early
<1>8. Oled!NoStaleUse
  BY DEF Oled!Init, Oled!NoStaleUse
<1> QED
  BY <1>6, <1>7, <1>8 DEF OledInv

LEMMA OledTypeNext == Oled!LifeAssumption /\ OledType /\ [Oled!Next]_oledVars => OledType'
<1> SUFFICES ASSUME Oled!LifeAssumption /\ OledType, [Oled!Next]_oledVars PROVE OledType'
  OBVIOUS
<1> USE DEF Oled!LifeAssumption, Oled!Pins, OledType, Oled!Goto, Oled!Failed, Oled!history,
   Oled!pinVars, Oled!devVars, Oled!workVars, Oled!nodeVars
<1>1. CASE Oled!Load
  <2>1. oledRings' \in [Oled!Rings -> {"none", "live", "freed"}]
    BY <1>1 DEF Oled!Load
  <2>2. oledWorkInit' \in BOOLEAN
    BY <1>1 DEF Oled!Load
  <2> QED
    BY <1>1, <2>1, <2>2 DEF OledPcs, Oled!Load
<1>2. CASE Oled!AddDriver
  <2>1. oledPc' \in OledPcs
    BY <1>2 DEF OledPcs, Oled!AddDriver
  <2>2. oledDriver' \in BOOLEAN /\ oledBound' \in BOOLEAN /\ oledWorkInit' \in BOOLEAN
    BY <1>2 DEF Oled!AddDriver
  <2>3. oledOpen' \in BOOLEAN
    BY <1>2 DEF Oled!AddDriver
  <2> QED
    BY <1>2, <2>1, <2>2, <2>3 DEF Oled!AddDriver
<1>3. CASE Oled!ProbePin
  <2>1. descs' \in SUBSET Oled!Pins
    BY <1>3 DEF Oled!ProbePin, Oled!PinDone
  <2>2. irqs' \in SUBSET Oled!Pins
    BY <1>3 DEF Oled!ProbePin, Oled!PinDone
  <2>3. numbered' \in SUBSET Oled!Pins
    BY <1>3 DEF Oled!ProbePin, Oled!PinDone
  <2>4. oledPin' \in Oled!Pins
    BY <1>3 DEF Oled!ProbePin, Oled!PinDone
  <2>5. oledPc' \in {"probe_pin", "alloc", "probe_undo"}
    BY <1>3 DEF Oled!ProbePin, Oled!PinDone
  <2> QED
    BY <1>3, <2>1, <2>2, <2>3, <2>4, <2>5 DEF OledPcs, Oled!ProbePin
<1>4. CASE Oled!ProbeUndo
  BY <1>4 DEF OledPcs, Oled!ProbeUndo
<1>5. CASE Oled!ProbeAlloc
  <2>1. oledPc' \in OledPcs
    BY <1>5 DEF OledPcs, Oled!ProbeAlloc
  <2>2. oledDriver' \in BOOLEAN /\ oledBound' \in BOOLEAN /\ oledWorkInit' \in BOOLEAN
    BY <1>5 DEF Oled!ProbeAlloc
  <2>3. oledOpen' \in BOOLEAN
    BY <1>5 DEF Oled!ProbeAlloc
  <2> QED
    BY <1>5, <2>1, <2>2, <2>3 DEF Oled!ProbeAlloc
<1>6. CASE Oled!ProbePanel
  <2>1. oledPc' \in OledPcs
    BY <1>6 DEF OledPcs, Oled!ProbePanel
  <2>2. oledDriver' \in BOOLEAN /\ oledBound' \in BOOLEAN /\ oledWorkInit' \in BOOLEAN
    BY <1>6 DEF Oled!ProbePanel
  <2>3. oledOpen' \in BOOLEAN
    BY <1>6 DEF Oled!ProbePanel
  <2> QED
    BY <1>6, <2>1, <2>2, <2>3 DEF Oled!ProbePanel
<1>7. CASE Oled!InitRings
  <2>1. oledPc' \in OledPcs
    BY <1>7 DEF OledPcs, Oled!InitRings
  <2>2. oledDriver' \in BOOLEAN /\ oledBound' \in BOOLEAN /\ oledWorkInit' \in BOOLEAN
    BY <1>7 DEF Oled!InitRings
  <2>3. oledOpen' \in BOOLEAN
    BY <1>7 DEF Oled!InitRings
  <2> QED
    BY <1>7, <2>1, <2>2, <2>3 DEF Oled!InitRings
<1>8. CASE Oled!RegisterNode
  <2>1. ASSUME NEW a \in {"region", "class", "device", "cdev"},
               NEW next \in {"class", "device", "cdev", "loaded"},
               Oled!Register(a, a, next)
        PROVE  OledType'
    <3>1. oledNodes' \in SUBSET Oled!Nodes
      BY <2>1 DEF Oled!Register, Oled!Nodes
    <3> QED
      BY <2>1, <3>1 DEF OledPcs, Oled!Register
  <2> QED
    BY <1>8, <2>1 DEF Oled!RegisterNode
<1>9. CASE Oled!Unload
  <2>1. oledOled' \in {"none", "live", "freed"} /\ descs' \in SUBSET Oled!Pins
    BY <1>9 DEF Oled!Unload
  <2>2. oledDriver' \in BOOLEAN /\ oledBound' \in BOOLEAN
    BY <1>9 DEF Oled!Unload
  <2> QED
    BY <1>9, <2>1, <2>2 DEF OledPcs, Oled!Unload
<1>10. CASE Oled!FreePin
  BY <1>10 DEF OledPcs, Oled!FreePin
<1>11. CASE Oled!Flush
  BY <1>11 DEF OledPcs, Oled!Flush
<1>12. CASE Oled!Release
  BY <1>12 DEF OledPcs, Oled!Release
<1>13. CASE Oled!Unregister
  BY <1>13 DEF OledPcs, Oled!Unregister
<1>14. CASE Oled!Interrupt
  BY <1>14 DEF Oled!Interrupt, Oled!Live, Oled!InModule, Oled!Early
<1>15. CASE Oled!WorkRuns
  BY <1>15 DEF Oled!WorkRuns, Oled!Live, Oled!InModule
<1>16. CASE Oled!Open
  BY <1>16 DEF Oled!Open
<1>17. CASE Oled!Use
  BY <1>17 DEF Oled!Use, Oled!Live, Oled!InModule
<1>18. CASE Oled!Close
  BY <1>18 DEF Oled!Close
<1>19. CASE UNCHANGED oledVars
  BY <1>19 DEF oledVars
<1> QED
  BY <1>1, <1>2, <1>3, <1>4, <1>5, <1>6, <1>7, <1>8, <1>9, <1>10, <1>11, <1>12, <1>13, <1>14,
     <1>15, <1>16, <1>17, <1>18, <1>19 DEF Oled!Next

LEMMA OledPlacedNext == Oled!LifeAssumption /\ OledPlaced /\ OledType' /\ [Oled!Next]_oledVars
                        => OledPlaced'
<1> SUFFICES ASSUME Oled!LifeAssumption /\ OledPlaced /\ OledType', [Oled!Next]_oledVars
             PROVE OledPlaced'
  OBVIOUS
<1> USE DEF Oled!LifeAssumption, Oled!Pins, OledPlaced, OledType, Oled!Goto, Oled!Failed, Oled!Fails, Oled!FreesHeld,
   Oled!history, Oled!pinVars, Oled!devVars, Oled!workVars, Oled!nodeVars
<1>1. CASE Oled!Load
  BY <1>1 DEF Oled!Load
<1>2. CASE Oled!AddDriver
  BY <1>2 DEF Oled!AddDriver
<1>3. CASE Oled!ProbePin
  BY <1>3 DEF Oled!ProbePin, Oled!PinDone
<1>4. CASE Oled!ProbeUndo
  BY <1>4 DEF Oled!ProbeUndo
<1>5. CASE Oled!ProbeAlloc
  BY <1>5 DEF Oled!ProbeAlloc
<1>6. CASE Oled!ProbePanel
  BY <1>6 DEF Oled!ProbePanel
<1>7. CASE Oled!InitRings
  BY <1>7 DEF Oled!InitRings
<1>8. CASE Oled!RegisterNode
  BY <1>8 DEF Oled!RegisterNode, Oled!Register
<1>9. CASE Oled!Unload
  BY <1>9 DEF Oled!Unload
<1>10. CASE Oled!FreePin
  BY <1>10 DEF Oled!FreePin
<1>11. CASE Oled!Flush
  BY <1>11 DEF Oled!Flush
<1>12. CASE Oled!Release
  BY <1>12 DEF Oled!Release
<1>13. CASE Oled!Unregister
  BY <1>13 DEF Oled!Unregister
<1>14. CASE Oled!Interrupt
  BY <1>14 DEF Oled!Interrupt, Oled!Live, Oled!InModule, Oled!Early
<1>15. CASE Oled!WorkRuns
  BY <1>15 DEF Oled!WorkRuns, Oled!Live, Oled!InModule
<1>16. CASE Oled!Open
  BY <1>16 DEF Oled!Open
<1>17. CASE Oled!Use
  BY <1>17 DEF Oled!Use, Oled!Live, Oled!InModule
<1>18. CASE Oled!Close
  BY <1>18 DEF Oled!Close
<1>19. CASE UNCHANGED oledVars
  BY <1>19 DEF oledVars
<1> QED
  BY <1>1, <1>2, <1>3, <1>4, <1>5, <1>6, <1>7, <1>8, <1>9, <1>10, <1>11, <1>12, <1>13, <1>14,
     <1>15, <1>16, <1>17, <1>18, <1>19 DEF Oled!Next

LEMMA OledWholeNext == Oled!LifeAssumption /\ OledInv /\ OledType' /\ [Oled!Next]_oledVars => OledWhole'
<1> SUFFICES ASSUME Oled!LifeAssumption /\ OledInv /\ OledType', [Oled!Next]_oledVars PROVE OledWhole'
  OBVIOUS
<1> USE DEF Oled!LifeAssumption, Oled!Pins, OledInv, OledPlaced, OledType, OledWhole, Registering,
   RingsHeld, PinsHeld, Oled!Early, Oled!Goto, Oled!Failed, Oled!Fails, Oled!FreesHeld,
   Oled!history, Oled!pinVars, Oled!devVars, Oled!workVars, Oled!nodeVars
<1>1. CASE Oled!Load
  BY <1>1 DEF Oled!Load
<1>2. CASE Oled!AddDriver
  <2>1. CASE "failed" \in oledCauses'
    BY <2>1
  <2>2. CASE "failed" \notin oledCauses'
    <3>1. oledPc = "add_driver" /\ oledPc' = "probe_pin" /\ oledDriver' = TRUE
          /\ UNCHANGED <<oledPin, oledCauses, descs, oledBound, oledOled, oledRings,
                         oledWorkInit, oledWork>>
      BY <1>2, <2>2 DEF Oled!AddDriver
    <3>2. oledPin = 1 /\ ~oledWorkInit /\ oledWork = "idle"
      BY <2>2, <3>1
    <3>3. ~(\E k \in Oled!Pins : k < oledPin')
      BY <3>1, <3>2
    <3> QED
      BY <2>2, <3>1, <3>2, <3>3
  <2> QED
    BY <2>1, <2>2
<1>3. CASE Oled!ProbePin
  <2>1. CASE "failed" \in oledCauses'
    BY <2>1
  <2>2. CASE "failed" \notin oledCauses'
    <3>1. /\ oledPc = "probe_pin" /\ descs' = descs \union {oledPin} /\ irqs' = irqs \union {oledPin}
          /\ \/ oledPin = LastPin /\ oledPc' = "alloc" /\ oledPin' = oledPin
             \/ oledPin # LastPin /\ oledPin' = oledPin + 1 /\ oledPc' = oledPc
          /\ UNCHANGED <<oledCauses, oledDriver, oledBound, oledOled, oledRings, oledWorkInit,
                         oledWork>>
      BY <1>3, <2>2 DEF Oled!ProbePin, Oled!PinDone
    <3>2. oledDriver /\ ~oledWorkInit /\ oledWork = "idle"
      BY <2>2, <3>1
    <3>3. \A k \in Oled!Pins : k <= oledPin => k \in descs' \intersect irqs'
      BY <2>2, <3>1
    <3>4. CASE oledPin = LastPin
      <4>1. descs' = Oled!Pins /\ irqs' = Oled!Pins
        <5>1. \A k \in Oled!Pins : k <= oledPin
          BY <3>4
        <5>2. \A k \in Oled!Pins : k \in descs' /\ k \in irqs'
          BY <3>3, <5>1
        <5>3. descs' \subseteq Oled!Pins /\ irqs' \subseteq Oled!Pins
          OBVIOUS
        <5> HIDE DEF Oled!Pins
        <5> QED
          BY <5>2, <5>3, Zenon
      <4> QED
        BY <2>2, <3>1, <3>2, <3>4, <4>1
    <3>5. CASE oledPin # LastPin
      <4>1. \A k \in Oled!Pins : k < oledPin' => k \in descs' \intersect irqs'
        BY <3>1, <3>3, <3>5
      <4> QED
        BY <2>2, <3>1, <3>2, <3>5, <4>1
    <3> QED
      BY <3>4, <3>5
  <2> QED
    BY <2>1, <2>2
<1>4. CASE Oled!ProbeUndo
  BY <1>4 DEF Oled!ProbeUndo
<1>5. CASE Oled!ProbeAlloc
  BY <1>5 DEF Oled!ProbeAlloc
<1>6. CASE Oled!ProbePanel
  BY <1>6 DEF Oled!ProbePanel
<1>7. CASE Oled!InitRings
  BY <1>7 DEF Oled!InitRings
<1>8. CASE Oled!RegisterNode
  BY <1>8 DEF Oled!RegisterNode, Oled!Register
<1>9. CASE Oled!Unload
  BY <1>9 DEF Oled!Unload
<1>10. CASE Oled!FreePin
  BY <1>10 DEF Oled!FreePin
<1>11. CASE Oled!Flush
  BY <1>11 DEF Oled!Flush
<1>12. CASE Oled!Release
  BY <1>12 DEF Oled!Release
<1>13. CASE Oled!Unregister
  BY <1>13 DEF Oled!Unregister
<1>14. CASE Oled!Interrupt
  <2>1. oledWork' \in {oledWork, "queued"} /\ (oledWork' # oledWork => oledWorkInit)
        /\ oledCauses \subseteq oledCauses'
        /\ UNCHANGED <<oledPc, oledPin, descs, irqs, numbered, oledDriver, oledBound, oledOled,
                       oledRings, oledWorkInit>>
    BY <1>14 DEF Oled!Interrupt
  <2>2. CASE "failed" \in oledCauses
    BY <2>1, <2>2
  <2>3. CASE "failed" \notin oledCauses
    <3>1. RingsHeld \/ oledWork' = oledWork
      BY <1>14, <2>1, <2>3 DEF Oled!Interrupt, OledPcs
    <3> QED
      BY <2>1, <2>3, <3>1
  <2> QED
    BY <2>2, <2>3
<1>15. CASE Oled!WorkRuns
  BY <1>15 DEF Oled!WorkRuns, Oled!Live, Oled!InModule
<1>16. CASE Oled!Open
  BY <1>16 DEF Oled!Open
<1>17. CASE Oled!Use
  BY <1>17 DEF Oled!Use, Oled!Live, Oled!InModule
<1>18. CASE Oled!Close
  BY <1>18 DEF Oled!Close
<1>19. CASE UNCHANGED oledVars
  BY <1>19 DEF oledVars
<1> QED
  BY <1>1, <1>2, <1>3, <1>4, <1>5, <1>6, <1>7, <1>8, <1>9, <1>10, <1>11, <1>12, <1>13, <1>14,
     <1>15, <1>16, <1>17, <1>18, <1>19 DEF Oled!Next

LEMMA OledStaleNext == OledInv /\ [Oled!Next]_oledVars => Oled!NoStaleUse'
<1> SUFFICES ASSUME OledInv, [Oled!Next]_oledVars PROVE Oled!NoStaleUse'
  OBVIOUS
<1> USE DEF OledInv, Oled!NoStaleUse, Oled!Unless, Oled!Goto, Oled!Failed, Oled!Fails, Oled!history
<1>1. CASE Oled!Load \/ Oled!AddDriver \/ Oled!ProbePin \/ Oled!ProbeAlloc \/ Oled!ProbePanel
           \/ Oled!InitRings \/ Oled!RegisterNode \/ Oled!Unload \/ Oled!Flush
           \/ Oled!Unregister \/ Oled!Open \/ Oled!Close
  <2>1. oledStale' = oledStale /\ oledCauses \subseteq oledCauses'
    BY <1>1 DEF Oled!Load, Oled!AddDriver, Oled!ProbePin, Oled!PinDone, Oled!ProbeAlloc,
       Oled!ProbePanel, Oled!InitRings, Oled!RegisterNode, Oled!Register, Oled!Unload,
       Oled!Flush, Oled!Unregister, Oled!Open, Oled!Close
  <2> QED
    BY <2>1
<1>2. CASE Oled!ProbeUndo
  BY <1>2 DEF Oled!ProbeUndo, OledWhole
<1>3. CASE Oled!FreePin
  <2>1. (oledPin \in irqs /\ "removed" \in oledCauses) \/ "failed" \in oledCauses
    BY <1>3 DEF Oled!FreePin, OledWhole, OledPlaced, OledType, Oled!Pins
  <2> QED
    BY <1>3, <2>1 DEF Oled!FreePin, Oled!FreesHeld
<1>4. CASE Oled!Release
  BY <1>4 DEF Oled!Release, OledWhole
<1>5. CASE Oled!Interrupt
  <2>1. "failed" \in oledCauses \/ Oled!Early \/ Oled!Live \/ "node" \in oledCauses
    BY <1>5 DEF Oled!Interrupt, OledWhole, OledPlaced, OledType, OledPcs, Registering, RingsHeld,
       Oled!Early, Oled!Live, Oled!InModule
  <2> QED
    BY <1>5, <2>1 DEF Oled!Interrupt
<1>6. CASE Oled!WorkRuns
  <2>1. "failed" \in oledCauses \/ Oled!Live \/ "node" \in oledCauses
    BY <1>6 DEF Oled!WorkRuns, OledWhole, Registering, RingsHeld, Oled!Live, Oled!InModule
  <2> QED
    BY <1>6, <2>1 DEF Oled!WorkRuns
<1>7. CASE Oled!Use
  <2>1. "failed" \in oledCauses \/ (Oled!Live /\ oledOled = "live")
    BY <1>7 DEF Oled!Use, OledWhole, OledPlaced, Registering, RingsHeld, Oled!Live, Oled!InModule
  <2> QED
    BY <1>7, <2>1 DEF Oled!Use
<1>8. CASE UNCHANGED oledVars
  BY <1>8 DEF oledVars
<1> QED
  BY <1>1, <1>2, <1>3, <1>4, <1>5, <1>6, <1>7, <1>8 DEF Oled!Next

LEMMA OledNext == Oled!LifeAssumption /\ OledInv /\ [Oled!Next]_oledVars => OledInv'
<1> SUFFICES ASSUME Oled!LifeAssumption, OledInv, [Oled!Next]_oledVars PROVE OledInv'
  OBVIOUS
<1>1. OledType'
  BY OledTypeNext DEF OledInv, OledPlaced
<1> QED
  BY <1>1, OledPlacedNext, OledWholeNext, OledStaleNext DEF OledInv

LEMMA OledSafe == OledInv => Oled!NoStaleUse /\ Oled!UnloadReleases
  BY DEF OledInv, OledPlaced, OledType, OledWhole, Registering, RingsHeld, PinsHeld,
     Oled!UnloadReleases

-----------------------------------------------------------------------------
(* The gpio module *)

GpioPcs == {"out", "input", "rings", "output", "node", "loaded", "free_output", "cancel",
            "free_timer", "release", "unregister", "gone"}

GpioType ==
  /\ gpioPc \in GpioPcs
  /\ gpioPins \in SUBSET {"input", "output"} /\ gpioIrq \in BOOLEAN
  /\ gpioRings \in [Gpio!Rings -> {"none", "live", "freed"}]
  /\ gpioWorkInit \in BOOLEAN /\ pending \in BOOLEAN /\ gpioRunning \in BOOLEAN
  /\ hrt \in {"none", "live", "freed"} /\ gpioTimer \in {"idle", "armed", "running"}
  /\ gpioNodes \in SUBSET {"device", "cdev"} /\ gpioOpen \in BOOLEAN

\* However the load went: what is taken back stays away until the next load.
GpioPlaced ==
  /\ GpioType
  /\ gpioOpen => gpioPc = "loaded"
  /\ gpioIrq => gpioPc \in {"rings", "output", "node", "loaded", "gone"}
  /\ gpioTimer # "idle" => gpioPc \in {"loaded", "free_output", "cancel"}
  /\ gpioPc \in {"out", "input", "cancel", "free_timer", "release", "unregister"} => gpioPins = {}
  /\ gpioPc = "free_output" => gpioPins \subseteq {"output"}
  /\ gpioPc \in {"out", "release", "unregister"} => hrt # "live"
  /\ gpioPc \in {"out", "unregister"} => \A r \in Gpio!Rings : gpioRings[r] # "live"
  /\ gpioPc = "out" => gpioNodes \subseteq {"cdev"}

RingsThere ==
  gpioPc \in {"output", "node", "loaded", "gone", "free_output", "cancel", "free_timer", "release"}

\* With no step of a load failed: each step has what the steps before it made.
GpioWhole ==
  \/ "failed" \in gpioCauses
  \/ /\ gpioPc = "gone" => "node" \in gpioCauses /\ gpioIrq
     /\ gpioPc \in {"rings", "output", "node", "loaded"} => gpioIrq
     /\ gpioPc \in {"rings", "output"} => gpioPins = {"input"}
     /\ gpioPc \in {"node", "loaded", "gone"} => gpioPins = {"input", "output"}
     /\ gpioPc = "free_output" => gpioPins = {"output"}
     /\ gpioPc \in {"node", "loaded", "gone", "free_output", "cancel", "free_timer"} => hrt = "live"
     /\ RingsThere => gpioRings = Gpio!AllLive
     /\ gpioPc \in {"input", "rings"} => ~gpioWorkInit
     /\ pending \/ gpioRunning => RingsThere \/ "pending" \in gpioCauses
     /\ gpioPc = "cancel" /\ gpioTimer # "idle" => "armed" \in gpioCauses

GpioInv == GpioPlaced /\ GpioWhole /\ Gpio!NoStaleUse

LEMMA GpioInit == Gpio!Init => GpioInv
<1> SUFFICES ASSUME Gpio!Init PROVE GpioInv
  OBVIOUS
<1>1. gpioRings \in [Gpio!Rings -> {"none", "live", "freed"}]
      /\ \A r \in Gpio!Rings : gpioRings[r] # "live"
  BY DEF Gpio!Init
<1>2. /\ gpioIrq \in BOOLEAN /\ gpioWorkInit \in BOOLEAN /\ pending \in BOOLEAN
         /\ gpioRunning \in BOOLEAN /\ gpioOpen \in BOOLEAN
      /\ ~gpioIrq /\ ~gpioWorkInit /\ ~pending /\ ~gpioRunning /\ ~gpioOpen
  BY DEF Gpio!Init
<1>3. GpioType
  BY <1>1, <1>2 DEF Gpio!Init, GpioType, GpioPcs
<1>4. GpioPlaced
  BY <1>1, <1>2, <1>3 DEF Gpio!Init, GpioPlaced
<1>5. GpioWhole
  BY <1>2 DEF Gpio!Init, GpioWhole, RingsThere
<1> QED
  BY <1>4, <1>5 DEF Gpio!Init, GpioInv, Gpio!NoStaleUse

LEMMA GpioTypeNext == GpioType /\ [Gpio!Next]_gpioVars => GpioType'
<1> SUFFICES ASSUME GpioType, [Gpio!Next]_gpioVars PROVE GpioType'
  OBVIOUS
<1> USE DEF GpioType, Gpio!Goto, Gpio!Unless, Gpio!Failed, Gpio!Fails, Gpio!RingsUsed, Gpio!pinVars,
   Gpio!workVars, Gpio!hrtVars, Gpio!nodeVars, Gpio!history
<1>1. CASE Gpio!Load
  BY <1>1 DEF GpioPcs, Gpio!Load
<1>2. CASE Gpio!InitInput
  <2>1. gpioPc' \in GpioPcs
    BY <1>2 DEF GpioPcs, Gpio!InitInput
  <2>2. gpioIrq' \in BOOLEAN /\ gpioWorkInit' \in BOOLEAN /\ pending' \in BOOLEAN
    BY <1>2 DEF Gpio!InitInput
  <2>3. gpioRunning' \in BOOLEAN /\ gpioOpen' \in BOOLEAN
    BY <1>2 DEF Gpio!InitInput
  <2> QED
    BY <1>2, <2>1, <2>2, <2>3 DEF Gpio!InitInput
<1>3. CASE Gpio!InitRings
  <2>1. gpioRings' \in [Gpio!Rings -> {"none", "live", "freed"}]
    BY <1>3 DEF Gpio!InitRings, Gpio!AllLive, Gpio!Rings
  <2> QED
    BY <1>3, <2>1 DEF GpioPcs, Gpio!InitRings
<1>4. CASE Gpio!InitOutput
  <2>1. gpioPc' \in GpioPcs
    BY <1>4 DEF GpioPcs, Gpio!InitOutput
  <2>2. gpioIrq' \in BOOLEAN /\ gpioWorkInit' \in BOOLEAN /\ pending' \in BOOLEAN
    BY <1>4 DEF Gpio!InitOutput
  <2>3. gpioRunning' \in BOOLEAN /\ gpioOpen' \in BOOLEAN
    BY <1>4 DEF Gpio!InitOutput
  <2> QED
    BY <1>4, <2>1, <2>2, <2>3 DEF Gpio!InitOutput
<1>5. CASE Gpio!RegisterNode
  <2>1. gpioPc' \in GpioPcs
    BY <1>5 DEF GpioPcs, Gpio!RegisterNode
  <2>2. gpioIrq' \in BOOLEAN /\ gpioWorkInit' \in BOOLEAN /\ pending' \in BOOLEAN
    BY <1>5 DEF Gpio!RegisterNode
  <2>3. gpioRunning' \in BOOLEAN /\ gpioOpen' \in BOOLEAN
    BY <1>5 DEF Gpio!RegisterNode
  <2> QED
    BY <1>5, <2>1, <2>2, <2>3 DEF Gpio!RegisterNode
<1>6. CASE Gpio!ExitInput
  BY <1>6 DEF GpioPcs, Gpio!ExitInput
<1>7. CASE Gpio!ExitOutput
  BY <1>7 DEF GpioPcs, Gpio!ExitOutput
<1>8. CASE Gpio!ExitCancel
  BY <1>8 DEF GpioPcs, Gpio!ExitCancel
<1>9. CASE Gpio!ExitFreeTimer
  BY <1>9 DEF GpioPcs, Gpio!ExitFreeTimer
<1>10. CASE Gpio!ExitRelease
  BY <1>10 DEF GpioPcs, Gpio!ExitRelease
<1>11. CASE Gpio!Unregister
  BY <1>11 DEF GpioPcs, Gpio!Unregister
<1>12. CASE Gpio!Interrupt
  BY <1>12 DEF Gpio!Interrupt
<1>13. CASE Gpio!WorkBegin
  BY <1>13 DEF Gpio!WorkBegin
<1>14. CASE Gpio!WorkEnd
  <2>1. gpioPc' \in GpioPcs
    BY <1>14 DEF Gpio!WorkEnd
  <2>2. gpioIrq' \in BOOLEAN /\ gpioWorkInit' \in BOOLEAN /\ pending' \in BOOLEAN
    BY <1>14 DEF Gpio!WorkEnd
  <2>3. gpioRunning' \in BOOLEAN /\ gpioOpen' \in BOOLEAN
    BY <1>14 DEF Gpio!WorkEnd
  <2> QED
    BY <1>14, <2>1, <2>2, <2>3 DEF Gpio!WorkEnd
<1>15. CASE Gpio!TimerFires
  BY <1>15 DEF Gpio!TimerFires
<1>16. CASE Gpio!TimerRestarts
  BY <1>16 DEF Gpio!TimerRestarts
<1>17. CASE Gpio!Open
  BY <1>17 DEF Gpio!Open
<1>18. CASE Gpio!Close
  <2>1. gpioPc' \in GpioPcs
    BY <1>18 DEF Gpio!Close
  <2>2. gpioIrq' \in BOOLEAN /\ gpioWorkInit' \in BOOLEAN /\ pending' \in BOOLEAN
    BY <1>18 DEF Gpio!Close
  <2>3. gpioRunning' \in BOOLEAN /\ gpioOpen' \in BOOLEAN
    BY <1>18 DEF Gpio!Close
  <2> QED
    BY <1>18, <2>1, <2>2, <2>3 DEF Gpio!Close
<1>19. CASE Gpio!UseRings
  BY <1>19 DEF Gpio!UseRings
<1>20. CASE Gpio!UseTimer
  BY <1>20 DEF Gpio!UseTimer
<1>21. CASE UNCHANGED gpioVars
  BY <1>21 DEF gpioVars
<1> QED
  BY <1>1, <1>2, <1>3, <1>4, <1>5, <1>6, <1>7, <1>8, <1>9, <1>10, <1>11, <1>12, <1>13, <1>14,
     <1>15, <1>16, <1>17, <1>18, <1>19, <1>20, <1>21 DEF Gpio!Next

LEMMA GpioPlacedNext == GpioPlaced /\ GpioType' /\ [Gpio!Next]_gpioVars => GpioPlaced'
<1> SUFFICES ASSUME GpioPlaced /\ GpioType', [Gpio!Next]_gpioVars PROVE GpioPlaced'
  OBVIOUS
<1> USE DEF GpioPlaced, GpioType, Gpio!Goto, Gpio!Unless, Gpio!Failed, Gpio!Fails, Gpio!RingsUsed,
   Gpio!pinVars, Gpio!workVars, Gpio!hrtVars, Gpio!nodeVars, Gpio!history
<1>1. CASE Gpio!Load
  BY <1>1 DEF Gpio!Load
<1>2. CASE Gpio!InitInput
  BY <1>2 DEF Gpio!InitInput
<1>3. CASE Gpio!InitRings
  BY <1>3 DEF Gpio!InitRings
<1>4. CASE Gpio!InitOutput
  BY <1>4 DEF Gpio!InitOutput
<1>5. CASE Gpio!RegisterNode
  BY <1>5 DEF Gpio!RegisterNode
<1>6. CASE Gpio!ExitInput
  BY <1>6 DEF Gpio!ExitInput
<1>7. CASE Gpio!ExitOutput
  BY <1>7 DEF Gpio!ExitOutput
<1>8. CASE Gpio!ExitCancel
  BY <1>8 DEF Gpio!ExitCancel
<1>9. CASE Gpio!ExitFreeTimer
  BY <1>9 DEF Gpio!ExitFreeTimer
<1>10. CASE Gpio!ExitRelease
  BY <1>10 DEF Gpio!ExitRelease
<1>11. CASE Gpio!Unregister
  BY <1>11 DEF Gpio!Unregister
<1>12. CASE Gpio!Interrupt
  BY <1>12 DEF Gpio!Interrupt
<1>13. CASE Gpio!WorkBegin
  BY <1>13 DEF Gpio!WorkBegin
<1>14. CASE Gpio!WorkEnd
  BY <1>14 DEF Gpio!WorkEnd
<1>15. CASE Gpio!TimerFires
  BY <1>15 DEF Gpio!TimerFires
<1>16. CASE Gpio!TimerRestarts
  BY <1>16 DEF Gpio!TimerRestarts
<1>17. CASE Gpio!Open
  BY <1>17 DEF Gpio!Open
<1>18. CASE Gpio!Close
  BY <1>18 DEF Gpio!Close
<1>19. CASE Gpio!UseRings
  BY <1>19 DEF Gpio!UseRings
<1>20. CASE Gpio!UseTimer
  BY <1>20 DEF Gpio!UseTimer
<1>21. CASE UNCHANGED gpioVars
  BY <1>21 DEF gpioVars
<1> QED
  BY <1>1, <1>2, <1>3, <1>4, <1>5, <1>6, <1>7, <1>8, <1>9, <1>10, <1>11, <1>12, <1>13, <1>14,
     <1>15, <1>16, <1>17, <1>18, <1>19, <1>20, <1>21 DEF Gpio!Next

LEMMA GpioWholeNext == GpioInv /\ GpioType' /\ [Gpio!Next]_gpioVars => GpioWhole'
<1> SUFFICES ASSUME GpioInv /\ GpioType', [Gpio!Next]_gpioVars PROVE GpioWhole'
  OBVIOUS
<1> USE DEF GpioInv, GpioPlaced, GpioType, GpioWhole, RingsThere, Gpio!Goto, Gpio!Unless,
   Gpio!Failed, Gpio!Fails, Gpio!RingsUsed, Gpio!pinVars, Gpio!workVars, Gpio!hrtVars, Gpio!nodeVars,
   Gpio!history
<1>1. CASE Gpio!Load
  BY <1>1 DEF Gpio!Load
<1>2. CASE Gpio!InitInput
  BY <1>2 DEF Gpio!InitInput
<1>3. CASE Gpio!InitRings
  BY <1>3 DEF Gpio!InitRings
<1>4. CASE Gpio!InitOutput
  BY <1>4 DEF Gpio!InitOutput
<1>5. CASE Gpio!RegisterNode
  BY <1>5 DEF Gpio!RegisterNode
<1>6. CASE Gpio!ExitInput
  BY <1>6 DEF Gpio!ExitInput
<1>7. CASE Gpio!ExitOutput
  BY <1>7 DEF Gpio!ExitOutput
<1>8. CASE Gpio!ExitCancel
  BY <1>8 DEF Gpio!ExitCancel
<1>9. CASE Gpio!ExitFreeTimer
  BY <1>9 DEF Gpio!ExitFreeTimer
<1>10. CASE Gpio!ExitRelease
  BY <1>10 DEF Gpio!ExitRelease
<1>11. CASE Gpio!Unregister
  BY <1>11 DEF Gpio!Unregister
<1>12. CASE Gpio!Interrupt
  BY <1>12 DEF Gpio!Interrupt
<1>13. CASE Gpio!WorkBegin
  BY <1>13 DEF Gpio!WorkBegin
<1>14. CASE Gpio!WorkEnd
  BY <1>14 DEF Gpio!WorkEnd
<1>15. CASE Gpio!TimerFires
  BY <1>15 DEF Gpio!TimerFires
<1>16. CASE Gpio!TimerRestarts
  BY <1>16 DEF Gpio!TimerRestarts
<1>17. CASE Gpio!Open
  BY <1>17 DEF Gpio!Open
<1>18. CASE Gpio!Close
  BY <1>18 DEF Gpio!Close
<1>19. CASE Gpio!UseRings
  BY <1>19 DEF Gpio!UseRings
<1>20. CASE Gpio!UseTimer
  BY <1>20 DEF Gpio!UseTimer
<1>21. CASE UNCHANGED gpioVars
  BY <1>21 DEF gpioVars
<1> QED
  BY <1>1, <1>2, <1>3, <1>4, <1>5, <1>6, <1>7, <1>8, <1>9, <1>10, <1>11, <1>12, <1>13, <1>14,
     <1>15, <1>16, <1>17, <1>18, <1>19, <1>20, <1>21 DEF Gpio!Next

LEMMA GpioStaleNext == GpioInv /\ [Gpio!Next]_gpioVars => Gpio!NoStaleUse'
<1> SUFFICES ASSUME GpioInv, [Gpio!Next]_gpioVars PROVE Gpio!NoStaleUse'
  OBVIOUS
<1> USE DEF GpioInv, GpioPlaced, GpioType, GpioWhole, RingsThere, Gpio!NoStaleUse, Gpio!Goto,
   Gpio!Unless, Gpio!Failed, Gpio!Fails, Gpio!RingsUsed, Gpio!pinVars, Gpio!workVars, Gpio!hrtVars,
   Gpio!nodeVars, Gpio!history
<1>1. CASE Gpio!Load
  BY <1>1 DEF Gpio!Load
<1>2. CASE Gpio!InitInput
  BY <1>2 DEF Gpio!InitInput
<1>3. CASE Gpio!InitRings
  BY <1>3 DEF Gpio!InitRings
<1>4. CASE Gpio!InitOutput
  BY <1>4 DEF Gpio!InitOutput
<1>5. CASE Gpio!RegisterNode
  BY <1>5 DEF Gpio!RegisterNode
<1>6. CASE Gpio!ExitInput
  BY <1>6 DEF Gpio!ExitInput
<1>7. CASE Gpio!ExitOutput
  BY <1>7 DEF Gpio!ExitOutput
<1>8. CASE Gpio!ExitCancel
  BY <1>8 DEF Gpio!ExitCancel
<1>9. CASE Gpio!ExitFreeTimer
  BY <1>9 DEF Gpio!ExitFreeTimer
<1>10. CASE Gpio!ExitRelease
  BY <1>10 DEF Gpio!ExitRelease
<1>11. CASE Gpio!Unregister
  BY <1>11 DEF Gpio!Unregister
<1>12. CASE Gpio!Interrupt
  BY <1>12 DEF Gpio!Interrupt
<1>13. CASE Gpio!WorkBegin
  BY <1>13 DEF Gpio!WorkBegin
<1>14. CASE Gpio!WorkEnd
  BY <1>14 DEF Gpio!WorkEnd
<1>15. CASE Gpio!TimerFires
  BY <1>15 DEF Gpio!TimerFires
<1>16. CASE Gpio!TimerRestarts
  BY <1>16 DEF Gpio!TimerRestarts
<1>17. CASE Gpio!Open
  BY <1>17 DEF Gpio!Open
<1>18. CASE Gpio!Close
  BY <1>18 DEF Gpio!Close
<1>19. CASE Gpio!UseRings
  BY <1>19 DEF Gpio!UseRings
<1>20. CASE Gpio!UseTimer
  BY <1>20 DEF Gpio!UseTimer
<1>21. CASE UNCHANGED gpioVars
  BY <1>21 DEF gpioVars
<1> QED
  BY <1>1, <1>2, <1>3, <1>4, <1>5, <1>6, <1>7, <1>8, <1>9, <1>10, <1>11, <1>12, <1>13, <1>14,
     <1>15, <1>16, <1>17, <1>18, <1>19, <1>20, <1>21 DEF Gpio!Next

LEMMA GpioNext == GpioInv /\ [Gpio!Next]_gpioVars => GpioInv'
<1> SUFFICES ASSUME GpioInv, [Gpio!Next]_gpioVars PROVE GpioInv'
  OBVIOUS
<1>1. GpioType /\ GpioType'
  BY GpioTypeNext DEF GpioInv, GpioPlaced
<1>2. GpioPlaced'
  BY <1>1, GpioPlacedNext DEF GpioInv
<1>3. GpioWhole'
  BY <1>1, GpioWholeNext
<1>4. Gpio!NoStaleUse'
  BY GpioStaleNext
<1> QED
  BY <1>2, <1>3, <1>4 DEF GpioInv

-----------------------------------------------------------------------------
(* The oled module over regmap *)

RegmapType ==
  /\ regmapPc \in {"out", "pins", "alloc", "regmap", "panel", "loaded", "remove"}
  /\ regmapDriver \in BOOLEAN /\ regmapBound \in BOOLEAN /\ leaving \in BOOLEAN
  /\ regmapPins \in BOOLEAN /\ regmapOpen \in BOOLEAN
  /\ regmapOled \in {"none", "live", "freed"} /\ regmapMap \in {"none", "live", "freed"}

\* A driver that has the device has what probe allocated, unless a failed probe was
\* taken for success.
RegmapInv ==
  /\ RegmapType
  /\ leaving => regmapPc \in {"out", "remove"} /\ ~regmapDriver
  /\ regmapPc = "out" => ~regmapDriver /\ ~regmapBound /\ ~regmapPins
  /\ regmapPc \in {"regmap", "panel"} => regmapOled = "live"
  /\ regmapPc = "panel" => regmapMap = "live"
  /\ regmapBound => regmapPc = "loaded"
     /\ ((regmapOled = "live" /\ regmapMap = "live") \/ "probe" \in regmapCauses)
  /\ regmapOled = "live" => regmapPc \in {"regmap", "panel"} \/ regmapBound
     \/ "panel" \in regmapCauses
  /\ Regmap!NoStaleUse

LEMMA RegmapInit == Regmap!Init => RegmapInv
<1> SUFFICES ASSUME Regmap!Init PROVE RegmapInv
  OBVIOUS
<1>1. RegmapType /\ ~leaving /\ ~regmapDriver /\ ~regmapBound /\ ~regmapPins
  BY DEF Regmap!Init, RegmapType
<1> QED
  BY <1>1 DEF Regmap!Init, RegmapInv, Regmap!NoStaleUse

LEMMA RegmapTypeNext == RegmapType /\ [Regmap!Next]_regmapVars => RegmapType'
<1> SUFFICES ASSUME RegmapType, [Regmap!Next]_regmapVars PROVE RegmapType'
  OBVIOUS
<1> USE DEF RegmapType, Regmap!Goto, Regmap!Unless, Regmap!Failed, Regmap!RemoveFree, Regmap!history
<1>1. CASE Regmap!AddDriver
  BY <1>1 DEF Regmap!AddDriver
<1>2. CASE Regmap!Bind
  BY <1>2 DEF Regmap!Bind
<1>3. CASE Regmap!ProbePins
  BY <1>3 DEF Regmap!ProbePins
<1>4. CASE Regmap!ProbeAlloc
  BY <1>4 DEF Regmap!ProbeAlloc
<1>5. CASE Regmap!ProbeRegmap
  BY <1>5 DEF Regmap!ProbeRegmap
<1>6. CASE Regmap!ProbePanel
  BY <1>6 DEF Regmap!ProbePanel
<1>7. CASE Regmap!Unbind
  BY <1>7 DEF Regmap!Unbind
<1>8. CASE Regmap!Unload
  BY <1>8 DEF Regmap!Unload
<1>9. CASE Regmap!RemoveRegmap
  BY <1>9 DEF Regmap!RemoveRegmap
<1>10. CASE Regmap!Open
  BY <1>10 DEF Regmap!Open
<1>11. CASE Regmap!Close
  BY <1>11 DEF Regmap!Close
<1>12. CASE Regmap!Use
  BY <1>12 DEF Regmap!Use
<1>13. CASE UNCHANGED regmapVars
  BY <1>13 DEF regmapVars
<1> QED
  BY <1>1, <1>2, <1>3, <1>4, <1>5, <1>6, <1>7, <1>8, <1>9, <1>10, <1>11, <1>12, <1>13
     DEF Regmap!Next

LEMMA RegmapInvNext == RegmapInv /\ RegmapType' /\ [Regmap!Next]_regmapVars => RegmapInv'
<1> SUFFICES ASSUME RegmapInv /\ RegmapType', [Regmap!Next]_regmapVars PROVE RegmapInv'
  OBVIOUS
<1> USE DEF RegmapInv, RegmapType, Regmap!NoStaleUse, Regmap!Goto, Regmap!Unless, Regmap!Failed,
   Regmap!RemoveFree, Regmap!history
<1>1. CASE Regmap!AddDriver
  BY <1>1 DEF Regmap!AddDriver
<1>2. CASE Regmap!Bind
  BY <1>2 DEF Regmap!Bind
<1>3. CASE Regmap!ProbePins
  BY <1>3 DEF Regmap!ProbePins
<1>4. CASE Regmap!ProbeAlloc
  BY <1>4 DEF Regmap!ProbeAlloc
<1>5. CASE Regmap!ProbeRegmap
  BY <1>5 DEF Regmap!ProbeRegmap
<1>6. CASE Regmap!ProbePanel
  BY <1>6 DEF Regmap!ProbePanel
<1>7. CASE Regmap!Unbind
  BY <1>7 DEF Regmap!Unbind
<1>8. CASE Regmap!Unload
  BY <1>8 DEF Regmap!Unload
<1>9. CASE Regmap!RemoveRegmap
  BY <1>9 DEF Regmap!RemoveRegmap
<1>10. CASE Regmap!Open
  BY <1>10 DEF Regmap!Open
<1>11. CASE Regmap!Close
  BY <1>11 DEF Regmap!Close
<1>12. CASE Regmap!Use
  BY <1>12 DEF Regmap!Use
<1>13. CASE UNCHANGED regmapVars
  BY <1>13 DEF regmapVars
<1> QED
  BY <1>1, <1>2, <1>3, <1>4, <1>5, <1>6, <1>7, <1>8, <1>9, <1>10, <1>11, <1>12, <1>13
     DEF Regmap!Next

LEMMA RegmapNext == RegmapInv /\ [Regmap!Next]_regmapVars => RegmapInv'
  BY RegmapTypeNext, RegmapInvNext DEF RegmapInv

LEMMA RegmapReleases == RegmapInv => Regmap!UnloadReleases
  BY DEF RegmapInv, Regmap!UnloadReleases

-----------------------------------------------------------------------------
(* The dma module *)

DmaPcs == {"out", "probe", "proc", "loaded", "reprobe", "unregister"}

DmaLifeType ==
  /\ dmaPc \in DmaPcs
  /\ dmaDriver \in BOOLEAN /\ dmaLeaving \in BOOLEAN
  /\ dmaBound \in BOOLEAN /\ dmaMemory \in BOOLEAN /\ channel \in BOOLEAN
  /\ misc \in BOOLEAN /\ sized \in BOOLEAN /\ proc \in BOOLEAN
  /\ dmaOpen \in {"no", "bound", "unbound"} /\ moving \in {"no", "bound", "unbound"}

\* What goes with the binding is there while the driver has the device, and so has a
\* program that opened it since; an open device keeps the module.
DmaLifeInv ==
  /\ DmaLifeType
  /\ dmaBound => dmaPc \in {"proc", "loaded", "unregister"}
  /\ ~dmaBound => ~dmaMemory /\ ~channel /\ ~misc
  /\ dmaPc = "out" => ~dmaDriver
  /\ proc => dmaPc \in {"loaded", "reprobe"}
  /\ dmaBound => (misc \/ "misc" \in dmaCauses) /\ (sized \/ "size" \in dmaCauses)
  /\ dmaOpen = "bound" => dmaBound
  /\ dmaOpen = "unbound" => "unbound" \in dmaCauses
  /\ moving # "no" => moving = dmaOpen
  /\ dmaPc = "unregister" => dmaLeaving /\ dmaOpen = "no"
  /\ DmaDriver!NoStaleUse

LEMMA DmaLifeInit == DmaDriver!Init => DmaLifeInv
<1> SUFFICES ASSUME DmaDriver!Init PROVE DmaLifeInv
  OBVIOUS
<1>1. DmaLifeType /\ ~dmaDriver /\ ~dmaBound /\ ~dmaMemory /\ ~channel /\ ~misc /\ ~proc
  BY DEF DmaDriver!Init, DmaLifeType, DmaPcs
<1> QED
  BY <1>1 DEF DmaDriver!Init, DmaLifeInv, DmaDriver!NoStaleUse

LEMMA DmaLifeTypeNext == DmaLifeType /\ [DmaDriver!Next]_dmaDriverVars => DmaLifeType'
<1> SUFFICES ASSUME DmaLifeType, [DmaDriver!Next]_dmaDriverVars PROVE DmaLifeType'
  OBVIOUS
<1> USE DEF DmaLifeType, DmaDriver!Goto, DmaDriver!Unless, DmaDriver!Gone, DmaDriver!Remove,
   DmaDriver!history, DmaDriver!probeVars, DmaDriver!userVars
<1>1. CASE DmaDriver!Register
  <2>1. dmaPc' \in DmaPcs
    BY <1>1 DEF DmaPcs, DmaDriver!Register
  <2>2. dmaDriver' \in BOOLEAN /\ dmaLeaving' \in BOOLEAN /\ proc' \in BOOLEAN
    BY <1>1 DEF DmaDriver!Register
  <2>3. dmaBound' \in BOOLEAN /\ dmaMemory' \in BOOLEAN /\ channel' \in BOOLEAN
    BY <1>1 DEF DmaDriver!Register
  <2>4. misc' \in BOOLEAN /\ sized' \in BOOLEAN
    BY <1>1 DEF DmaDriver!Register
  <2> QED
    BY <1>1, <2>1, <2>2, <2>3, <2>4 DEF DmaDriver!Register
<1>2. CASE DmaDriver!Probe
  <2>1. dmaPc' \in DmaPcs
    BY <1>2 DEF DmaPcs, DmaDriver!Probe
  <2>2. dmaDriver' \in BOOLEAN /\ dmaLeaving' \in BOOLEAN /\ proc' \in BOOLEAN
    BY <1>2 DEF DmaDriver!Probe
  <2>3. dmaBound' \in BOOLEAN /\ dmaMemory' \in BOOLEAN /\ channel' \in BOOLEAN
    BY <1>2 DEF DmaDriver!Probe
  <2>4. misc' \in BOOLEAN /\ sized' \in BOOLEAN
    BY <1>2 DEF DmaDriver!Probe
  <2> QED
    BY <1>2, <2>1, <2>2, <2>3, <2>4 DEF DmaDriver!Probe
<1>3. CASE DmaDriver!CreateProc
  BY <1>3 DEF DmaPcs, DmaDriver!CreateProc
<1>4. CASE DmaDriver!Bind
  BY <1>4 DEF DmaPcs, DmaDriver!Bind
<1>5. CASE DmaDriver!Unbind
  BY <1>5 DEF DmaPcs, DmaDriver!Unbind
<1>6. CASE DmaDriver!RemoveProc
  BY <1>6 DEF DmaPcs, DmaDriver!RemoveProc
<1>7. CASE DmaDriver!Unregister
  BY <1>7 DEF DmaPcs, DmaDriver!Unregister
<1>8. CASE DmaDriver!Open
  BY <1>8 DEF DmaDriver!Open
<1>9. CASE DmaDriver!Close
  BY <1>9 DEF DmaDriver!Close
<1>10. CASE DmaDriver!Write
  BY <1>10 DEF DmaDriver!Write
<1>11. CASE DmaDriver!Arrive
  BY <1>11 DEF DmaDriver!Arrive
<1>12. CASE UNCHANGED dmaDriverVars
  <2>1. /\ dmaPc' \in DmaPcs
        /\ dmaDriver' \in BOOLEAN /\ dmaLeaving' \in BOOLEAN /\ proc' \in BOOLEAN
    BY <1>12 DEF dmaDriverVars
  <2> QED
    BY <1>12, <2>1 DEF dmaDriverVars
<1> QED
  BY <1>1, <1>2, <1>3, <1>4, <1>5, <1>6, <1>7, <1>8, <1>9, <1>10, <1>11, <1>12 DEF DmaDriver!Next

LEMMA DmaLifeInvNext == DmaLifeInv /\ DmaLifeType' /\ [DmaDriver!Next]_dmaDriverVars => DmaLifeInv'
<1> SUFFICES ASSUME DmaLifeInv /\ DmaLifeType', [DmaDriver!Next]_dmaDriverVars PROVE DmaLifeInv'
  OBVIOUS
<1> USE DEF DmaLifeInv, DmaLifeType, DmaDriver!NoStaleUse, DmaDriver!Goto, DmaDriver!Unless,
   DmaDriver!Gone, DmaDriver!Remove, DmaDriver!history, DmaDriver!probeVars, DmaDriver!userVars
<1>1. CASE DmaDriver!Register
  BY <1>1 DEF DmaDriver!Register
<1>2. CASE DmaDriver!Probe
  <2>1. CASE /\ dmaBound' = TRUE /\ dmaMemory' = TRUE /\ channel' = TRUE
             /\ dmaCauses' = dmaCauses \union DmaDriver!Unless(misc',
                "misc") \union DmaDriver!Unless(sized', "size")
    BY <1>2, <2>1 DEF DmaDriver!Probe
  <2>2. CASE UNCHANGED <<DmaDriver!probeVars, dmaCauses>>
    BY <1>2, <2>2 DEF DmaDriver!Probe
  <2> QED
    BY <1>2, <2>1, <2>2 DEF DmaDriver!Probe
<1>3. CASE DmaDriver!CreateProc
  BY <1>3 DEF DmaDriver!CreateProc
<1>4. CASE DmaDriver!Bind
  BY <1>4 DEF DmaDriver!Bind
<1>5. CASE DmaDriver!Unbind
  BY <1>5 DEF DmaDriver!Unbind
<1>6. CASE DmaDriver!RemoveProc
  BY <1>6 DEF DmaDriver!RemoveProc
<1>7. CASE DmaDriver!Unregister
  BY <1>7 DEF DmaDriver!Unregister
<1>8. CASE DmaDriver!Open
  BY <1>8 DEF DmaDriver!Open
<1>9. CASE DmaDriver!Close
  BY <1>9 DEF DmaDriver!Close
<1>10. CASE DmaDriver!Write
  BY <1>10 DEF DmaDriver!Write
<1>11. CASE DmaDriver!Arrive
  BY <1>11 DEF DmaDriver!Arrive
<1>12. CASE UNCHANGED dmaDriverVars
  BY <1>12 DEF dmaDriverVars
<1> QED
  BY <1>1, <1>2, <1>3, <1>4, <1>5, <1>6, <1>7, <1>8, <1>9, <1>10, <1>11, <1>12 DEF DmaDriver!Next

LEMMA DmaLifeNext == DmaLifeInv /\ [DmaDriver!Next]_dmaDriverVars => DmaLifeInv'
  BY DmaLifeTypeNext, DmaLifeInvNext DEF DmaLifeInv

LEMMA DmaLifeReleases == DmaLifeInv => DmaDriver!UnloadReleases
  BY DEF DmaLifeInv, DmaLifeType, DmaDriver!UnloadReleases

-----------------------------------------------------------------------------
(* The timer module *)

\* A timer may be armed or run.
TimerStarted(j) ==
  \/ timerPc = "start" /\ j < timerAt
  \/ timerPc \in {"node", "loaded"}
  \/ timerPc = "cancel" /\ j >= timerAt
  \/ timerPc = "free" /\ j > timerAt

TimerType ==
  /\ timerPc \in {"out", "start", "node", "loaded", "cancel", "free", "gone"}
  /\ timerAt \in 1..4
  /\ armed \in SUBSET Timer!Timers /\ timerRunning \in SUBSET Timer!Timers
  /\ timerMemory \in [Timer!Timers -> {"none", "live", "freed"}]
  /\ timerStale \in BOOLEAN /\ timerFailed \in {"none", "memory", "node"}

\* Timers are started, cancelled and freed in one order: what is armed or runs lies
\* between, and its memory is live.
TimerInv ==
  /\ TimerType
  /\ timerFailed # "none" <=> timerPc = "gone"
  /\ Timer!NoStaleUse
  /\ Timer!UnloadReleases
  /\ timerFailed = "none" => \A j \in 1..4 : Timer!Order[j] \in armed \/ Timer!Order[j] \in timerRunning
     => TimerStarted(j)
  /\ timerFailed = "none" => \A j \in 1..4 : TimerStarted(j) => timerMemory[Timer!Order[j]] = "live"
  /\ timerPc \in {"cancel", "free"} =>
       \A j \in 1..4 : j < timerAt /\ Timer!Order[j] \in Timer!Hrt
         => timerMemory[Timer!Order[j]] # "live"
  /\ timerPc \in {"start", "node"} =>
       \A j \in 1..4 : TimerStarted(j) /\ Timer!Order[j] \in Timer!Periodic
         => Timer!Order[j] \in armed \union timerRunning

LEMMA TimerOrder ==
  /\ Len(Timer!Order) = 4
  /\ \A j \in 1..4 : Timer!Order[j] \in Timer!Timers
  /\ \A j, k \in 1..4 : Timer!Order[j] = Timer!Order[k] => j = k
  /\ \A t \in Timer!Timers : \E j \in 1..4 : t = Timer!Order[j]
  /\ Timer!Order[3] \notin Timer!Hrt /\ Timer!Order[4] \notin Timer!Hrt
  /\ Timer!Hrt \subseteq Timer!Timers /\ Timer!Periodic \subseteq Timer!Timers
<1>1. Len(Timer!Order) = 4 /\ DOMAIN Timer!Order = 1..4
  BY DEF Timer!Order
<1>2. /\ Timer!Order[1] = "hrt_one_shot" /\ Timer!Order[2] = "hrt_periodic"
      /\ Timer!Order[3] = "one_shot" /\ Timer!Order[4] = "periodic"
  BY DEF Timer!Order
<1>3. \A j \in 1..4 : j = 1 \/ j = 2 \/ j = 3 \/ j = 4
  OBVIOUS
<1>4. \A j \in 1..4 : Timer!Order[j] \in Timer!Timers
  BY <1>1 DEF Timer!Timers
<1>5. \A t \in Timer!Timers : \E j \in 1..4 : t = Timer!Order[j]
  BY <1>1 DEF Timer!Timers
<1>6. \A j, k \in 1..4 : Timer!Order[j] = Timer!Order[k] => j = k
  BY <1>2, <1>3
<1>7. Timer!Hrt \subseteq Timer!Timers /\ Timer!Periodic \subseteq Timer!Timers
  BY <1>2, <1>4 DEF Timer!Hrt, Timer!Periodic
<1> QED
  BY <1>1, <1>2, <1>4, <1>5, <1>6, <1>7 DEF Timer!Hrt

LEMMA TimerInit == Timer!Init => TimerInv
<1> SUFFICES ASSUME Timer!Init PROVE TimerInv
  OBVIOUS
<1>1. timerMemory \in [Timer!Timers -> {"none", "live", "freed"}]
      /\ \A t \in Timer!Timers : timerMemory[t] # "live"
  BY DEF Timer!Init
<1>2. timerStale \in BOOLEAN /\ ~timerStale /\ timerFailed = "none"
  BY DEF Timer!Init
<1> QED
  BY <1>1, <1>2, TimerOrder DEF Timer!Init, TimerInv, TimerType, Timer!NoStaleUse,
     Timer!UnloadReleases, TimerStarted

LEMMA TimerNext == TimerInv /\ [Timer!Next]_timerVars => TimerInv'
<1> SUFFICES ASSUME TimerInv, [Timer!Next]_timerVars PROVE TimerInv'
  OBVIOUS
<1> USE TimerOrder DEF TimerInv, TimerType, Timer!NoStaleUse, Timer!UnloadReleases, TimerStarted
<1>1. CASE Timer!Load
  <2>1. timerMemory' \in [Timer!Timers -> {"none", "live", "freed"}]
    BY <1>1 DEF Timer!Load
  <2> QED
    BY <1>1, <2>1 DEF Timer!Load
<1>2. CASE Timer!Start
  <2>1. CASE Timer!Set(Timer!Order[timerAt], "live")
             /\ armed' = armed \union {Timer!Order[timerAt]}
             /\ UNCHANGED <<timerStale, timerFailed, timerRunning>>
             /\ IF timerAt = Len(Timer!Order) THEN timerPc' = "node" /\ UNCHANGED timerAt
                ELSE timerAt' = timerAt + 1 /\ UNCHANGED timerPc
    <3>1. timerMemory' \in [Timer!Timers -> {"none", "live", "freed"}]
          /\ timerMemory'[Timer!Order[timerAt]] = "live"
          /\ \A j \in 1..4 : j # timerAt
             => timerMemory'[Timer!Order[j]] = timerMemory[Timer!Order[j]]
      BY <2>1 DEF Timer!Set
    <3>2. timerFailed = "none" /\ timerPc = "start"
      BY <1>2 DEF Timer!Start
    <3> QED
      BY <2>1, <3>1, <3>2
  <2>2. CASE timerStale' = TRUE /\ timerFailed' = "memory" /\ timerPc' = "gone"
             /\ UNCHANGED <<timerAt, timerMemory, armed, timerRunning>>
    BY <2>2
  <2> QED
    BY <1>2, <2>1, <2>2 DEF Timer!Start
<1>3. CASE Timer!RegisterNode
  <2>1. timerMemory' \in [Timer!Timers -> {"none", "live", "freed"}]
    BY <1>3 DEF Timer!RegisterNode
  <2>2. \A j \in 1..4 : timerMemory[Timer!Order[j]] = "live"
    BY <1>3 DEF Timer!RegisterNode
  <2>3. CASE timerPc' = "loaded" /\ UNCHANGED <<timerMemory, timerFailed>>
    BY <1>3, <2>1, <2>2, <2>3 DEF Timer!RegisterNode
  <2>4. CASE timerPc' = "gone" /\ timerFailed' = "node"
    BY <1>3, <2>1, <2>4 DEF Timer!RegisterNode
  <2> QED
    BY <1>3, <2>3, <2>4 DEF Timer!RegisterNode
<1>4. CASE Timer!ExitBegin
  BY <1>4 DEF Timer!ExitBegin
<1>5. CASE Timer!Cancel
  BY <1>5 DEF Timer!Cancel, Timer!Uses
<1>6. CASE Timer!Free
  <2>1. timerMemory' \in [Timer!Timers -> {"none", "live", "freed"}]
    BY <1>6 DEF Timer!Free
  <2>2. CASE timerAt = 4
    <3>1. timerPc' = "out" /\ timerAt' = timerAt /\ armed' = armed /\ timerRunning' = timerRunning
      BY <1>6, <2>2 DEF Timer!Free
    <3>2. \A j \in 1..4 : timerMemory'[Timer!Order[j]] # "live"
      BY <1>6, <2>2 DEF Timer!Free
    <3>3. \A j \in 1..4 : Timer!Order[j] \notin armed /\ Timer!Order[j] \notin timerRunning
      BY <1>6, <2>2 DEF Timer!Free
    <3> QED
      BY <1>6, <2>1, <3>1, <3>2, <3>3 DEF Timer!Free
  <2>3. CASE timerAt # 4
    <3>1. timerPc' = "cancel" /\ timerAt' = timerAt + 1 /\ armed' = armed
          /\ timerRunning' = timerRunning
      BY <1>6, <2>3 DEF Timer!Free
    <3>2. \A j \in 1..4 : j # timerAt => timerMemory'[Timer!Order[j]] = timerMemory[Timer!Order[j]]
      BY <1>6, <2>3 DEF Timer!Free
    <3>3. Timer!Order[timerAt] \in Timer!Hrt => timerMemory'[Timer!Order[timerAt]] # "live"
      BY <1>6, <2>3 DEF Timer!Free
    <3> QED
      BY <1>6, <2>1, <3>1, <3>2, <3>3 DEF Timer!Free
  <2> QED
    BY <2>2, <2>3
<1>7. ASSUME NEW t \in Timer!Timers, Timer!Expire(t) PROVE TimerInv'
  BY <1>7 DEF Timer!Expire, Timer!Uses
<1>8. ASSUME NEW t \in Timer!Timers, Timer!Return(t) PROVE TimerInv'
  BY <1>8 DEF Timer!Return, Timer!Uses
<1>9. CASE UNCHANGED timerVars
  BY <1>9 DEF timerVars
<1> QED
  BY <1>1, <1>2, <1>3, <1>4, <1>5, <1>6, <1>7, <1>8, <1>9 DEF Timer!Next

-----------------------------------------------------------------------------
(* The memory module *)

MemoryType ==
  /\ memoryPc \in {"out", "alloc", "err", "node", "loaded", "exit", "gone"}
  /\ memoryAt \in DOMAIN Memory!Order
  /\ memoryHeld \subseteq Memory!Blocks
  /\ memoryLock \in Procs \union {Nobody}
  /\ memoryFd \in [Procs -> BOOLEAN] /\ memoryView \in [Procs -> SUBSET Memory!Cells]
  /\ fill_offset \in [Procs -> Memory!Cells]

\* The lock is held as long as there is a file or a mapping; the mapped block is
\* the last that init allocates, and programs write inside of what they map.
MemoryHolding ==
  /\ \A p \in Procs : Memory!InUse(p) => memoryLock = p /\ memoryPc = "loaded"
  /\ memoryLock # Nobody => Memory!InUse(memoryLock)
  /\ memoryPc \in {"node", "loaded"} => "mmap" \in memoryHeld
  /\ ~stray

\* What init has allocated on its way, and after the step that failed
MemoryUndo ==
  /\ memoryPc \in {"alloc", "node", "loaded", "exit"} => memoryFailed = "none"
  /\ memoryPc = "alloc" /\ Memory!Order[memoryAt] = "krealloc" => "kmalloc" \in memoryHeld
  /\ memoryPc = "err" /\ memoryFailed = "krealloc" => "kmalloc" \in memoryHeld
  /\ memoryPc = "out" => memoryHeld = IF memoryFailed = "krealloc" THEN {"kmalloc"} ELSE {}

\* What a load that fails late keeps: the blocks before the one it is at, but for
\* those that are moved, not tested or given back at once.
MemoryKept ==
  /\ memoryPc \in {"alloc", "node", "gone"} =>
       \A j \in 1..10 : Memory!Order[j] \notin {"kmalloc", "pages", "temporary"}
         /\ (j < memoryAt \/ memoryPc = "node" \/ memoryFailed = "node") => Memory!Order[j] \in memoryHeld
  /\ memoryPc = "gone" => memoryFailed = "node" \/ (memoryFailed = "temporary" /\ memoryAt = 7)

MemoryInv == MemoryType /\ MemoryHolding /\ MemoryUndo /\ MemoryKept

LEMMA MemoryOrder ==
  /\ DOMAIN Memory!Order = 1..10
  /\ Len(Memory!Order) = 10 /\ Memory!Order[10] = "mmap" /\ Memory!Order[1] = "kmalloc"
     /\ Memory!Order[2] = "krealloc"
  /\ \A i \in 1..10 : Memory!Order[i] \in Memory!Blocks \union {"temporary"}
     /\ (Memory!Order[i] = "krealloc" => i = 2)
  /\ "kmalloc" \in Memory!Blocks /\ "krealloc" \in Memory!Blocks
  /\ Memory!Order[3] = "dma" /\ Memory!Order[4] = "user" /\ Memory!Order[5] = "user_hi"
  /\ Memory!Order[7] = "temporary" /\ \A i \in 1..10 : Memory!Order[i] = "temporary" => i = 7
  /\ Memory!Order[8] = "vmalloc" /\ Memory!Order[9] = "vzalloc"
  /\ Memory!Order[6] = "pages" /\ \A i \in 1..10 : Memory!Order[i] = "pages" => i = 6
  BY DEF Memory!Order, Memory!Blocks

LEMMA MemoryInit == ASSUME Memory!MemoryAssumption PROVE Memory!Init => MemoryInv
  <1> SUFFICES ASSUME Memory!Init PROVE MemoryInv
    OBVIOUS
  <1>1. MemoryType
    BY MemoryOrder DEF Memory!MemoryAssumption, Memory!Init, MemoryType, Memory!Cells
  <1>2. MemoryHolding /\ MemoryUndo /\ MemoryKept
    BY DEF Memory!Init, MemoryHolding, MemoryUndo, MemoryKept, Memory!InUse
  <1> QED
    BY <1>1, <1>2 DEF MemoryInv

\* A step of init or exit while no process has the file
LEMMA MemoryModuleStep ==
  ASSUME Memory!MemoryAssumption, MemoryInv, Memory!Load \/ Memory!Allocate \/ Memory!FreeMemory
         \/ Memory!RegisterNode \/ Memory!Exit
  PROVE  MemoryType' /\ MemoryHolding' /\ MemoryUndo'
  <1> USE MemoryOrder DEF MemoryInv, MemoryType, Memory!procVars
  <1>1. memoryLock' \in {memoryLock, Nobody} /\ UNCHANGED <<memoryFd, memoryView, fill_offset,
                                                            stray>>
    BY DEF Memory!Load, Memory!Allocate, Memory!FreeMemory, Memory!RegisterNode, Memory!Exit
  <1>2. \A p \in Procs : ~Memory!InUse(p) /\ ~Memory!InUse(p)'
    BY <1>1 DEF Memory!Load, Memory!Allocate, Memory!FreeMemory, Memory!RegisterNode,
       Memory!Exit, MemoryHolding, Memory!InUse
  <1>3. memoryLock = Nobody /\ memoryLock' = Nobody
    BY <1>1, <1>2 DEF MemoryHolding
  <1>4. ~stray'
    BY <1>1 DEF MemoryHolding
  <1>5. CASE Memory!Load
    BY <1>1, <1>2, <1>3, <1>4, <1>5 DEF Memory!Load, MemoryHolding, MemoryUndo
  <1>6. CASE Memory!Allocate
    <2>1. memoryPc = "alloc" /\ memoryFailed = "none" /\ memoryAt \in 1..10
          /\ memoryHeld \subseteq Memory!Blocks
      BY <1>6 DEF Memory!Allocate, MemoryUndo
    <2>2. CASE memoryHeld' = Memory!Allocated /\ UNCHANGED memoryFailed
               /\ IF memoryAt = Len(Memory!Order) THEN memoryPc' = "node" /\ UNCHANGED memoryAt
                  ELSE memoryAt' = memoryAt + 1 /\ UNCHANGED memoryPc
      <3>1. memoryHeld' \subseteq Memory!Blocks
        BY <2>1, <2>2 DEF Memory!Allocated
      <3>2. memoryAt = 10 => "mmap" \in memoryHeld'
        BY <2>1, <2>2 DEF Memory!Allocated
      <3>3. memoryAt = 1 => "kmalloc" \in memoryHeld'
        BY <2>1, <2>2 DEF Memory!Allocated
      <3>4. memoryAt' \in 1..10
        BY <2>1, <2>2
      <3> QED
        BY <1>1, <1>2, <1>3, <1>4, <2>1, <2>2, <3>1, <3>2, <3>3, <3>4 DEF MemoryHolding, MemoryUndo
    <2>3. CASE Memory!Order[memoryAt] = "pages" /\ memoryAt' = memoryAt + 1
               /\ UNCHANGED <<memoryPc, memoryHeld, memoryFailed>>
      BY <1>1, <1>2, <1>3, <1>4, <2>1, <2>3 DEF MemoryHolding, MemoryUndo
    <2>4. CASE memoryPc' \in {"gone", "err"} /\ memoryFailed' = Memory!Order[memoryAt]
               /\ UNCHANGED <<memoryAt, memoryHeld>>
      BY <1>1, <1>2, <1>3, <1>4, <2>1, <2>4 DEF MemoryHolding, MemoryUndo
    <2> QED
      BY <1>6, <2>2, <2>3, <2>4 DEF Memory!Allocate
  <1>7. CASE Memory!FreeMemory
    BY <1>1, <1>2, <1>3, <1>4, <1>7 DEF Memory!FreeMemory, Memory!Reachable, MemoryHolding,
       MemoryUndo
  <1>8. CASE Memory!RegisterNode
    BY <1>1, <1>2, <1>3, <1>4, <1>8 DEF Memory!RegisterNode, MemoryHolding, MemoryUndo
  <1>9. CASE Memory!Exit
    BY <1>1, <1>2, <1>3, <1>4, <1>9 DEF Memory!Exit, MemoryHolding, MemoryUndo
  <1> QED
    BY <1>5, <1>6, <1>7, <1>8, <1>9

\* No block is given back between the first allocation and the end of the load.
LEMMA MemoryKeptStep ==
  ASSUME MemoryInv, Memory!Load \/ Memory!Allocate \/ Memory!FreeMemory
         \/ Memory!RegisterNode \/ Memory!Exit
  PROVE  MemoryKept'
  <1> USE MemoryOrder DEF MemoryInv, MemoryType, MemoryKept, MemoryUndo
  <1>1. CASE Memory!Load \/ Memory!FreeMemory \/ Memory!Exit
    BY <1>1 DEF Memory!Load, Memory!FreeMemory, Memory!Exit
  <1>2. CASE Memory!Allocate
    <2>1. memoryPc = "alloc" /\ memoryFailed = "none"
      BY <1>2 DEF Memory!Allocate
    <2>2. ASSUME NEW j \in 1..10, Memory!Order[j] \notin {"kmalloc", "pages", "temporary"},
                 j < memoryAt
          PROVE  Memory!Order[j] \in memoryHeld'
      BY <1>2, <2>1, <2>2 DEF Memory!Allocate, Memory!Allocated
    <2>3. CASE memoryHeld' = Memory!Allocated /\ UNCHANGED memoryFailed
               /\ IF memoryAt = Len(Memory!Order) THEN memoryPc' = "node" /\ UNCHANGED memoryAt
                  ELSE memoryAt' = memoryAt + 1 /\ UNCHANGED memoryPc
      <3>1. Memory!Order[memoryAt] \notin {"kmalloc", "pages", "temporary"}
            => Memory!Order[memoryAt] \in memoryHeld'
        BY <2>3 DEF Memory!Allocated
      <3>2. ASSUME NEW j \in 1..10, Memory!Order[j] \notin {"kmalloc", "pages", "temporary"},
                   j < memoryAt' \/ memoryPc' = "node"
            PROVE  Memory!Order[j] \in memoryHeld'
        <4>1. j < memoryAt \/ j = memoryAt
          BY <2>1, <2>3, <3>2
        <4> QED
          BY <2>2, <3>1, <3>2, <4>1
      <3> QED
        BY <2>1, <2>3, <3>2
    <2>4. CASE Memory!Order[memoryAt] = "pages" /\ memoryAt' = memoryAt + 1
               /\ UNCHANGED <<memoryPc, memoryHeld, memoryFailed>>
      BY <2>1, <2>4
    <2>5. CASE Memory!Order[memoryAt] = "temporary" /\ memoryPc' = "gone"
               /\ memoryFailed' = "temporary" /\ UNCHANGED <<memoryAt, memoryHeld>>
      BY <2>1, <2>2, <2>5
    <2>6. CASE memoryPc' = "err"
      BY <2>6
    <2> QED
      BY <1>2, <2>3, <2>4, <2>5, <2>6 DEF Memory!Allocate
  <1>3. CASE Memory!RegisterNode
    <2>1. memoryPc = "node" /\ memoryHeld' = memoryHeld
      BY <1>3 DEF Memory!RegisterNode
    <2>2. memoryPc' = "loaded" \/ (memoryPc' = "gone" /\ memoryFailed' = "node")
      BY <1>3 DEF Memory!RegisterNode
    <2>3. ASSUME NEW j \in 1..10, Memory!Order[j] \notin {"kmalloc", "pages", "temporary"}
          PROVE  Memory!Order[j] \in memoryHeld
      BY <2>1, <2>3
    <2> QED
      BY <2>1, <2>2, <2>3
  <1> QED
    BY <1>1, <1>2, <1>3

\* A step of a process
LEMMA MemoryProcessStep ==
  ASSUME Memory!MemoryAssumption, MemoryInv, NEW p \in Procs,
         Memory!Open(p) \/ Memory!Mmap(p) \/ Memory!Close(p) \/ Memory!Munmap(p)
           \/ Memory!FillKey(p)
  PROVE  MemoryInv'
  <1> USE DEF MemoryInv, MemoryType, Memory!Set, Memory!InUse
  <1>1. UNCHANGED <<memoryPc, memoryAt, memoryHeld, memoryFailed>>
    BY DEF Memory!Open, Memory!Mmap, Memory!Close, Memory!Munmap, Memory!FillKey
  <1>2. MemoryUndo' /\ MemoryKept'
    BY <1>1 DEF MemoryUndo, MemoryKept
  <1>3. /\ memoryFd \in [Procs -> BOOLEAN] /\ memoryView \in [Procs -> SUBSET Memory!Cells]
        /\ fill_offset \in [Procs -> Memory!Cells] /\ Nobody \notin Procs
           /\ memoryLock \in Procs \union {Nobody}
    BY DEF Memory!MemoryAssumption
  <1>4. CASE Memory!Open(p)
    <2>1. 0 \in Memory!Cells
      BY DEF Memory!Cells, Memory!MemoryAssumption
    <2>2. MemoryType'
      BY <1>1, <1>3, <1>4, <2>1 DEF Memory!Open
    <2>3. MemoryHolding'
      BY <1>1, <1>3, <1>4 DEF Memory!Open, MemoryHolding
    <2> QED
      BY <1>2, <2>2, <2>3
  <1>5. CASE Memory!Mmap(p)
    <2>1. PICK offset \in 0..(Size + 1), size \in 1..(Size + 1) :
            /\ offset <= Size /\ size <= Size - offset
            /\ memoryView' = [memoryView EXCEPT ![p] = offset..(offset + size - 1)]
      BY <1>5 DEF Memory!Mmap
    <2>2. offset..(offset + size - 1) \subseteq Memory!Cells
      BY <2>1 DEF Memory!Cells, Memory!MemoryAssumption
    <2>3. MemoryType'
      BY <1>1, <1>3, <1>5, <2>1, <2>2 DEF Memory!Mmap
    <2>4. MemoryHolding'
      BY <1>1, <1>3, <1>5, <2>1 DEF Memory!Mmap, MemoryHolding
    <2> QED
      BY <1>2, <2>3, <2>4
  <1>6. CASE Memory!Close(p)
    BY <1>1, <1>2, <1>3, <1>6 DEF Memory!Close, MemoryHolding
  <1>7. CASE Memory!Munmap(p)
    BY <1>1, <1>2, <1>3, <1>7 DEF Memory!Munmap, MemoryHolding
  <1>8. CASE Memory!FillKey(p)
    <2>1. fill_offset[p] \in Memory!Cells /\ fill_offset[p] \in memoryView[p]
      BY <1>3, <1>8 DEF Memory!FillKey
    <2>2. fill_offset' \in [Procs -> Memory!Cells]
      <3>1. fill_offset[p] < Size - 1 => fill_offset[p] + 1 \in Memory!Cells
        BY <2>1 DEF Memory!Cells, Memory!MemoryAssumption
      <3>2. fill_offset[p] # 0 => fill_offset[p] - 1 \in Memory!Cells
        BY <2>1 DEF Memory!Cells, Memory!MemoryAssumption
      <3> QED
        BY <1>3, <1>8, <3>1, <3>2 DEF Memory!FillKey
    <2>3. ~stray'
      BY <1>8, <2>1 DEF Memory!FillKey, MemoryHolding
    <2> QED
      BY <1>1, <1>2, <1>3, <1>8, <2>2, <2>3 DEF Memory!FillKey, MemoryHolding
  <1> QED
    BY <1>4, <1>5, <1>6, <1>7, <1>8

LEMMA MemoryNext == ASSUME Memory!MemoryAssumption PROVE MemoryInv /\ [Memory!Next]_memoryVars
                           => MemoryInv'
  <1> SUFFICES ASSUME MemoryInv, [Memory!Next]_memoryVars PROVE MemoryInv'
    OBVIOUS
  <1>1. CASE UNCHANGED memoryVars
    BY <1>1 DEF memoryVars, Memory!procVars, MemoryInv, MemoryType, MemoryHolding, MemoryUndo, MemoryKept,
       Memory!InUse
  <1> QED
    BY <1>1, MemoryModuleStep, MemoryKeptStep, MemoryProcessStep DEF Memory!Next, MemoryInv

LEMMA MemorySafe == MemoryInv => Memory!OneHolder /\ Memory!UnloadReleases
<1> SUFFICES ASSUME MemoryInv PROVE Memory!OneHolder /\ Memory!UnloadReleases
  OBVIOUS
<1> USE DEF MemoryInv, MemoryType, MemoryHolding, MemoryUndo
<1>1. Memory!OneHolder
  BY DEF Memory!OneHolder, Memory!InUse
<1>2. memoryPc = "out" => memoryLock = Nobody
  BY DEF Memory!InUse
<1>3. ASSUME memoryPc = "gone"
      PROVE  /\ {"krealloc", "dma", "user", "user_hi"} \subseteq memoryHeld
             /\ memoryFailed = "node" => {"vmalloc", "vzalloc", "mmap"} \subseteq memoryHeld
             /\ memoryFailed \in {"node", "temporary"}
  <2>1. memoryFailed \in {"node", "temporary"} /\ (memoryFailed # "node" => memoryAt = 7)
    BY <1>3 DEF MemoryKept
  <2>2. \A j \in {2, 3, 4, 5} : Memory!Order[j] \in memoryHeld
    BY <1>3, <2>1, MemoryOrder DEF MemoryKept
  <2>3. memoryFailed = "node" => \A j \in {8, 9, 10} : Memory!Order[j] \in memoryHeld
    BY <1>3, MemoryOrder DEF MemoryKept
  <2> QED
    BY <2>1, <2>2, <2>3, MemoryOrder
<1> QED
  BY <1>1, <1>2, <1>3 DEF Memory!UnloadReleases

-----------------------------------------------------------------------------
(* The linked list *)

\* An item at most once.
Distinct(s) == \A j, k \in 1 .. Len(s) : s[j] = s[k] => j = k

\* What list_del() leaves of a list: the items around the one taken out.
LEMMA RemoveAtFacts ==
  ASSUME NEW S, NEW s \in Seq(S), NEW k \in 1 .. Len(s)
  PROVE  /\ RemoveAt(s, k) \in Seq(S)
         /\ Len(RemoveAt(s, k)) = Len(s) - 1
         /\ \A j \in 1 .. (Len(s) - 1) : RemoveAt(s, k)[j] = IF j < k THEN s[j] ELSE s[j + 1]
<1> DEFINE a == SubSeq(s, 1, k - 1)
           b == SubSeq(s, k + 1, Len(s))
<1>1. Len(s) \in Nat /\ \A j \in 1 .. Len(s) : s[j] \in S
  OBVIOUS
<1>2. /\ a \in Seq(S) /\ Len(a) = k - 1
      /\ \A j \in 1 .. (k - 1) : a[j] = s[j]
  <2>1. \A j \in 1 .. (k - 1) : s[j] \in S
    BY <1>1
  <2> QED
    BY <2>1, <1>1, SubSeqProperties
<1>3. /\ b \in Seq(S) /\ Len(b) = Len(s) - k
      /\ \A j \in 1 .. (Len(s) - k) : b[j] = s[k + j]
  <2>1. \A j \in (k + 1) .. Len(s) : s[j] \in S
    BY <1>1
  <2>2. /\ b \in Seq(S) /\ Len(b) = IF k + 1 <= Len(s) THEN Len(s) - (k + 1) + 1 ELSE 0
        /\ \A j \in 1 .. (Len(s) - (k + 1) + 1) : b[j] = s[k + 1 + j - 1]
    BY <2>1, <1>1, SubSeqProperties
  <2> QED
    BY <2>2, <1>1
<1> HIDE DEF a, b
<1>4. /\ a \o b \in Seq(S) /\ Len(a \o b) = Len(a) + Len(b)
      /\ \A j \in 1 .. (Len(a) + Len(b)) : (a \o b)[j] = IF j <= Len(a) THEN a[j] ELSE b[j - Len(a)]
  BY <1>2, <1>3, ConcatProperties
<1>5. RemoveAt(s, k) = a \o b
  BY DEF RemoveAt, a, b
<1>6. ASSUME NEW j \in 1 .. (Len(s) - 1)
      PROVE  (a \o b)[j] = IF j < k THEN s[j] ELSE s[j + 1]
  <2>1. CASE j < k
    BY <1>1, <1>2, <1>3, <1>4, <2>1
  <2>2. CASE j >= k
    <3>1. (a \o b)[j] = b[j - (k - 1)]
      BY <1>1, <1>2, <1>3, <1>4, <2>2
    <3>2. j - (k - 1) \in 1 .. (Len(s) - k) /\ k + (j - (k - 1)) = j + 1
      BY <1>1, <2>2
    <3> QED
      BY <1>3, <3>1, <3>2, <2>2
  <2>3. j < k \/ j >= k
    BY <1>1
  <2> QED
    BY <2>1, <2>2, <2>3
<1>7. Len(a \o b) = Len(s) - 1
  BY <1>1, <1>2, <1>3, <1>4
<1> QED
  BY <1>4, <1>5, <1>6, <1>7

LEMMA UnlinkFacts ==
  ASSUME NEW S, NEW s \in Seq(S), Distinct(s), NEW k \in 1 .. Len(s)
  PROVE  /\ Distinct(RemoveAt(s, k))
         /\ ToSet(RemoveAt(s, k)) = ToSet(s) \ {s[k]}
<1> DEFINE r == RemoveAt(s, k)
<1>1. /\ r \in Seq(S) /\ Len(r) = Len(s) - 1
      /\ \A j \in 1 .. (Len(s) - 1) : r[j] = IF j < k THEN s[j] ELSE s[j + 1]
  BY RemoveAtFacts
<1> HIDE DEF r
<1>2. Len(s) \in Nat /\ DOMAIN s = 1 .. Len(s) /\ DOMAIN r = 1 .. Len(r)
  BY <1>1
<1>3. Distinct(r)
  <2> SUFFICES ASSUME NEW j \in 1 .. Len(r), NEW l \in 1 .. Len(r), r[j] = r[l] PROVE j = l
    BY DEF Distinct
  <2> DEFINE J == IF j < k THEN j ELSE j + 1
             L == IF l < k THEN l ELSE l + 1
  <2>1. J \in 1 .. Len(s) /\ L \in 1 .. Len(s) /\ r[j] = s[J] /\ r[l] = s[L]
    BY <1>1, <1>2
  <2>2. J = L
    BY <2>1 DEF Distinct
  <2> QED
    BY <2>2, <1>1, <1>2
<1>4. ASSUME NEW e \in ToSet(r) PROVE e \in ToSet(s) \ {s[k]}
  <2>1. PICK j \in 1 .. Len(r) : e = r[j]
    BY <1>2, <1>4 DEF ToSet
  <2> DEFINE J == IF j < k THEN j ELSE j + 1
  <2>2. J \in 1 .. Len(s) /\ e = s[J] /\ J # k
    BY <1>1, <1>2, <2>1
  <2>3. s[J] # s[k]
    BY <2>2 DEF Distinct
  <2> QED
    BY <1>2, <2>2, <2>3 DEF ToSet
<1>5. ASSUME NEW e \in ToSet(s) \ {s[k]} PROVE e \in ToSet(r)
  <2>1. PICK j \in 1 .. Len(s) : e = s[j]
    BY <1>2, <1>5 DEF ToSet
  <2>2. j # k
    BY <2>1
  <2> DEFINE J == IF j < k THEN j ELSE j - 1
  <2>3. J \in 1 .. Len(r) /\ r[J] = s[j]
    BY <1>1, <1>2, <2>1, <2>2
  <2> QED
    BY <1>2, <2>1, <2>3 DEF ToSet
<1> QED
  BY <1>3, <1>4, <1>5 DEF r

\* What list_add() and list_add_tail() make of one.
LEMMA LinkFacts ==
  ASSUME NEW S, NEW s \in Seq(S), Distinct(s), NEW e \in S, e \notin ToSet(s)
  PROVE  /\ <<e>> \o s \in Seq(S) /\ Distinct(<<e>> \o s) /\ ToSet(<<e>> \o s) = ToSet(s) \union {e}
         /\ Append(s, e) \in Seq(S) /\ Distinct(Append(s, e))
            /\ ToSet(Append(s, e)) = ToSet(s) \union {e}
<1> DEFINE h == <<e>> \o s
           t == Append(s, e)
<1>1. Len(s) \in Nat /\ DOMAIN s = 1 .. Len(s) /\ \A j \in 1 .. Len(s) : s[j] # e
  BY DEF ToSet
<1>2. /\ h \in Seq(S) /\ Len(h) = Len(s) + 1
      /\ h[1] = e /\ \A j \in 1 .. Len(s) : h[j + 1] = s[j]
  <2>1. <<e>> \in Seq(S) /\ Len(<<e>>) = 1 /\ <<e>>[1] = e
    OBVIOUS
  <2>2. /\ h \in Seq(S) /\ Len(h) = 1 + Len(s)
        /\ \A j \in 1 .. (1 + Len(s)) : h[j] = IF j <= 1 THEN <<e>>[j] ELSE s[j - 1]
    BY <2>1, ConcatProperties
  <2> HIDE DEF h
  <2> QED
    BY <1>1, <2>1, <2>2
<1>3. /\ t \in Seq(S) /\ Len(t) = Len(s) + 1
      /\ t[Len(s) + 1] = e /\ \A j \in 1 .. Len(s) : t[j] = s[j]
  BY <1>1
<1> HIDE DEF h, t
<1>4. DOMAIN h = 1 .. (Len(s) + 1) /\ DOMAIN t = 1 .. (Len(s) + 1)
  BY <1>2, <1>3
<1>5. Distinct(h)
  <2> SUFFICES ASSUME NEW j \in 1 .. (Len(s) + 1), NEW l \in 1 .. (Len(s) + 1), h[j] = h[l]
               PROVE j = l
    BY <1>2 DEF Distinct
  <2>1. ASSUME NEW m \in 2 .. (Len(s) + 1) PROVE m - 1 \in 1 .. Len(s) /\ h[m] = s[m - 1]
               /\ h[m] # e
    <3>1. m - 1 \in 1 .. Len(s) /\ (m - 1) + 1 = m
      BY <1>1
    <3> QED
      BY <1>1, <1>2, <3>1
  <2>2. CASE j = 1 \/ l = 1
    BY <1>1, <1>2, <2>1, <2>2
  <2>3. CASE j # 1 /\ l # 1
    <3>1. s[j - 1] = s[l - 1] /\ j - 1 \in 1 .. Len(s) /\ l - 1 \in 1 .. Len(s)
      BY <1>1, <2>1, <2>3
    <3>2. j - 1 = l - 1
      BY <3>1 DEF Distinct
    <3> QED
      BY <3>2, <1>1
  <2> QED
    BY <2>2, <2>3
<1>6. Distinct(t)
  BY <1>1, <1>3 DEF Distinct
<1>7. ToSet(h) = ToSet(s) \union {e}
  <2>1. ASSUME NEW x \in ToSet(h) PROVE x \in ToSet(s) \union {e}
    <3>1. PICK j \in 1 .. (Len(s) + 1) : x = h[j]
      BY <1>4, <2>1 DEF ToSet
    <3>2. CASE j = 1
      BY <3>1, <3>2, <1>2
    <3>3. CASE j # 1
      <4>1. j - 1 \in 1 .. Len(s) /\ (j - 1) + 1 = j
        BY <1>1, <3>3
      <4>2. x = s[j - 1]
        BY <1>2, <3>1, <4>1
      <4> QED
        BY <1>1, <4>1, <4>2 DEF ToSet
    <3> QED
      BY <3>2, <3>3
  <2>2. ASSUME NEW x \in ToSet(s) \union {e} PROVE x \in ToSet(h)
    <3>1. CASE x = e
      <4>1. 1 \in 1 .. (Len(s) + 1)
        BY <1>1
      <4> QED
        BY <3>1, <4>1, <1>2, <1>4 DEF ToSet
    <3>2. CASE x \in ToSet(s)
      <4>1. PICK j \in 1 .. Len(s) : x = s[j]
        BY <1>1, <3>2 DEF ToSet
      <4>2. j + 1 \in 1 .. (Len(s) + 1)
        BY <1>1
      <4> QED
        BY <4>1, <4>2, <1>2, <1>4 DEF ToSet
    <3> QED
      BY <2>2, <3>1, <3>2
  <2> QED
    BY <2>1, <2>2
<1>8. ToSet(t) = ToSet(s) \union {e}
  <2>1. ASSUME NEW x \in ToSet(t) PROVE x \in ToSet(s) \union {e}
    <3>1. PICK j \in 1 .. (Len(s) + 1) : x = t[j]
      BY <1>4, <2>1 DEF ToSet
    <3>2. CASE j = Len(s) + 1
      BY <3>1, <3>2, <1>3
    <3>3. CASE j # Len(s) + 1
      <4>1. j \in 1 .. Len(s)
        BY <1>1, <3>3
      <4> QED
        BY <1>1, <1>3, <3>1, <4>1 DEF ToSet
    <3> QED
      BY <3>2, <3>3
  <2>2. ASSUME NEW x \in ToSet(s) \union {e} PROVE x \in ToSet(t)
    <3>1. CASE x = e
      <4>1. Len(s) + 1 \in 1 .. (Len(s) + 1)
        BY <1>1
      <4> QED
        BY <3>1, <4>1, <1>3, <1>4 DEF ToSet
    <3>2. CASE x \in ToSet(s)
      <4>1. PICK j \in 1 .. Len(s) : x = s[j]
        BY <1>1, <3>2 DEF ToSet
      <4>2. j \in 1 .. (Len(s) + 1)
        BY <1>1
      <4> QED
        BY <4>1, <4>2, <1>3, <1>4 DEF ToSet
    <3> QED
      BY <2>2, <3>1, <3>2
  <2> QED
    BY <2>1, <2>2
<1> QED
  BY <1>2, <1>3, <1>5, <1>6, <1>7, <1>8 DEF h, t

\* The list operators of the module are those of SequencesExt.
LEMMA LinkedLists ==
  /\ \A s : Linked!ToSet(s) = ToSet(s)
  /\ \A s, k : Linked!RemoveAt(s, k) = RemoveAt(s, k)
  BY DEF Linked!ToSet, ToSet, Linked!RemoveAt, RemoveAt

LinkedType ==
  /\ linkedPc \in {"alloc_head", "alloc_array", "alloc", "undo", "oops", "insert", "middle",
             "walk", "delete", "free", "done"}
  /\ linkedI \in Linked!Nodes /\ linkedRound \in {1, 2}
  /\ linkedHead \in BOOLEAN /\ linkedArray \in BOOLEAN /\ linkedMisused \in BOOLEAN
  /\ linkedNodes \in SUBSET Linked!Nodes
  /\ linkedList \in Seq(Linked!Nodes)
  /\ linkedFailed \in {"none", "head", "array", "node"}

\* What is allocated, by how far the demonstration is.
LinkedAlloc ==
  /\ linkedPc \in {"alloc_head", "alloc_array"} => linkedNodes = {} /\ linkedFailed = "none"
     /\ linkedI = 0 /\ ~linkedArray
  /\ linkedPc = "alloc_head" => ~linkedHead
  /\ linkedPc \notin {"alloc_head", "done", "oops"} => linkedHead
  /\ linkedPc = "alloc" => linkedFailed = "none" /\ \A n \in Linked!Nodes : n \in linkedNodes
     <=> n < linkedI
  /\ linkedPc = "undo" => linkedFailed = "node" /\ \A n \in Linked!Nodes : n \in linkedNodes
     <=> n < linkedI
  /\ linkedPc \in {"insert", "middle", "walk", "delete"} => linkedFailed = "none"
     /\ linkedNodes = Linked!Nodes
  /\ linkedPc = "free" => linkedFailed = "none" /\ \A n \in Linked!Nodes : n \in linkedNodes
     <=> n >= linkedI
  /\ linkedPc = "oops" => linkedFailed = "array" /\ linkedHead /\ ~linkedArray /\ linkedNodes = {}
  /\ linkedPc = "done" =>
       /\ ~linkedArray /\ linkedHead = (linkedFailed = "node")
       /\ linkedNodes = IF linkedFailed = "node" /\ linkedI > 0 THEN {0} ELSE {}

\* What is listed.  The walk is at the first item and has looked up the second.
LinkedWalk ==
  /\ Distinct(linkedList)
  /\ linkedPc \notin {"insert", "middle", "walk", "delete"} => linkedList = <<>>
  /\ linkedPc = "insert" => \A n \in Linked!Nodes : n \in Linked!ToSet(linkedList) <=> n < linkedI
  /\ linkedPc = "middle" => \A n \in Linked!Nodes : n \in Linked!ToSet(linkedList)
  /\ linkedPc = "delete" =>
       /\ linkedPos = IF linkedList = <<>> THEN -1 ELSE linkedList[1]
       /\ linkedTemp = IF Len(linkedList) < 2 THEN -1 ELSE linkedList[2]
  /\ linkedMisused => linkedFailed = "array"

LinkedInv == LinkedType /\ LinkedAlloc /\ LinkedWalk

LEMMA LinkedNat ==
  Linked!ListAssumption => num_elements \in Nat /\ num_elements > 0 /\ Linked!Nodes \subseteq Nat
    /\ 0 \in Linked!Nodes /\ Fifth \in Linked!Nodes
                    /\ -1 \notin Linked!Nodes
  BY DEF Linked!ListAssumption, Linked!Nodes

LEMMA RoundsFacts == Len(Linked!Rounds) = 2 /\ Linked!Rounds[1] = "head"
                     /\ Linked!Rounds[2] = "tail"
  BY DEF Linked!Rounds

\* list_del() of an item of the list, and of the first one.
LEMMA ListDelFacts ==
  ASSUME linkedList \in Seq(Linked!Nodes), Distinct(linkedList), NEW n, Linked!ListDel(n)
  PROVE  /\ linkedList' \in Seq(Linked!Nodes) /\ Distinct(linkedList')
            /\ Linked!ToSet(linkedList') = Linked!ToSet(linkedList) \ {n}
         /\ linkedList # <<>> /\ n = linkedList[1] =>
              /\ Len(linkedList') = Len(linkedList) - 1
              /\ \A j \in 1 .. Len(linkedList') : linkedList'[j] = linkedList[j + 1]
<1>1. Len(linkedList) \in Nat /\ DOMAIN linkedList = 1 .. Len(linkedList)
  OBVIOUS
<1>2. CASE n \notin Linked!ToSet(linkedList)
  <2>1. linkedList' = linkedList
    BY <1>2 DEF Linked!ListDel
  <2>2. linkedList = <<>> \/ linkedList[1] \in Linked!ToSet(linkedList)
    BY <1>1 DEF Linked!ToSet
  <2> QED
    BY <1>2, <2>1, <2>2
<1>3. CASE n \in Linked!ToSet(linkedList)
  <2>1. PICK k \in 1 .. Len(linkedList) : linkedList[k] = n
    BY <1>1, <1>3 DEF Linked!ToSet
  <2>2. Linked!At(n) \in 1 .. Len(linkedList) /\ linkedList[Linked!At(n)] = n
    BY <1>1, <2>1 DEF Linked!At
  <2>3. linkedList' = Linked!RemoveAt(linkedList, Linked!At(n))
    BY <1>3 DEF Linked!ListDel
  <2>4. linkedList' \in Seq(Linked!Nodes) /\ Distinct(linkedList')
        /\ Linked!ToSet(linkedList') = Linked!ToSet(linkedList) \ {n}
    BY <2>2, <2>3, RemoveAtFacts, UnlinkFacts, LinkedLists
  <2>5. ASSUME linkedList # <<>>, n = linkedList[1]
        PROVE  Len(linkedList') = Len(linkedList) - 1
               /\ \A j \in 1 .. Len(linkedList') : linkedList'[j] = linkedList[j + 1]
    <3>1. Linked!At(n) = 1
      BY <1>1, <2>2, <2>5 DEF Distinct
    <3>2. /\ Len(Linked!RemoveAt(linkedList, 1)) = Len(linkedList) - 1
          /\ \A j \in 1 .. (Len(linkedList) - 1) : Linked!RemoveAt(linkedList, 1)[j] = IF j < 1
                                                                                       THEN linkedList[j] ELSE linkedList[j + 1]
      BY <2>2, <3>1, RemoveAtFacts, LinkedLists
    <3> QED
      BY <2>3, <3>1, <3>2, <1>1
  <2> QED
    BY <2>4, <2>5
<1> QED
  BY <1>2, <1>3

LEMMA LinkedInit == Linked!ListAssumption /\ Linked!Init => LinkedInv
<1> SUFFICES ASSUME Linked!ListAssumption, Linked!Init PROVE LinkedInv
  OBVIOUS
<1>1. linkedHead \in BOOLEAN /\ linkedArray \in BOOLEAN /\ linkedMisused \in BOOLEAN
      /\ ~linkedHead /\ ~linkedArray /\ ~linkedMisused
  BY DEF Linked!Init
<1>2. linkedList \in Seq(Linked!Nodes) /\ Distinct(linkedList)
  BY DEF Linked!Init, Distinct
<1>3. LinkedType
  BY <1>1, <1>2, LinkedNat DEF Linked!Init, LinkedType
<1>4. LinkedAlloc
  BY <1>1 DEF Linked!Init, LinkedAlloc
<1>5. LinkedWalk
  BY <1>1, <1>2 DEF Linked!Init, LinkedWalk
<1> QED
  BY <1>3, <1>4, <1>5 DEF LinkedInv

LEMMA LinkedTypeNext == Linked!ListAssumption /\ LinkedInv /\ [Linked!Next]_linkedVars
                        => LinkedType'
<1> SUFFICES ASSUME Linked!ListAssumption /\ LinkedInv, [Linked!Next]_linkedVars PROVE LinkedType'
  OBVIOUS
<1> USE LinkedNat, RoundsFacts DEF LinkedInv, LinkedWalk, LinkedType, Linked!Nodes,
   Linked!allocVars, Linked!walkVars
<1>1. CASE Linked!AllocHead
  BY <1>1 DEF Linked!AllocHead
<1>2. CASE Linked!AllocArray
  BY <1>2 DEF Linked!AllocArray
<1>3. CASE Linked!AllocNode
  <2>1. linkedNodes' \in SUBSET Linked!Nodes
    BY <1>3 DEF Linked!AllocNode
  <2>2. linkedI' \in Linked!Nodes /\ linkedPc' \in {"alloc", "insert", "undo"}
        /\ linkedFailed' \in {linkedFailed, "node"}
    BY <1>3 DEF Linked!AllocNode
  <2>3. UNCHANGED <<linkedRound, linkedHead, linkedArray, linkedMisused, linkedList>>
    BY <1>3 DEF Linked!AllocNode
  <2> QED
    BY <2>1, <2>2, <2>3
<1>4. CASE Linked!Undo
  <2>1. linkedNodes' \in SUBSET Linked!Nodes
    BY <1>4 DEF Linked!Undo
  <2>2. linkedI' \in Linked!Nodes /\ linkedPc' \in {"undo", "done"}
    BY <1>4 DEF Linked!Undo
  <2>3. linkedArray' \in BOOLEAN
    BY <1>4 DEF Linked!Undo
  <2>4. UNCHANGED <<linkedRound, linkedHead, linkedFailed, linkedMisused, linkedList>>
    BY <1>4 DEF Linked!Undo
  <2> QED
    BY <2>1, <2>2, <2>3, <2>4
<1>5. CASE Linked!Insert
  <2>1. <<linkedI>> \o linkedList \in Seq(Linked!Nodes)
        /\ Append(linkedList, linkedI) \in Seq(Linked!Nodes)
    OBVIOUS
  <2>2. linkedList' \in Seq(Linked!Nodes)
    BY <1>5, <2>1 DEF Linked!Insert
  <2>3. linkedI' \in Linked!Nodes /\ linkedPc' \in {"insert", "middle"}
    BY <1>5 DEF Linked!Insert
  <2>4. linkedMisused' \in BOOLEAN
    BY <1>5 DEF Linked!Insert
  <2> QED
    BY <1>5, <2>2, <2>3, <2>4 DEF Linked!Insert
<1>6. CASE Linked!DeleteMiddle
  <2>1. linkedList' \in Seq(Linked!Nodes)
    BY <1>6, ListDelFacts DEF Linked!DeleteMiddle
  <2>2. linkedMisused' \in BOOLEAN
    BY <1>6 DEF Linked!DeleteMiddle
  <2> QED
    BY <1>6, <2>1, <2>2 DEF Linked!DeleteMiddle
<1>7. CASE Linked!WalkBegin
  BY <1>7 DEF Linked!WalkBegin
<1>8. CASE Linked!WalkDelete
  <2>1. linkedList' \in Seq(Linked!Nodes)
    BY <1>8, ListDelFacts DEF Linked!WalkDelete
  <2>2. linkedMisused' \in BOOLEAN
    BY <1>8 DEF Linked!WalkDelete
  <2> QED
    BY <1>8, <2>1, <2>2 DEF Linked!WalkDelete
<1>9. CASE Linked!RoundEnd
  BY <1>9 DEF Linked!RoundEnd
<1>10. CASE Linked!Free
  <2>1. linkedNodes' \in SUBSET Linked!Nodes
    BY <1>10 DEF Linked!Free
  <2>2. linkedI' \in Linked!Nodes /\ linkedPc' \in {"free", "done"}
    BY <1>10 DEF Linked!Free
  <2>3. linkedArray' \in BOOLEAN /\ linkedHead' \in BOOLEAN /\ linkedMisused' \in BOOLEAN
    BY <1>10 DEF Linked!Free
  <2>4. UNCHANGED <<linkedRound, linkedFailed, linkedList>>
    BY <1>10 DEF Linked!Free
  <2> QED
    BY <2>1, <2>2, <2>3, <2>4
<1>11. CASE UNCHANGED linkedVars
  BY <1>11 DEF linkedVars
<1> QED
  BY <1>1, <1>2, <1>3, <1>4, <1>5, <1>6, <1>7, <1>8, <1>9, <1>10, <1>11 DEF Linked!Next

LEMMA LinkedAllocNext == Linked!ListAssumption /\ LinkedInv /\ LinkedType'
                         /\ [Linked!Next]_linkedVars => LinkedAlloc'
<1> SUFFICES ASSUME Linked!ListAssumption /\ LinkedInv /\ LinkedType', [Linked!Next]_linkedVars
             PROVE LinkedAlloc'
  OBVIOUS
<1> USE LinkedNat, RoundsFacts DEF LinkedInv, LinkedAlloc, LinkedType, Linked!allocVars,
   Linked!walkVars
<1>1. CASE Linked!AllocHead
  BY <1>1 DEF Linked!AllocHead
<1>2. CASE Linked!AllocArray
  <2>1. CASE linkedArray' = TRUE /\ linkedPc' = "alloc" /\ UNCHANGED <<linkedMisused, linkedFailed>>
    BY <1>2, <2>1 DEF Linked!AllocArray
  <2>2. CASE linkedPc' = "oops" /\ linkedFailed' = "array"
    BY <1>2, <2>2 DEF Linked!AllocArray
  <2> QED
    BY <1>2, <2>1, <2>2 DEF Linked!AllocArray
<1>3. CASE Linked!AllocNode
  <2>1. linkedPc = "alloc" /\ linkedHead /\ linkedFailed = "none" /\ linkedHead' = linkedHead
    BY <1>3 DEF Linked!AllocNode
  <2>2. CASE linkedNodes' = linkedNodes \union {linkedI} /\ linkedI = num_elements - 1
             /\ linkedPc' = "insert" /\ linkedFailed' = linkedFailed
    <3>1. linkedNodes' = Linked!Nodes
      BY <2>1, <2>2 DEF Linked!Nodes
    <3> QED
      BY <2>1, <2>2, <3>1
  <2>3. CASE linkedNodes' = linkedNodes \union {linkedI} /\ linkedI' = linkedI + 1
             /\ linkedPc' = linkedPc /\ linkedFailed' = linkedFailed
    <3>1. \A n \in Linked!Nodes : n \in linkedNodes' <=> n < linkedI'
      BY <2>1, <2>3
    <3> QED
      BY <2>1, <2>3, <3>1
  <2>4. CASE linkedPc' = "undo" /\ linkedFailed' = "node" /\ UNCHANGED <<linkedI, linkedNodes>>
    BY <2>1, <2>4
  <2> QED
    BY <1>3, <2>2, <2>3, <2>4 DEF Linked!AllocNode
<1>4. CASE Linked!Undo
  <2>1. linkedPc = "undo" /\ linkedFailed = "node" /\ linkedFailed' = linkedFailed /\ linkedHead
        /\ linkedHead' = linkedHead
    BY <1>4 DEF Linked!Undo
  <2>2. CASE linkedI' = linkedI - 1 /\ linkedI - 1 > 0
             /\ linkedNodes' = linkedNodes \ {linkedI - 1} /\ linkedPc' = linkedPc
    <3>1. \A n \in Linked!Nodes : n \in linkedNodes' <=> n < linkedI'
      BY <2>1, <2>2
    <3> QED
      BY <2>1, <2>2, <3>1
  <2>3. CASE linkedI - 1 <= 0 /\ linkedArray' = FALSE /\ linkedPc' = "done"
             /\ UNCHANGED <<linkedI, linkedNodes>>
    <3>1. linkedI = 0 \/ linkedI = 1
      BY <1>4, <2>1, <2>3, SMTT(30)
    <3>2. linkedNodes' = IF linkedI' > 0 THEN {0} ELSE {}
      BY <2>1, <2>3, <3>1
    <3>3. ~linkedArray'
      BY <2>3
    <3> QED
      BY <2>1, <2>3, <3>2, <3>3
  <2>4. CASE linkedI - 1 > 0
    BY <1>4, <2>2, <2>4 DEF Linked!Undo
  <2>5. CASE ~(linkedI - 1 > 0)
    <3>1. linkedI - 1 <= 0
      BY <2>5
    <3> QED
      BY <1>4, <2>3, <2>5, <3>1 DEF Linked!Undo
  <2> QED
    BY <2>4, <2>5
<1>5. CASE Linked!Insert
  BY <1>5 DEF Linked!Insert
<1>6. CASE Linked!DeleteMiddle
  BY <1>6 DEF Linked!DeleteMiddle
<1>7. CASE Linked!WalkBegin
  BY <1>7 DEF Linked!WalkBegin
<1>8. CASE Linked!WalkDelete
  BY <1>8 DEF Linked!WalkDelete
<1>9. CASE Linked!RoundEnd
  <2>1. linkedPc = "delete" /\ linkedFailed = "none" /\ linkedNodes = Linked!Nodes /\ linkedHead
        /\ UNCHANGED <<linkedHead, linkedArray, linkedNodes, linkedFailed>>
    BY <1>9 DEF Linked!RoundEnd
  <2>2. linkedPc' \in {"free", "insert"} /\ linkedI' = 0
    BY <1>9 DEF Linked!RoundEnd
  <2>3. \A n \in Linked!Nodes : n \in linkedNodes' <=> n >= linkedI'
    BY <2>1, <2>2
  <2> QED
    BY <2>1, <2>2, <2>3
<1>10. CASE Linked!Free
  <2>1. linkedPc = "free" /\ linkedFailed = "none" /\ linkedFailed' = linkedFailed /\ linkedHead
        /\ linkedNodes' = linkedNodes \ {linkedI}
    BY <1>10 DEF Linked!Free
  <2>2. CASE linkedI = num_elements - 1 /\ linkedPc' = "done" /\ linkedArray' = FALSE
             /\ linkedHead' = FALSE
    <3>1. linkedNodes' = {}
      BY <2>1, <2>2 DEF Linked!Nodes
    <3>2. ~linkedArray' /\ ~linkedHead'
      BY <2>2
    <3> QED
      BY <2>1, <2>2, <3>1, <3>2
  <2>3. CASE linkedI' = linkedI + 1 /\ UNCHANGED <<linkedPc, linkedArray, linkedHead>>
    <3>1. \A n \in Linked!Nodes : n \in linkedNodes' <=> n >= linkedI'
      BY <2>1, <2>3
    <3> QED
      BY <2>1, <2>3, <3>1
  <2> QED
    BY <1>10, <2>2, <2>3 DEF Linked!Free
<1>11. CASE UNCHANGED linkedVars
  BY <1>11 DEF linkedVars
<1> QED
  BY <1>1, <1>2, <1>3, <1>4, <1>5, <1>6, <1>7, <1>8, <1>9, <1>10, <1>11 DEF Linked!Next

LEMMA LinkedWalkNext == Linked!ListAssumption /\ LinkedInv /\ LinkedType'
                        /\ [Linked!Next]_linkedVars => LinkedWalk'
<1> SUFFICES ASSUME Linked!ListAssumption /\ LinkedInv /\ LinkedType', [Linked!Next]_linkedVars
             PROVE LinkedWalk'
  OBVIOUS
<1> USE LinkedNat, RoundsFacts DEF LinkedInv, LinkedAlloc, LinkedWalk, LinkedType,
   Linked!allocVars, Linked!walkVars
<1>1. CASE Linked!AllocHead
  BY <1>1 DEF Linked!AllocHead
<1>2. CASE Linked!AllocArray
  BY <1>2 DEF Linked!AllocArray
<1>3. CASE Linked!AllocNode
  <2>1. linkedList = <<>> /\ linkedList' = <<>> /\ Linked!ToSet(linkedList') = {}
    BY <1>3 DEF Linked!AllocNode, Linked!ToSet
  <2> QED
    BY <1>3, <2>1 DEF Linked!AllocNode, Linked!Nodes
<1>4. CASE Linked!Undo
  BY <1>4 DEF Linked!Undo
<1>5. CASE Linked!Insert
  <2>1. linkedI \notin Linked!ToSet(linkedList) /\ linkedI \in linkedNodes
    BY <1>5 DEF Linked!Insert
  <2>2. Distinct(linkedList')
        /\ Linked!ToSet(linkedList') = Linked!ToSet(linkedList) \union {linkedI}
    BY <1>5, <2>1, LinkFacts, LinkedLists DEF Linked!Insert
  <2>3. linkedMisused' => linkedMisused
    BY <1>5, <2>1 DEF Linked!Insert
  <2>4. CASE linkedI = num_elements - 1
    <3>1. \A n \in Linked!Nodes : n \in Linked!ToSet(linkedList')
      BY <1>5, <2>2, <2>4 DEF Linked!Insert, Linked!Nodes
    <3> QED
      BY <1>5, <2>2, <2>3, <2>4, <3>1 DEF Linked!Insert
  <2>5. CASE linkedI # num_elements - 1
    <3>1. linkedI' = linkedI + 1 /\ linkedPc' = "insert"
      BY <1>5, <2>5 DEF Linked!Insert
    <3>2. ASSUME NEW n \in Linked!Nodes PROVE n \in Linked!ToSet(linkedList') <=> n < linkedI'
      BY <1>5, <2>2, <3>1 DEF Linked!Insert
    <3> QED
      BY <1>5, <2>2, <2>3, <3>1, <3>2 DEF Linked!Insert
  <2> QED
    BY <2>4, <2>5
<1>6. CASE Linked!DeleteMiddle
  <2>1. Distinct(linkedList')
    BY <1>6, ListDelFacts DEF Linked!DeleteMiddle
  <2>2. linkedMisused' => linkedMisused
    BY <1>6 DEF Linked!DeleteMiddle
  <2> QED
    BY <1>6, <2>1, <2>2 DEF Linked!DeleteMiddle
<1>7. CASE Linked!WalkBegin
  <2>1. Len(linkedList) \in Nat /\ DOMAIN linkedList = 1 .. Len(linkedList)
        /\ \A j \in 1 .. Len(linkedList) : linkedList[j] \in Linked!Nodes
    OBVIOUS
  <2>2. linkedList' = linkedList /\ linkedPos' = (IF linkedList = <<>> THEN -1 ELSE linkedList[1])
        /\ linkedPc' = "delete" /\ UNCHANGED <<linkedMisused, linkedFailed>>
    BY <1>7 DEF Linked!WalkBegin
  <2>3. linkedTemp' = IF Len(linkedList) < 2 THEN -1 ELSE linkedList[2]
    <3>1. CASE linkedList = <<>>
      BY <1>7, <2>2, <3>1 DEF Linked!WalkBegin
    <3>2. CASE linkedList # <<>>
      <4>1. 1 \in DOMAIN linkedList /\ linkedPos' = linkedList[1] /\ linkedPos' # -1
        BY <2>1, <2>2, <3>2
      <4>2. Linked!At(linkedPos') = 1
        BY <2>1, <4>1 DEF Linked!At, Distinct
      <4>3. linkedTemp' = Linked!NextOf(linkedPos')
        BY <1>7, <4>1 DEF Linked!WalkBegin
      <4>4. linkedTemp' = IF 1 = Len(linkedList) THEN -1 ELSE linkedList[2]
        BY <2>2, <4>2, <4>3 DEF Linked!NextOf
      <4>5. Len(linkedList) # 0
        BY <3>2
      <4>6. CASE Len(linkedList) = 1
        BY <4>4, <4>6
      <4>7. CASE Len(linkedList) # 1
        <5>1. ~(Len(linkedList) < 2)
          BY <2>1, <4>5, <4>7
        <5> QED
          BY <4>4, <4>7, <5>1
      <4> QED
        BY <4>6, <4>7
    <3> QED
      BY <3>1, <3>2
  <2> QED
    BY <1>7, <2>2, <2>3
<1>8. CASE Linked!WalkDelete
  <2>1. Len(linkedList) \in Nat /\ DOMAIN linkedList = 1 .. Len(linkedList)
        /\ \A j \in 1 .. Len(linkedList) : linkedList[j] \in Linked!Nodes
    OBVIOUS
  <2>2. linkedList # <<>> /\ linkedPos = linkedList[1] /\ linkedTemp = IF Len(linkedList) < 2
                                                                       THEN -1 ELSE linkedList[2]
    BY <1>8 DEF Linked!WalkDelete
  <2>3. /\ Distinct(linkedList') /\ linkedList' \in Seq(Linked!Nodes)
        /\ Len(linkedList') = Len(linkedList) - 1
        /\ \A j \in 1 .. Len(linkedList') : linkedList'[j] = linkedList[j + 1]
    BY <1>8, <2>2, ListDelFacts DEF Linked!WalkDelete
  <2>4. linkedPos' = IF linkedList' = <<>> THEN -1 ELSE linkedList'[1]
    BY <1>8, <2>1, <2>2, <2>3 DEF Linked!WalkDelete
  <2>5. linkedTemp' = IF Len(linkedList') < 2 THEN -1 ELSE linkedList'[2]
    <3>1. CASE Len(linkedList) < 2
      BY <1>8, <2>1, <2>2, <2>3, <3>1 DEF Linked!WalkDelete
    <3>2. CASE Len(linkedList) >= 2
      <4>1. 2 \in DOMAIN linkedList /\ linkedTemp = linkedList[2] /\ linkedTemp # -1
        BY <2>1, <2>2, <3>2
      <4>2. Linked!At(linkedTemp) = 2
        BY <2>1, <4>1 DEF Linked!At, Distinct
      <4>3. linkedTemp' = Linked!NextOf(linkedTemp)
        BY <1>8, <4>1 DEF Linked!WalkDelete
      <4>4. linkedTemp' = IF Len(linkedList) = 2 THEN -1 ELSE linkedList[3]
        BY <4>2, <4>3 DEF Linked!NextOf
      <4>5. CASE Len(linkedList) = 2
        <5>1. Len(linkedList') < 2
          BY <2>3, <4>5
        <5> QED
          BY <4>4, <4>5, <5>1
      <4>6. CASE Len(linkedList) # 2
        <5>1. Len(linkedList) > 2 /\ ~(Len(linkedList') < 2)
          <6>1. Len(linkedList) > 2
            BY <2>1, <3>2, <4>6
          <6>2. Len(linkedList') = Len(linkedList) - 1
            BY <2>3
          <6> QED
            BY <2>1, <6>1, <6>2
        <5>2. linkedList'[2] = linkedList[3]
          BY <2>1, <2>3, <5>1
        <5> QED
          BY <4>4, <4>6, <5>1, <5>2
      <4> QED
        BY <4>5, <4>6
    <3> QED
      BY <2>1, <3>1, <3>2
  <2>6. linkedMisused' => linkedMisused
    <3>1. linkedPos \in Linked!ToSet(linkedList)
          /\ (linkedTemp # -1 => linkedTemp \in Linked!ToSet(linkedList))
      <4>1. 1 \in DOMAIN linkedList /\ (linkedTemp # -1 => 2 \in DOMAIN linkedList)
        <5>1. Len(linkedList) # 0
          BY <2>2
        <5> QED
          BY <2>1, <2>2, <5>1
      <4> QED
        BY <2>2, <4>1 DEF Linked!ToSet
    <3> QED
      BY <1>8, <3>1 DEF Linked!WalkDelete
  <2> QED
    BY <1>8, <2>3, <2>4, <2>5, <2>6 DEF Linked!WalkDelete
<1>9. CASE Linked!RoundEnd
  <2>1. linkedList = <<>>
    <3>1. linkedList # <<>> => linkedList[1] \in Linked!Nodes
      OBVIOUS
    <3> QED
      BY <1>9, <3>1 DEF Linked!RoundEnd
  <2>2. linkedList' = linkedList /\ linkedI' = 0 /\ Linked!ToSet(linkedList') = {}
    BY <1>9, <2>1 DEF Linked!RoundEnd, Linked!ToSet
  <2> QED
    BY <1>9, <2>1, <2>2 DEF Linked!RoundEnd
<1>10. CASE Linked!Free
  <2>1. linkedList = <<>> /\ linkedList' = <<>> /\ linkedPc' \in {"free", "done"}
        /\ linkedFailed' = linkedFailed
    BY <1>10 DEF Linked!Free
  <2>2. linkedMisused' => linkedMisused
    BY <1>10 DEF Linked!Free
  <2>3. Distinct(linkedList')
    BY <2>1
  <2> QED
    BY <2>1, <2>2, <2>3
<1>11. CASE UNCHANGED linkedVars
  BY <1>11 DEF linkedVars
<1> QED
  BY <1>1, <1>2, <1>3, <1>4, <1>5, <1>6, <1>7, <1>8, <1>9, <1>10, <1>11 DEF Linked!Next

LEMMA LinkedNext == Linked!ListAssumption /\ LinkedInv /\ [Linked!Next]_linkedVars => LinkedInv'
  BY LinkedTypeNext, LinkedAllocNext, LinkedWalkNext DEF LinkedInv

LEMMA LinkedSafe == LinkedInv => Linked!NoStaleUse /\ Linked!EndReleases
<1> SUFFICES ASSUME LinkedInv PROVE Linked!NoStaleUse /\ Linked!EndReleases
  OBVIOUS
<1>1. Linked!ToSet(linkedList) \subseteq Linked!Nodes
  BY DEF LinkedInv, LinkedType, Linked!ToSet
<1>2. linkedList = <<>> => Linked!ToSet(linkedList) = {}
  BY DEF Linked!ToSet
<1> QED
  BY <1>1, <1>2 DEF LinkedInv, LinkedType, LinkedAlloc, LinkedWalk, Linked!NoStaleUse,
     Linked!EndReleases

-----------------------------------------------------------------------------
(* The wait queue *)

\* The condition is set before the wake-up, and the wait ends by one of them or
\* by a signal: whoever is past the wait without a signal has seen it set.
WaitInv ==
  /\ wait_queue_condition \in {0, 1} /\ signalled \in BOOLEAN
  /\ wait_queue_condition = 1 => waitWork \in {"set", "woke", "none"} /\ waitPc # "demo"
  /\ waitPc = "demo" => waitWork = "none"
  /\ waitPc \in {"node", "loaded", "gone"} => signalled \/ wait_queue_condition = 1
  /\ Wait!NoStaleUse
  /\ wait_queue_condition = 0 /\ waitPc # "demo" => waitWork \in {"queued", "running"}
  /\ waitPc \in {"test", "asleep"} => waitWaiting = TRUE
  /\ Wait!WakeComes

LEMMA WaitInit == Wait!Init => WaitInv
<1> SUFFICES ASSUME Wait!Init PROVE WaitInv
  OBVIOUS
<1>1. signalled \in BOOLEAN
  BY DEF Wait!Init
<1> QED
  BY <1>1 DEF Wait!Init, WaitInv, Wait!NoStaleUse, Wait!WakeComes

LEMMA WaitNext == WaitInv /\ [Wait!Next]_waitVars => WaitInv'
<1> SUFFICES ASSUME WaitInv, [Wait!Next]_waitVars PROVE WaitInv'
  OBVIOUS
<1> USE DEF WaitInv, Wait!NoStaleUse, Wait!WakeComes
<1>1. CASE Wait!Demo         BY <1>1 DEF Wait!Demo
<1>2. CASE Wait!Prepare      BY <1>2 DEF Wait!Prepare
<1>3. CASE Wait!Test         BY <1>3 DEF Wait!Test
<1>4. CASE Wait!Wake         BY <1>4 DEF Wait!Wake
<1>5. CASE Wait!Signal       BY <1>5 DEF Wait!Signal
<1>6. CASE Wait!RegisterNode BY <1>6 DEF Wait!RegisterNode
<1>7. CASE Wait!Exit         BY <1>7 DEF Wait!Exit
<1>8. CASE Wait!WorkRuns     BY <1>8 DEF Wait!WorkRuns, Wait!Late
<1>9. CASE Wait!WorkSets
  <2>1. signalled \/ waitPc # "gone"
    BY <1>9 DEF Wait!WorkSets
  <2>2. signalled' \in BOOLEAN /\ (signalled => signalled')
    BY <1>9 DEF Wait!WorkSets
  <2>3. waitPc # "gone" => late' = late
    BY <1>9 DEF Wait!WorkSets, Wait!Late
  <2>4. Wait!NoStaleUse'
    BY <2>1, <2>2, <2>3
  <2> QED
    BY <1>9, <2>2, <2>4 DEF Wait!WorkSets
<1>10. CASE Wait!WorkWakes   BY <1>10 DEF Wait!WorkWakes, Wait!Late
<1>11. CASE Wait!WorkReturns BY <1>11 DEF Wait!WorkReturns, Wait!Late
<1>12. CASE UNCHANGED waitVars BY <1>12 DEF waitVars
<1> QED
  BY <1>1, <1>2, <1>3, <1>4, <1>5, <1>6, <1>7, <1>8, <1>9, <1>10, <1>11, <1>12 DEF Wait!Next,
     Wait!Work

-----------------------------------------------------------------------------
(* All of them *)

LivesInv ==
  /\ OledInv
  /\ GpioInv
  /\ RegmapInv
  /\ DmaLifeInv
  /\ TimerInv
  /\ MemoryInv
  /\ LinkedInv
  /\ WaitInv

LEMMA LivesInitInv == LivesInit => LivesInv
  BY LivesAssumption, OledInit, GpioInit, RegmapInit, DmaLifeInit, TimerInit, MemoryInit,
     LinkedInit, WaitInit
     DEF LivesInit, LivesInv, LivesAssumption

\* A step of one module leaves the others alone.
LEMMA LivesStep ==
  [LivesNext]_livesVars =>
    /\ [Oled!Next]_oledVars
    /\ [Gpio!Next]_gpioVars
    /\ [Regmap!Next]_regmapVars
    /\ [DmaDriver!Next]_dmaDriverVars
    /\ [Timer!Next]_timerVars
    /\ [Memory!Next]_memoryVars
    /\ [Linked!Next]_linkedVars
    /\ [Wait!Next]_waitVars
  BY DEF LivesNext, livesVars

LEMMA LivesNextInv == LivesInv /\ [LivesNext]_livesVars => LivesInv'
<1> SUFFICES ASSUME LivesInv, [LivesNext]_livesVars PROVE LivesInv'
  OBVIOUS
<1> USE LivesAssumption, LivesStep DEF LivesInv, LivesAssumption
<1>1. OledInv'
  BY OledNext
<1>2. GpioInv'
  BY GpioNext
<1>3. RegmapInv'
  BY RegmapNext
<1>4. DmaLifeInv'
  BY DmaLifeNext
<1>5. TimerInv'
  BY TimerNext
<1>6. MemoryInv'
  BY MemoryNext
<1>7. LinkedInv'
  BY LinkedNext
<1>8. WaitInv'
  BY WaitNext
<1> QED
  BY <1>1, <1>2, <1>3, <1>4, <1>5, <1>6, <1>7, <1>8

\* No module, handler, work item, timer or program uses what is gone, but for the
\* causes each module names.
THEOREM NothingStaleUsed == LivesSpec => []NoStaleUse
<1>1. LivesInv => NoStaleUse
  BY OledSafe, LinkedSafe
     DEF LivesInv, NoStaleUse, GpioInv, RegmapInv, DmaLifeInv, TimerInv, WaitInv
<1> QED
  BY <1>1, LivesInitInv, LivesNextInv, PTL DEF LivesSpec

\* Whenever the work item sets the condition and wakes the queue, insmod does not sleep
\* through it.
THEOREM WakeAlwaysComes == LivesSpec => []Wait!WakeComes
<1>1. LivesInv => Wait!WakeComes
  BY DEF LivesInv, WaitInv
<1> QED
  BY <1>1, LivesInitInv, LivesNextInv, PTL DEF LivesSpec

\* However a load went and whatever was done since, a module that was unloaded left
\* nothing behind, but for the failures each names; what a load that fails over its
\* node leaves is all the module's own init had.
THEOREM UnloadReleasesAll == LivesSpec => []UnloadReleases
<1>1. GpioInv => Gpio!UnloadReleases
  BY DEF GpioInv, GpioPlaced, GpioType, GpioWhole, RingsThere, Gpio!UnloadReleases
<1>2. LivesInv => UnloadReleases
  BY <1>1, OledSafe, LinkedSafe, RegmapReleases, DmaLifeReleases, MemorySafe
     DEF LivesInv, UnloadReleases, TimerInv
<1> QED
  BY <1>2, LivesInitInv, LivesNextInv, PTL DEF LivesSpec

\* One process at a time has the file of the memory module or a mapping, of memory
\* that is there.
THEOREM OneHolderAlways == LivesSpec => []OneHolder
<1>1. LivesInv => OneHolder
  BY MemorySafe DEF LivesInv, OneHolder
<1> QED
  BY <1>1, LivesInitInv, LivesNextInv, PTL DEF LivesSpec
=============================================================================
