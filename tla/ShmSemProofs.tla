---------------------------- MODULE ShmSemProofs ----------------------------
(* The semaphores of ShmSem keep writer and reader apart until a writer    *)
(* quits, for any number of starts, keys, signals and failures.            *)
EXTENDS ShmSem, TLAPS

\* Until the write semaphore exists nobody has had a token to pass on.
NoneBeforeCreated == "write" \notin created => Tokens + lost <= quitPosts

TokenInv == TokensBounded /\ NoneBeforeCreated

LEMMA InitInv == Init => TypeOK /\ TokenInv
  BY ShmAssumption DEF Init, TypeOK, TokenInv, TokensBounded, NoneBeforeCreated,
     Tokens, Writing, Reading, WPcs, RPcs

\* Types, and that a semaphore in use exists.
LEMMA NextType == TypeOK /\ [Next]_vars => TypeOK'
  <1> SUFFICES ASSUME TypeOK, [Next]_vars PROVE TypeOK'
    OBVIOUS
  <1> USE ShmAssumption DEF TypeOK, WPcs, RPcs, wVars, wData, rVars, memVars
  <1>1. CASE UNCHANGED vars
    BY <1>1 DEF vars
  <1>2. CASE WStart
    BY <1>2 DEF WStart
  <1>3. CASE WOpenWrite
    BY <1>3 DEF WOpenWrite, Opened
  <1>4. CASE WOpenRead
    BY <1>4 DEF WOpenRead, Opened
  <1>5. CASE WFails
    BY <1>5 DEF WFails
  <1>6. CASE WKey
    BY <1>6 DEF WKey
  <1>7. CASE WWait
    <2>1. sem_write' \in Nat
      BY <1>7 DEF WWait
    <2>2. wpc' \in WPcs
      BY <1>7 DEF WWait
    <2> QED
      BY <1>7, <2>1, <2>2 DEF WWait
  <1>8. CASE WFill
    BY <1>8 DEF WFill
  <1>9. CASE WPost
    BY <1>9 DEF WPost
  <1>10. CASE WQuit
    BY <1>10 DEF WQuit
  <1>11. CASE WQuitPost
    BY <1>11 DEF WQuitPost
  <1>12. CASE WInterrupt
    BY <1>12 DEF WInterrupt
  <1>13. CASE WCrash
    BY <1>13 DEF WCrash
  <1>14. CASE RStart
    BY <1>14 DEF RStart
  <1>15. CASE ROpenRead
    BY <1>15 DEF ROpenRead, Opened
  <1>16. CASE ROpenWrite
    <2>1. CASE created' = created \union {"write"} /\ UNCHANGED r_write
               /\ sem_write' = Opened("write", sem_write, 0)
      BY <1>16, <2>1 DEF ROpenWrite, Opened
    <2>2. CASE r_write' = "failed" /\ UNCHANGED <<created, sem_write>>
      BY <1>16, <2>2 DEF ROpenWrite
    <2> QED
      BY <1>16, <2>1, <2>2 DEF ROpenWrite
  <1>17. CASE RWait
    BY <1>17 DEF RWait
  <1>18. CASE RRead
    BY <1>18 DEF RRead
  <1>19. CASE RPost
    BY <1>19 DEF RPost
  <1>20. CASE RKilled
    BY <1>20 DEF RKilled
  <1> QED
    BY <1>1, <1>2, <1>3, <1>4, <1>5, <1>6, <1>7, <1>8, <1>9, <1>10, <1>11,
       <1>12, <1>13, <1>14, <1>15, <1>16, <1>17, <1>18, <1>19, <1>20
    DEF Next, Writer, Reader

\* A step moves tokens; one appears only with the write semaphore or with the
\* post of a writer that quits.
LEMMA NextTokens == TypeOK /\ TokenInv /\ [Next]_vars => TokenInv'
  <1> SUFFICES ASSUME TypeOK /\ TokenInv, [Next]_vars PROVE TokenInv'
    OBVIOUS
  <1> USE ShmAssumption DEF TypeOK, TokenInv, TokensBounded, NoneBeforeCreated,
        Tokens, Writing, Reading, WPcs, RPcs, wVars, wData, rVars, memVars
  <1>1. CASE UNCHANGED vars
    BY <1>1 DEF vars
  <1>2. CASE WStart
    BY <1>2 DEF WStart
  <1>3. CASE WOpenWrite
    BY <1>3 DEF WOpenWrite, Opened
  <1>4. CASE WOpenRead
    BY <1>4 DEF WOpenRead, Opened
  <1>5. CASE WFails
    BY <1>5 DEF WFails
  <1>6. CASE WKey
    BY <1>6 DEF WKey
  <1>7. CASE WWait
    BY <1>7 DEF WWait
  <1>8. CASE WFill
    BY <1>8 DEF WFill
  <1>9. CASE WPost
    BY <1>9 DEF WPost
  <1>10. CASE WQuit
    BY <1>10 DEF WQuit
  <1>11. CASE WQuitPost
    BY <1>11 DEF WQuitPost
  <1>12. CASE WInterrupt
    BY <1>12 DEF WInterrupt
  <1>13. CASE WCrash
    BY <1>13 DEF WCrash
  <1>14. CASE RStart
    BY <1>14 DEF RStart
  <1>15. CASE ROpenRead
    BY <1>15 DEF ROpenRead, Opened
  <1>16. CASE ROpenWrite
    BY <1>16 DEF ROpenWrite, Opened
  <1>17. CASE RWait
    BY <1>17 DEF RWait
  <1>18. CASE RRead
    BY <1>18 DEF RRead
  <1>19. CASE RPost
    BY <1>19 DEF RPost
  <1>20. CASE RKilled
    BY <1>20 DEF RKilled
  <1> QED
    BY <1>1, <1>2, <1>3, <1>4, <1>5, <1>6, <1>7, <1>8, <1>9, <1>10, <1>11,
       <1>12, <1>13, <1>14, <1>15, <1>16, <1>17, <1>18, <1>19, <1>20
    DEF Next, Writer, Reader

\* Types are invariant, and nobody uses a semaphore that does not exist.
THEOREM TypeCorrect == Spec => []TypeOK
  <1>1. Init => TypeOK
    BY InitInv
  <1> QED
    BY <1>1, NextType, PTL DEF Spec

LEMMA Inv == Spec => []TokenInv
  <1>1. Init => TokenInv
    BY InitInv
  <1> QED
    BY <1>1, NextTokens, TypeCorrect, PTL DEF Spec

\* The number of tokens: one for the record and one for each quitting writer.
THEOREM TokensNeverGrow == Spec => []TokensBounded
  <1>1. TokenInv => TokensBounded
    BY DEF TokenInv
  <1> QED
    BY <1>1, Inv, PTL

\* Writer and reader are never both at the record before a writer has quit,
\* whatever was started, killed and started again before.
THEOREM ApartUntilQuit == Spec => []ExclusiveUntilQuit
  <1>1. TypeOK /\ TokenInv => ExclusiveUntilQuit
    BY DEF ExclusiveUntilQuit, TypeOK, TokenInv, TokensBounded, Tokens
  <1> QED
    BY <1>1, TypeCorrect, Inv, PTL

\* A value that has not been printed keeps its token away from the writer: the reader
\* has yet to take it or to print.
PrintedBeforeFree ==
  seen # shm.buffer /\ lost = 0 /\ quitPosts = 0 =>
    /\ "write" \in created /\ sem_write = 0
    /\ wpc # "fill" /\ rpc \notin {"post", "last_post"}

LEMMA NextPrinted ==
  TypeOK /\ TokenInv /\ PrintedBeforeFree /\ [Next]_vars => PrintedBeforeFree'
  <1> SUFFICES ASSUME TypeOK, TokenInv, PrintedBeforeFree, [Next]_vars
               PROVE  PrintedBeforeFree'
    OBVIOUS
  <1> USE DEF TypeOK, PrintedBeforeFree, wVars, wData, rVars, memVars
  <1>1. CASE WOpenWrite \/ ROpenWrite
    BY <1>1 DEF WOpenWrite, ROpenWrite, Opened
  <1>2. CASE WWait
    BY <1>2 DEF WWait
  <1>3. CASE WFill
    <2>1. quitPosts = 0 /\ lost = 0 => sem_write = 0 /\ rpc \notin {"read", "post", "last_post"}
      BY <1>3 DEF WFill, TokenInv, TokensBounded, Tokens, Writing, Reading
    <2> QED
      BY <1>3, <2>1 DEF WFill
  <1>4. CASE WInterrupt \/ WQuitPost
    <2>1. quitPosts' # 0
      BY <1>4 DEF WInterrupt, WQuitPost
    <2> QED
      BY <2>1
  <1>5. CASE WStart \/ WQuit
    <2>1. shm'.buffer = shm.buffer /\ created \subseteq created' /\ wpc' # "fill"
      BY <1>5 DEF WStart, WQuit
    <2>2. UNCHANGED <<sem_write, rpc, seen, lost, quitPosts>>
      BY <1>5 DEF WStart, WQuit
    <2> QED
      BY <2>1, <2>2
  <1>6. CASE WOpenRead \/ ROpenRead
    BY <1>6 DEF WOpenRead, ROpenRead
  <1>7. CASE WFails \/ WKey \/ WPost \/ WCrash
    BY <1>7 DEF WFails, WKey, WPost, WCrash
  <1>8. CASE RStart \/ RWait
    BY <1>8 DEF RStart, RWait
  <1>9. CASE RRead
    BY <1>9 DEF RRead
  <1>10. CASE RPost
    BY <1>10 DEF RPost
  <1>11. CASE RKilled
    BY <1>11 DEF RKilled
  <1>12. CASE UNCHANGED vars
    BY <1>12 DEF vars
  <1> QED
    BY <1>1, <1>2, <1>3, <1>4, <1>5, <1>6, <1>7, <1>8, <1>9, <1>10, <1>11, <1>12
    DEF Next, Writer, Reader

\* The writer never writes over a value the reader has yet to print, until a
\* writer has quit or a reader was killed with the token.
THEOREM PrintedBeforeOverwritten == Spec => NothingOverwritten
  <1>1. Init => PrintedBeforeFree
    BY DEF Init, PrintedBeforeFree
  <1>2. TypeOK /\ PrintedBeforeFree =>
          [WFill => seen = shm.buffer \/ lost > 0 \/ quitPosts > 0]_vars
    BY DEF TypeOK, PrintedBeforeFree, WFill
  <1> QED
    BY <1>1, <1>2, NextPrinted, TypeCorrect, Inv, PTL DEF Spec, NothingOverwritten
=============================================================================
