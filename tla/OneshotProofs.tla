--------------------------- MODULE OneshotProofs ---------------------------
(***************************************************************************)
(* Proofs about the oneshot packet for any sets of messages and tokens.    *)
(* The invariant IInv of Oneshot is inductive; every safety property of    *)
(* the module is one of its conjuncts or follows from it.                  *)
(***************************************************************************)
EXTENDS Oneshot, TLAPS

\* The packet and its two halves, as Packet::new leaves them, satisfy IInv.
LEMMA InitIInv == Init => IInv
  BY ConstantsAssumption
  DEF Init, IInv, TypeOK, Words, Upgrades, SenderPcs, ReceiverPcs, NoPanic,
      DisconnectedBy, CellContents, TokenPlaces, NotEmpty, SenderClosed,
      ReceiverClosed, Sending, MessageConservation, DisconnectedMeansDrained,
      NoLostWakeup, BlockerHidden, RecvNeverEmpty

\* Every step of send, clone, upgrade and drop_chan preserves IInv.
LEMMA SenderPreserves == ASSUME IInv, SenderNext PROVE IInv'
<1>. USE ConstantsAssumption DEF IInv, TypeOK, Words, Upgrades, SenderPcs,
       ReceiverPcs, sender, receiver, NoPanic, DisconnectedBy, CellContents,
       TokenPlaces, NotEmpty, SenderClosed, ReceiverClosed, Sending,
       MessageConservation, DisconnectedMeansDrained, NoLostWakeup,
       BlockerHidden, RecvNeverEmpty
<1>1. CASE SendCall
  BY <1>1 DEF SendCall
<1>2. CASE SendWrite
  BY <1>2 DEF SendWrite, Unsent
<1>3. CASE SendSwap
  <2>1. TypeOK'
    BY <1>3 DEF SendSwap, TokenOf
  <2>2. NoPanic'
    BY <1>3 DEF SendSwap, TokenOf
  <2>3. DisconnectedBy'
    BY <1>3 DEF SendSwap, TokenOf
  <2>4. CellContents'
    BY <1>3 DEF SendSwap, TokenOf
  <2>5. TokenPlaces'
    BY <1>3 DEF SendSwap, TokenOf
  <2>6. NotEmpty'
    BY <1>3 DEF SendSwap, TokenOf
  <2>7. MessageConservation'
    BY <1>3 DEF SendSwap, TokenOf
  <2>8. DisconnectedMeansDrained'
    BY <1>3 DEF SendSwap, TokenOf
  <2>9. NoLostWakeup'
    BY <1>3 DEF SendSwap, TokenOf
  <2>10. BlockerHidden'
    BY <1>3 DEF SendSwap, TokenOf
  <2>11. RecvNeverEmpty'
    BY <1>3 DEF SendSwap, TokenOf
  <2>12. QED
    BY <2>1, <2>2, <2>3, <2>4, <2>5, <2>6, <2>7, <2>8, <2>9, <2>10, <2>11 DEF IInv
<1>4. CASE SendUndo
  BY <1>4 DEF SendUndo
<1>5. CASE SendTakeBack
  BY <1>5 DEF SendTakeBack
<1>6. CASE Signal
  <2>1. TypeOK'
    BY <1>6 DEF Signal, SetWoken, Reclaim
  <2>2. NoPanic'
    BY <1>6 DEF Signal, SetWoken, Reclaim
  <2>3. DisconnectedBy'
    BY <1>6 DEF Signal, SetWoken, Reclaim
  <2>4. CellContents'
    BY <1>6 DEF Signal, SetWoken, Reclaim
  <2>5. TokenPlaces'
    BY <1>6 DEF Signal, SetWoken, Reclaim
  <2>6. NotEmpty'
    BY <1>6 DEF Signal, SetWoken, Reclaim
  <2>7. MessageConservation'
    BY <1>6 DEF Signal, SetWoken, Reclaim
  <2>8. DisconnectedMeansDrained'
    BY <1>6 DEF Signal, SetWoken, Reclaim
  <2>9. NoLostWakeup'
    BY <1>6 DEF Signal, SetWoken, Reclaim
  <2>10. BlockerHidden'
    BY <1>6 DEF Signal, SetWoken, Reclaim
  <2>11. RecvNeverEmpty'
    BY <1>6 DEF Signal, SetWoken, Reclaim
  <2>12. QED
    BY <2>1, <2>2, <2>3, <2>4, <2>5, <2>6, <2>7, <2>8, <2>9, <2>10, <2>11 DEF IInv
<1>7. CASE CloneCall
  BY <1>7 DEF CloneCall
<1>8. CASE UpgradeWrite
  BY <1>8 DEF UpgradeWrite
<1>9. CASE UpgradeSwap
  BY <1>9 DEF UpgradeSwap, AfterUpgrade, TokenOf
<1>10. CASE UpgradeRestore
  BY <1>10 DEF UpgradeRestore
<1>11. CASE DropChan
  BY <1>11 DEF DropChan, TokenOf
<1>12. QED
  BY <1>1, <1>2, <1>3, <1>4, <1>5, <1>6, <1>7, <1>8, <1>9, <1>10, <1>11 DEF SenderNext

\* Every step of recv, recv_timeout, try_recv, a select and drop_port
\* preserves IInv.
LEMMA ReceiverPreserves == ASSUME IInv, ReceiverNext PROVE IInv'
<1>. USE ConstantsAssumption DEF IInv, TypeOK, Words, Upgrades, SenderPcs,
       ReceiverPcs, sender, receiver, NoPanic, DisconnectedBy, CellContents,
       TokenPlaces, NotEmpty, SenderClosed, ReceiverClosed, Sending,
       MessageConservation, DisconnectedMeansDrained, NoLostWakeup,
       BlockerHidden, RecvNeverEmpty
<1>1. CASE RecvCall
  BY <1>1 DEF RecvCall
<1>2. CASE RecvLoad
  BY <1>2 DEF RecvLoad
<1>3. CASE RecvCas
  BY <1>3 DEF RecvCas, DropToken, Reclaim
<1>4. CASE WaitDone
  BY <1>4 DEF WaitDone
<1>5. CASE WaitAborted
  BY <1>5 DEF WaitAborted
<1>6. CASE AbortLoad
  BY <1>6 DEF AbortLoad, AbortOk, Return
<1>7. CASE AbortCas
  BY <1>7 DEF AbortCas, AbortedWord, AbortOk, Return, Reclaim
<1>8. CASE AbortDisconnected
  <2>1. TypeOK'
    BY <1>8 DEF AbortDisconnected, AbortOk, TakeUpgrade, Return
  <2>2. NoPanic'
    BY <1>8 DEF AbortDisconnected, AbortOk, TakeUpgrade, Return
  <2>3. DisconnectedBy'
    BY <1>8 DEF AbortDisconnected, AbortOk, TakeUpgrade, Return
  <2>4. CellContents'
    BY <1>8 DEF AbortDisconnected, AbortOk, TakeUpgrade, Return
  <2>5. TokenPlaces'
    BY <1>8 DEF AbortDisconnected, AbortOk, TakeUpgrade, Return
  <2>6. NotEmpty'
    BY <1>8 DEF AbortDisconnected, AbortOk, TakeUpgrade, Return
  <2>7. MessageConservation'
    BY <1>8 DEF AbortDisconnected, AbortOk, TakeUpgrade, Return
  <2>8. DisconnectedMeansDrained'
    BY <1>8 DEF AbortDisconnected, AbortOk, TakeUpgrade, Return
  <2>9. NoLostWakeup'
    BY <1>8 DEF AbortDisconnected, AbortOk, TakeUpgrade, Return
  <2>10. BlockerHidden'
    BY <1>8 DEF AbortDisconnected, AbortOk, TakeUpgrade, Return
  <2>11. RecvNeverEmpty'
    BY <1>8 DEF AbortDisconnected, AbortOk, TakeUpgrade, Return
  <2>12. QED
    BY <2>1, <2>2, <2>3, <2>4, <2>5, <2>6, <2>7, <2>8, <2>9, <2>10, <2>11 DEF IInv
<1>9. CASE TryLoad
  BY <1>9 DEF TryLoad, Return
<1>10. CASE TryCas
  BY <1>10 DEF TryCas
<1>11. CASE TryTake
  <2>1. TypeOK'
    BY <1>11 DEF TryTake, TakeData
  <2>2. NoPanic'
    BY <1>11 DEF TryTake, TakeData
  <2>3. DisconnectedBy'
    BY <1>11 DEF TryTake, TakeData
  <2>4. CellContents'
    BY <1>11 DEF TryTake, TakeData
  <2>5. TokenPlaces'
    BY <1>11 DEF TryTake, TakeData
  <2>6. NotEmpty'
    BY <1>11 DEF TryTake, TakeData
  <2>7. MessageConservation'
    BY <1>11 DEF TryTake, TakeData
  <2>8. DisconnectedMeansDrained'
    BY <1>11 DEF TryTake, TakeData
  <2>9. NoLostWakeup'
    BY <1>11 DEF TryTake, TakeData
  <2>10. BlockerHidden'
    BY <1>11 DEF TryTake, TakeData
  <2>11. RecvNeverEmpty'
    BY <1>11 DEF TryTake, TakeData
  <2>12. QED
    BY <2>1, <2>2, <2>3, <2>4, <2>5, <2>6, <2>7, <2>8, <2>9, <2>10, <2>11 DEF IInv
<1>12. CASE TryDisconnected
  <2>1. TypeOK'
    BY <1>12 DEF TryDisconnected, DataFirst, TakeData, TakeUpgrade, Return
  <2>2. NoPanic'
    BY <1>12 DEF TryDisconnected, DataFirst, TakeData, TakeUpgrade, Return
  <2>3. DisconnectedBy'
    BY <1>12 DEF TryDisconnected, DataFirst, TakeData, TakeUpgrade, Return
  <2>4. CellContents'
    BY <1>12 DEF TryDisconnected, DataFirst, TakeData, TakeUpgrade, Return
  <2>5. TokenPlaces'
    BY <1>12 DEF TryDisconnected, DataFirst, TakeData, TakeUpgrade, Return
  <2>6. NotEmpty'
    BY <1>12 DEF TryDisconnected, DataFirst, TakeData, TakeUpgrade, Return
  <2>7. MessageConservation'
    BY <1>12 DEF TryDisconnected, DataFirst, TakeData, TakeUpgrade, Return
  <2>8. DisconnectedMeansDrained'
    BY <1>12 DEF TryDisconnected, DataFirst, TakeData, TakeUpgrade, Return
  <2>9. NoLostWakeup'
    BY <1>12 DEF TryDisconnected, DataFirst, TakeData, TakeUpgrade, Return
  <2>10. BlockerHidden'
    BY <1>12 DEF TryDisconnected, DataFirst, TakeData, TakeUpgrade, Return
  <2>11. RecvNeverEmpty'
    BY <1>12 DEF TryDisconnected, DataFirst, TakeData, TakeUpgrade, Return
  <2>12. QED
    BY <2>1, <2>2, <2>3, <2>4, <2>5, <2>6, <2>7, <2>8, <2>9, <2>10, <2>11 DEF IInv
<1>13. CASE CanRecv
  BY <1>13 DEF CanRecv, Return
<1>14. CASE StartSelection
  BY <1>14 DEF StartSelection, DropToken, Reclaim, Return
<1>15. CASE SelectDisconnected
  <2>1. TypeOK'
    BY <1>15 DEF SelectDisconnected, TakeUpgrade, Return
  <2>2. NoPanic'
    BY <1>15 DEF SelectDisconnected, TakeUpgrade, Return
  <2>3. DisconnectedBy'
    BY <1>15 DEF SelectDisconnected, TakeUpgrade, Return
  <2>4. CellContents'
    BY <1>15 DEF SelectDisconnected, TakeUpgrade, Return
  <2>5. TokenPlaces'
    BY <1>15 DEF SelectDisconnected, TakeUpgrade, Return
  <2>6. NotEmpty'
    BY <1>15 DEF SelectDisconnected, TakeUpgrade, Return
  <2>7. MessageConservation'
    BY <1>15 DEF SelectDisconnected, TakeUpgrade, Return
  <2>8. DisconnectedMeansDrained'
    BY <1>15 DEF SelectDisconnected, TakeUpgrade, Return
  <2>9. NoLostWakeup'
    BY <1>15 DEF SelectDisconnected, TakeUpgrade, Return
  <2>10. BlockerHidden'
    BY <1>15 DEF SelectDisconnected, TakeUpgrade, Return
  <2>11. RecvNeverEmpty'
    BY <1>15 DEF SelectDisconnected, TakeUpgrade, Return
  <2>12. QED
    BY <2>1, <2>2, <2>3, <2>4, <2>5, <2>6, <2>7, <2>8, <2>9, <2>10, <2>11 DEF IInv
<1>16. CASE DropPort
  BY <1>16 DEF DropPort
<1>17. CASE DropTake
  BY <1>17 DEF DropTake
<1>18. QED
  BY <1>1, <1>2, <1>3, <1>4, <1>5, <1>6, <1>7, <1>8, <1>9, <1>10, <1>11, <1>12, <1>13, <1>14, <1>15, <1>16, <1>17 DEF ReceiverNext

\* The invariant mentions variables only, so a stuttering step keeps it.
LEMMA StutterPreserves == ASSUME IInv, UNCHANGED vars PROVE IInv'
  BY DEF vars, sender, receiver, IInv, TypeOK, NoPanic, DisconnectedBy,
     CellContents, TokenPlaces, NotEmpty, SenderClosed, ReceiverClosed, Sending,
     MessageConservation, DisconnectedMeansDrained, NoLostWakeup, BlockerHidden,
     RecvNeverEmpty

\* IInv holds in every reachable state of the packet.
THEOREM IInvHolds == Spec => []IInv
<1>1. IInv /\ [Next]_vars => IInv'
  BY SenderPreserves, ReceiverPreserves, StutterPreserves DEF Next, Terminated
<1>2. QED
  BY InitIInv, <1>1, PTL DEF Spec

\* Every variable keeps its type.
THEOREM TypeCorrect == Spec => []TypeOK
<1>1. IInv => TypeOK
  BY DEF IInv
<1>2. QED
  BY IInvHolds, <1>1, PTL

\* The accesses to the UnsafeCells `data' and `upgrade' never race.
THEOREM RaceFree == Spec => []NoDataRace
<1>1. IInv => NoDataRace
  BY DEF IInv, NoDataRace, SenderTouches, ReceiverTouches, DisconnectedBy,
     CellContents, SenderClosed, ReceiverClosed, Sending
<1>2. QED
  BY IInvHolds, <1>1, PTL

\* No unreachable!(), assertion or unwrap() of the packet fails, and a plain
\* recv never sees Empty.
THEOREM PanicFree == Spec => [](NoPanic /\ RecvNeverEmpty)
<1>1. IInv => NoPanic /\ RecvNeverEmpty
  BY DEF IInv
<1>2. QED
  BY IInvHolds, <1>1, PTL

\* No message is lost, duplicated, or both returned and delivered, and none is
\* missed by a receiver that is told that the channel ended.
THEOREM MessagesConserved == Spec => []Delivery
<1>1. IInv => Delivery
  BY DEF IInv, Delivery
<1>2. QED
  BY IInvHolds, <1>1, PTL

\* Each token pointer has exactly one owner and is cast back exactly once; a
\* sleeping receiver is always reachable by a sender, and a receiver that is
\* awake is never in the packet.
THEOREM TokensOwned == Spec => [](TokensSafe /\ BlockerHidden)
<1>1. IInv => TokenOwnership
  BY ConstantsAssumption
  DEF IInv, TokenOwnership, TokenPlaces, TypeOK, Words
<1>2. IInv => NoLostWakeup /\ BlockerHidden
  BY DEF IInv
<1>3. IInv => TokensSafe /\ BlockerHidden
  BY <1>1, <1>2 DEF TokensSafe
<1>4. QED
  BY IInvHolds, <1>3, PTL
=============================================================================
