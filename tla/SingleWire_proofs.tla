------------------------- MODULE SingleWire_proofs -------------------------
(***************************************************************************)
(* Theorems about SingleWire, for every size of the input buffer and every *)
(* delay: the interrupt keeps to the buffer, no transfer starts from a     *)
(* null pointer, and what is on its way out is not touched.                *)
(***************************************************************************)
EXTENDS SingleWire, TLAPS

USE SingleWireAssumption
USE DEF rcvVars, txVars, startVars

\* While data comes in there is room for a byte and the zero behind it.
IndexFits == mStateRcv = "StRcvContentData" => mIdxBufDataWrite < SzBufInCmd - 1

TypeInv == TypeOK /\ IndexFits

\* A transfer is under way only where somebody waits for its end, and an entry
\* sent at once is marked until then.
Waiting ==
  /\ mBufTxPending = "yes" => mState = "StContentOutSentWait" \/ busy # "no"
  /\ busy \in {"flow", "log"} => "OutLog" \in mValidBuf

\* In debug mode a transfer has been made before, or the reply to the command
\* that switched it on is there in time.
Pointed ==
  /\ mpDataTx = "NULL" => mValidIdTx = "None"
  /\ mStateDbg # "StMain" => mModeDebug = "off"
  /\ mState = "StContentOutSend" => mModeDebug = "on"
  /\ mModeDebug = "on" =>
       \/ mpDataTx # "NULL" \/ "OutCmd" \in mValidBuf
       \/ mStateCmd = "StCmdSendStart"
  /\ mState = "StContentOutSend" /\ turn = "swt" =>
       mpDataTx # "NULL" \/ "OutCmd" \in mValidBuf

IInv == TypeInv /\ Waiting /\ Pointed /\ DataTxNotNull /\ SentIsValid

-----------------------------------------------------------------------------

\* The interrupt stops one byte in front of the end of the buffer.
LEMMA TypeStep ==
  ASSUME TypeInv, [Next]_vars
  PROVE  TypeInv'
<1>1. ASSUME NEW b \in Bytes, byteProcess(b) PROVE TypeInv'
  BY <1>1
  DEF byteProcess, RcvStart, RcvContentId, RcvContentData, TypeInv, TypeOK,
      IndexFits, Outs, Indices, Chars, Bytes
<1>2. ASSUME dataSent PROVE TypeInv'
  BY <1>2
  DEF dataSent, TypeInv, TypeOK, IndexFits, Outs, Indices, Chars, Bytes
<1>3. ASSUME Start PROVE TypeInv'
  BY <1>3
  DEF Start, SwtTick, TypeInv, TypeOK, IndexFits, Outs, Indices, Chars,
      Bytes
<1>4. ASSUME FlowControlRcvdWait PROVE TypeInv'
  BY <1>4
  DEF FlowControlRcvdWait, SwtTick, TypeInv, TypeOK, IndexFits, Outs,
      Indices, Chars, Bytes
<1>5. ASSUME ContentOutSend PROVE TypeInv'
  BY <1>5
  DEF ContentOutSend, SwtTick, ToSend, contentOutSend, TypeInv, TypeOK,
      IndexFits, Outs, Indices, Chars, Bytes
<1>6. ASSUME SyncedSent PROVE TypeInv'
  BY <1>6
  DEF SyncedSent, TypeInv, TypeOK, IndexFits, Outs, Indices, Chars, Bytes
<1>7. ASSUME ContentOutSentWait PROVE TypeInv'
  BY <1>7
  DEF ContentOutSentWait, SwtTick, TypeInv, TypeOK, IndexFits, Outs,
      Indices, Chars, Bytes
<1>8. ASSUME ContentOutSent PROVE TypeInv'
  BY <1>8
  DEF ContentOutSent, SwtTick, TypeInv, TypeOK, IndexFits, Outs, Indices,
      Chars, Bytes
<1>9. ASSUME CmdReceive PROVE TypeInv'
  <2>1. mBufInCmd' \in [Indices -> Bytes \cup {"zero"}]
    <3>1. CASE EndMarks = {}
      BY <1>9, <3>1 DEF CmdReceive, TypeInv, TypeOK
    <3>2. CASE EndMarks # {}
      <4>1. PICK i \in EndMarks : mBufInCmd' = [mBufInCmd EXCEPT ![i] = "zero"]
        BY <1>9, <3>2 DEF CmdReceive
      <4>2. QED BY <4>1 DEF TypeInv, TypeOK
    <3>3. QED BY <3>1, <3>2
  <2>2. mValidBuf' \subseteq Outs \cup {"InCmd"} /\ cmdRcvd' \in {"yes", "no"}
    BY <1>9 DEF CmdReceive, TypeInv, TypeOK
  <2>3. QED
    BY <1>9, <2>1, <2>2 DEF CmdReceive, SwtTick, TypeInv, TypeOK, IndexFits
<1>10. ASSUME NEW synced \in {"yes", "no"}, DbgStart(synced) PROVE TypeInv'
  BY <1>10
  DEF DbgStart, TypeInv, TypeOK, IndexFits, Outs, Indices, Chars, Bytes
<1>11. ASSUME DbgReadyWait PROVE TypeInv'
  BY <1>11
  DEF DbgReadyWait, TypeInv, TypeOK, IndexFits, Outs, Indices, Chars, Bytes
<1>12. ASSUME DbgTick PROVE TypeInv'
  <2>1. mBufInCmd' \in [Indices -> Bytes \cup {"zero"}]
    BY <1>12 DEF DbgTick, CmdRcvdWait, CmdInterpret, CmdSendStart, TypeInv, TypeOK
  <2>2. /\ mStateCmd' \in {"StCmdRcvdWait", "StCmdInterpret", "StCmdSendStart"}
        /\ mModeDebug' \in {"on", "off"}
    BY <1>12 DEF DbgTick, CmdRcvdWait, CmdInterpret, CmdSendStart, TypeInv, TypeOK
  <2>3. mValidBuf' \subseteq Outs \cup {"InCmd"} /\ unsent' \subseteq Outs
    <3>1. /\ mValidBuf' \subseteq mValidBuf \cup {"OutCmd", "OutProc"}
          /\ unsent' = unsent \cup (mValidBuf' \ mValidBuf)
      BY <1>12 DEF DbgTick, ValidAfterCmd
    <3>2. QED BY <3>1 DEF TypeInv, TypeOK, Outs
  <2>4. mCntDelay' \in 0 .. CntDelayMin
    BY <1>12 DEF DbgTick, TypeInv, TypeOK
  <2>5. QED
    BY <1>12, <2>1, <2>2, <2>3, <2>4 DEF DbgTick, TypeInv, TypeOK, IndexFits
<1>13. ASSUME entryLogEnqueue PROVE TypeInv'
  BY <1>13
  DEF entryLogEnqueue, TypeInv, TypeOK, IndexFits, Outs, Indices, Chars,
      Bytes
<1>14. ASSUME FlowSent PROVE TypeInv'
  BY <1>14
  DEF FlowSent, contentOutSend, TypeInv, TypeOK, IndexFits, Outs, Indices,
      Chars, Bytes
<1>15. ASSUME LogSent PROVE TypeInv'
  BY <1>15
  DEF LogSent, TypeInv, TypeOK, IndexFits, Outs, Indices, Chars, Bytes
<1>16. CASE UNCHANGED vars
  BY <1>16
  DEF vars, TypeInv, TypeOK, IndexFits, Outs, Indices, Chars, Bytes
<1>17. QED
  BY <1>1, <1>2, <1>3, <1>4, <1>5, <1>6, <1>7, <1>8, <1>9, <1>10, <1>11,
     <1>12, <1>13, <1>14, <1>15, <1>16
  DEF Next, process, logImmediateSend

LEMMA WaitingStep ==
  ASSUME TypeInv, Waiting, [Next]_vars
  PROVE  Waiting'
<1>1. ASSUME dataSent PROVE Waiting'
  BY <1>1
  DEF dataSent, Waiting, TypeInv, TypeOK, IndexFits, Outs, Indices
<1>2. ASSUME Start PROVE Waiting'
  BY <1>2
  DEF Start, SwtTick, Waiting, TypeInv, TypeOK, IndexFits, Outs, Indices
<1>3. ASSUME FlowControlRcvdWait PROVE Waiting'
  BY <1>3
  DEF FlowControlRcvdWait, SwtTick, Waiting, TypeInv, TypeOK, IndexFits,
      Outs, Indices
<1>4. ASSUME ContentOutSend PROVE Waiting'
  BY <1>4
  DEF ContentOutSend, SwtTick, ToSend, contentOutSend, Waiting, TypeInv,
      TypeOK, IndexFits, Outs, Indices
<1>5. ASSUME SyncedSent PROVE Waiting'
  BY <1>5
  DEF SyncedSent, Waiting, TypeInv, TypeOK, IndexFits, Outs, Indices
<1>6. ASSUME ContentOutSentWait PROVE Waiting'
  BY <1>6
  DEF ContentOutSentWait, SwtTick, Waiting, TypeInv, TypeOK, IndexFits,
      Outs, Indices
<1>7. ASSUME ContentOutSent PROVE Waiting'
  BY <1>7
  DEF ContentOutSent, SwtTick, Waiting, TypeInv, TypeOK, IndexFits, Outs,
      Indices
<1>8. ASSUME CmdReceive PROVE Waiting'
  BY <1>8
  DEF CmdReceive, SwtTick, EndMarks, Waiting, TypeInv, TypeOK, IndexFits,
      Outs, Indices
<1>9. ASSUME DbgTick PROVE Waiting'
  BY <1>9
  DEF DbgTick, CmdRcvdWait, CmdInterpret, CmdSendStart, ValidAfterCmd,
      TreeDrawn, Waiting, TypeInv, TypeOK, IndexFits, Outs, Indices
<1>10. ASSUME entryLogEnqueue PROVE Waiting'
  BY <1>10
  DEF entryLogEnqueue, Waiting, TypeInv, TypeOK, IndexFits, Outs, Indices
<1>11. ASSUME FlowSent PROVE Waiting'
  BY <1>11
  DEF FlowSent, contentOutSend, Waiting, TypeInv, TypeOK, IndexFits, Outs,
      Indices
<1>12. ASSUME LogSent PROVE Waiting'
  BY <1>12
  DEF LogSent, Waiting, TypeInv, TypeOK, IndexFits, Outs, Indices
<1>13. CASE UNCHANGED vars
  BY <1>13
  DEF vars, Waiting, TypeInv, TypeOK, IndexFits, Outs, Indices
<1>14. CASE \/ DbgReadyWait
            \/ \E b \in Bytes : byteProcess(b)
            \/ \E synced \in {"yes", "no"} : DbgStart(synced)
  BY <1>14
  DEF byteProcess, RcvStart, RcvContentId, RcvContentData, DbgStart,
      DbgReadyWait, Waiting, TypeInv, TypeOK, IndexFits, Outs, Indices
<1>15. QED
  BY <1>1, <1>2, <1>3, <1>4, <1>5, <1>6, <1>7, <1>8, <1>9, <1>10, <1>11,
     <1>12, <1>13, <1>14
  DEF Next, process, logImmediateSend

\* commandInterpret() switches debug mode on one tick before it offers the
\* reply, and process() selects what to send one tick after it saw the mode.
LEMMA PointedStep ==
  ASSUME TypeInv, Pointed, [Next]_vars
  PROVE  Pointed'
<1>1. ASSUME Start PROVE Pointed'
  BY <1>1
  DEF Start, SwtTick, Pointed, TypeInv, TypeOK, IndexFits, Outs, Indices
<1>2. ASSUME FlowControlRcvdWait PROVE Pointed'
  BY <1>2
  DEF FlowControlRcvdWait, SwtTick, Pointed, TypeInv, TypeOK, IndexFits,
      Outs, Indices
<1>3. ASSUME ContentOutSend PROVE Pointed'
  BY <1>3
  DEF ContentOutSend, SwtTick, ToSend, contentOutSend, Pointed, TypeInv,
      TypeOK, IndexFits, Outs, Indices
<1>4. ASSUME SyncedSent PROVE Pointed'
  BY <1>4
  DEF SyncedSent, Pointed, TypeInv, TypeOK, IndexFits, Outs, Indices
<1>5. ASSUME ContentOutSentWait PROVE Pointed'
  BY <1>5
  DEF ContentOutSentWait, SwtTick, Pointed, TypeInv, TypeOK, IndexFits,
      Outs, Indices
<1>6. ASSUME ContentOutSent PROVE Pointed'
  BY <1>6
  DEF ContentOutSent, SwtTick, Pointed, TypeInv, TypeOK, IndexFits, Outs,
      Indices
<1>7. ASSUME CmdReceive PROVE Pointed'
  BY <1>7
  DEF CmdReceive, SwtTick, EndMarks, Pointed, TypeInv, TypeOK, IndexFits,
      Outs, Indices
<1>8. ASSUME NEW synced \in {"yes", "no"}, DbgStart(synced) PROVE Pointed'
  BY <1>8
  DEF DbgStart, Pointed, TypeInv, TypeOK, IndexFits, Outs, Indices
<1>9. ASSUME DbgReadyWait PROVE Pointed'
  BY <1>9
  DEF DbgReadyWait, Pointed, TypeInv, TypeOK, IndexFits, Outs, Indices
<1>10. ASSUME DbgTick PROVE Pointed'
  BY <1>10
  DEF DbgTick, CmdRcvdWait, CmdInterpret, CmdSendStart, ValidAfterCmd,
      TreeDrawn, Pointed, TypeInv, TypeOK, IndexFits, Outs, Indices
<1>11. ASSUME entryLogEnqueue PROVE Pointed'
  BY <1>11
  DEF entryLogEnqueue, Pointed, TypeInv, TypeOK, IndexFits, Outs, Indices
<1>12. ASSUME FlowSent PROVE Pointed'
  BY <1>12
  DEF FlowSent, contentOutSend, Pointed, TypeInv, TypeOK, IndexFits, Outs,
      Indices
<1>13. ASSUME LogSent PROVE Pointed'
  BY <1>13
  DEF LogSent, Pointed, TypeInv, TypeOK, IndexFits, Outs, Indices
<1>14. CASE UNCHANGED vars
  BY <1>14
  DEF vars, Pointed, TypeInv, TypeOK, IndexFits, Outs, Indices
<1>15. CASE \/ dataSent
            \/ \E b \in Bytes : byteProcess(b)
  BY <1>15
  DEF byteProcess, RcvStart, RcvContentId, RcvContentData, dataSent,
      Pointed, TypeInv, TypeOK, IndexFits, Outs, Indices
<1>16. QED
  BY <1>1, <1>2, <1>3, <1>4, <1>5, <1>6, <1>7, <1>8, <1>9, <1>10, <1>11,
     <1>12, <1>13, <1>14, <1>15
  DEF Next, process, logImmediateSend

LEMMA NotNullStep ==
  ASSUME TypeInv, Pointed, DataTxNotNull, [Next]_vars
  PROVE  DataTxNotNull'
<1>1. ASSUME dataSent PROVE DataTxNotNull'
  BY <1>1
  DEF dataSent, DataTxNotNull, Pointed, TypeInv, TypeOK, IndexFits, Outs,
      Indices
<1>2. ASSUME ContentOutSend PROVE DataTxNotNull'
  BY <1>2
  DEF ContentOutSend, SwtTick, ToSend, contentOutSend, DataTxNotNull,
      Pointed, TypeInv, TypeOK, IndexFits, Outs, Indices
<1>3. ASSUME SyncedSent PROVE DataTxNotNull'
  BY <1>3
  DEF SyncedSent, DataTxNotNull, Pointed, TypeInv, TypeOK, IndexFits, Outs,
      Indices
<1>4. ASSUME entryLogEnqueue PROVE DataTxNotNull'
  BY <1>4
  DEF entryLogEnqueue, DataTxNotNull, Pointed, TypeInv, TypeOK, IndexFits,
      Outs, Indices
<1>5. ASSUME FlowSent PROVE DataTxNotNull'
  BY <1>5
  DEF FlowSent, contentOutSend, DataTxNotNull, Pointed, TypeInv, TypeOK,
      IndexFits, Outs, Indices
<1>6. ASSUME LogSent PROVE DataTxNotNull'
  BY <1>6
  DEF LogSent, DataTxNotNull, Pointed, TypeInv, TypeOK, IndexFits, Outs,
      Indices
<1>7. CASE UNCHANGED vars
  BY <1>7
  DEF vars, DataTxNotNull, Pointed, TypeInv, TypeOK, IndexFits, Outs,
      Indices
<1>8. CASE \/ Start \/ FlowControlRcvdWait \/ ContentOutSentWait
           \/ ContentOutSent \/ CmdReceive \/ DbgReadyWait \/ DbgTick
           \/ \E b \in Bytes : byteProcess(b)
           \/ \E synced \in {"yes", "no"} : DbgStart(synced)
  BY <1>8
  DEF byteProcess, RcvStart, RcvContentId, RcvContentData, Start, SwtTick,
      FlowControlRcvdWait, ContentOutSentWait, ContentOutSent, CmdReceive,
      EndMarks, DbgStart, DbgReadyWait, DbgTick, CmdRcvdWait, CmdInterpret,
      CmdSendStart, ValidAfterCmd, TreeDrawn, DataTxNotNull, Pointed,
      TypeInv, TypeOK, IndexFits, Outs, Indices
<1>9. QED
  BY <1>1, <1>2, <1>3, <1>4, <1>5, <1>6, <1>7, <1>8
  DEF Next, process, logImmediateSend

\* Marks are cleared only when nothing is under way.
LEMMA SentStep ==
  ASSUME TypeInv, Waiting, SentIsValid, [Next]_vars
  PROVE  SentIsValid'
<1>1. ASSUME dataSent PROVE SentIsValid'
  BY <1>1
  DEF dataSent, SentIsValid, Waiting, TypeInv, TypeOK, IndexFits, Outs,
      Indices
<1>2. ASSUME ContentOutSend PROVE SentIsValid'
  BY <1>2
  DEF ContentOutSend, SwtTick, ToSend, contentOutSend, SentIsValid, Waiting,
      TypeInv, TypeOK, IndexFits, Outs, Indices
<1>3. ASSUME SyncedSent PROVE SentIsValid'
  BY <1>3
  DEF SyncedSent, SentIsValid, Waiting, TypeInv, TypeOK, IndexFits, Outs,
      Indices
<1>4. ASSUME ContentOutSent PROVE SentIsValid'
  BY <1>4
  DEF ContentOutSent, SwtTick, SentIsValid, Waiting, TypeInv, TypeOK,
      IndexFits, Outs, Indices
<1>5. ASSUME CmdReceive PROVE SentIsValid'
  BY <1>5
  DEF CmdReceive, SwtTick, EndMarks, SentIsValid, Waiting, TypeInv, TypeOK,
      IndexFits, Outs, Indices
<1>6. ASSUME DbgTick PROVE SentIsValid'
  BY <1>6
  DEF DbgTick, CmdRcvdWait, CmdInterpret, CmdSendStart, ValidAfterCmd,
      TreeDrawn, SentIsValid, Waiting, TypeInv, TypeOK, IndexFits, Outs,
      Indices
<1>7. ASSUME entryLogEnqueue PROVE SentIsValid'
  BY <1>7
  DEF entryLogEnqueue, SentIsValid, Waiting, TypeInv, TypeOK, IndexFits,
      Outs, Indices
<1>8. ASSUME FlowSent PROVE SentIsValid'
  BY <1>8
  DEF FlowSent, contentOutSend, SentIsValid, Waiting, TypeInv, TypeOK,
      IndexFits, Outs, Indices
<1>9. ASSUME LogSent PROVE SentIsValid'
  BY <1>9
  DEF LogSent, SentIsValid, Waiting, TypeInv, TypeOK, IndexFits, Outs,
      Indices
<1>10. CASE UNCHANGED vars
  BY <1>10
  DEF vars, SentIsValid, Waiting, TypeInv, TypeOK, IndexFits, Outs, Indices
<1>11. CASE \/ Start \/ FlowControlRcvdWait \/ ContentOutSentWait
            \/ DbgReadyWait
            \/ \E b \in Bytes : byteProcess(b)
            \/ \E synced \in {"yes", "no"} : DbgStart(synced)
  BY <1>11
  DEF byteProcess, RcvStart, RcvContentId, RcvContentData, Start, SwtTick,
      FlowControlRcvdWait, ContentOutSentWait, DbgStart, DbgReadyWait,
      SentIsValid, Waiting, TypeInv, TypeOK, IndexFits, Outs, Indices
<1>12. QED
  BY <1>1, <1>2, <1>3, <1>4, <1>5, <1>6, <1>7, <1>8, <1>9, <1>10, <1>11
  DEF Next, process, logImmediateSend

-----------------------------------------------------------------------------
LEMMA InitInv ==
  ASSUME Init
  PROVE  IInv
<1>1. TypeInv
  BY DEF Init, TypeInv, TypeOK, IndexFits, Outs, Indices, Bytes, Chars
<1>2. Waiting /\ Pointed /\ DataTxNotNull /\ SentIsValid
  BY DEF Init, Waiting, Pointed, DataTxNotNull, SentIsValid
<1>3. QED BY <1>1, <1>2 DEF IInv

\* IInv is inductive.
THEOREM WireInvariant == Spec => []IInv
<1>1. IInv /\ [Next]_vars => IInv'
  BY TypeStep, WaitingStep, PointedStep, NotNullStep, SentStep DEF IInv
<1>2. QED BY <1>1, InitInv, PTL DEF Spec

\* Every variable has its type: the interrupt never writes behind mBufInCmd
\* (byteProcess()).
THEOREM TypeCorrect == Spec => []TypeOK
<1>1. IInv => TypeOK BY DEF IInv, TypeInv
<1>2. QED BY <1>1, WireInvariant, PTL

\* contentOutSend() never writes through a null pointer.
THEOREM NeverNull == Spec => []DataTxNotNull
<1>1. IInv => DataTxNotNull BY DEF IInv
<1>2. QED BY <1>1, WireInvariant, PTL

\* No buffer is written while it is on its way out (mValidBuf).
THEOREM SentStaysValid == Spec => []SentIsValid
<1>1. IInv => SentIsValid BY DEF IInv
<1>2. QED BY <1>1, WireInvariant, PTL
=============================================================================
