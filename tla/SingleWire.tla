----------------------------- MODULE SingleWire -----------------------------
(***************************************************************************)
(* Debugging a microcontroller over one wire (targets/stm32): an interrupt *)
(* feeds the bytes of the external scheduler to SingleWireTransfering, the *)
(* main loop ticks SingleWireTransfering and then its parent,              *)
(* SystemDebugging, which interprets commands and offers content to send.  *)
(*                                                                         *)
(* A step is one call of process() or one interrupt.  The wire is half     *)
(* duplex, and anything may arrive on it.  Of a content only its kind is   *)
(* left; the input buffer is kept byte by byte, because what is left in it *)
(* of earlier commands matters.  With mSyncedTransfer the main loop waits  *)
(* for the end of each transfer (busy), and a log entry is sent at once.   *)
(***************************************************************************)
EXTENDS Naturals, FiniteSets

CONSTANTS
  SzBufInCmd,   \* cSzBufInCmd
  CntDelayMin   \* cCntDelayMin: ticks between two pictures of the tree

ASSUME SingleWireAssumption ==
  SzBufInCmd \in Nat /\ SzBufInCmd >= 3 /\ CntDelayMin \in Nat

VARIABLES
  turn,          \* who is ticked next by the main loop: "swt" or "dbg"
  busy,          \* what a while (mBufTxPending) of the main loop waits for
  mStateDbg,     \* SystemDebugging: mState
  mSyncedTransfer,
  mState,        \* SingleWireTransfering: the state of process()
  mStateCmd,     \* SystemDebugging: the state of commandInterpret()
  mModeDebug,    \* "on" or "off"
  mValidBuf,     \* the buffers that hold something for the other side
  flowRcvd,      \* mBufId[0] = FlowTargetToSched
  cmdRcvd,       \* mBufId[1] = IdContentScToTaCmd
  mStateRcv, mIdxBufDataWrite, mBufInCmd, \* byteProcess()
  mBufTxPending, mContentIdOut, mValidIdTx, mpDataTx, \* the transfer
  mCntDelay,
  unsent         \* history: the buffers whose content was not sent yet

rcvVars == <<mStateRcv, mIdxBufDataWrite, mBufInCmd>>
txVars  == <<mBufTxPending, mContentIdOut, mValidIdTx, mpDataTx>>
startVars == <<mStateDbg, mSyncedTransfer>>
vars == <<turn, busy, startVars, mState, mStateCmd, mModeDebug, mValidBuf,
          flowRcvd, cmdRcvd, rcvVars, txVars, mCntDelay, unsent>>

Outs == {"OutCmd", "OutLog", "OutProc"}
Chars == {"debug", "other"}
Bytes == {"FlowTargetToSched", "FlowSchedToTarget", "IdCmd", "End"} \cup Chars
Indices == 0 .. SzBufInCmd - 1

TypeOK ==
  /\ turn \in {"swt", "dbg"}
  /\ busy \in {"no", "content", "flow", "log"}
  /\ mStateDbg \in {"StStart", "StSendReadyWait", "StMain"}
  /\ mSyncedTransfer \in {"yes", "no"}
  /\ mState \in {"StStart", "StFlowControlRcvdWait", "StContentOutSend",
                 "StContentOutSentWait", "StContentOutSent", "StCmdReceive"}
  /\ mStateCmd \in {"StCmdRcvdWait", "StCmdInterpret", "StCmdSendStart"}
  /\ mModeDebug \in {"on", "off"}
  /\ mValidBuf \subseteq Outs \cup {"InCmd"}
  /\ flowRcvd \in {"yes", "no"} /\ cmdRcvd \in {"yes", "no"}
  /\ mStateRcv \in {"StRcvStart", "StRcvContentId", "StRcvContentData"}
  /\ mIdxBufDataWrite \in Indices
  /\ mBufInCmd \in [Indices -> Bytes \cup {"zero"}]
  /\ mBufTxPending \in {"yes", "no"}
  /\ mContentIdOut \in Outs \cup {"None"}
  /\ mValidIdTx \in Outs \cup {"None"}
  /\ mpDataTx \in Outs \cup {"NULL"}
  /\ mCntDelay \in 0 .. CntDelayMin
  /\ unsent \subseteq Outs

\* The constructor clears the first byte of mBufInCmd only: the others are
\* anything.
Init ==
  /\ turn = "dbg" /\ busy = "no"
  /\ mStateDbg = "StStart" /\ mSyncedTransfer = "no"
  /\ mState = "StStart"
  /\ mStateCmd = "StCmdRcvdWait"
  /\ mModeDebug = "off"
  /\ mValidBuf = {}
  /\ flowRcvd = "no" /\ cmdRcvd = "no"
  /\ mStateRcv = "StRcvStart" /\ mIdxBufDataWrite = 0
  /\ mBufInCmd \in {f \in [Indices -> {"zero", "End"}] : f[0] = "zero"}
  /\ mBufTxPending = "no"
  /\ mContentIdOut = "None" /\ mValidIdTx = "None" /\ mpDataTx = "NULL"
  /\ mCntDelay = 0
  /\ unsent = {}

-----------------------------------------------------------------------------
(***************************************************************************)
(* Interrupts.                                                             *)
(***************************************************************************)
RcvStart(b) ==
  /\ mStateRcv = "StRcvStart"
  /\ flowRcvd' = IF b = "FlowTargetToSched" THEN "yes" ELSE flowRcvd
  /\ mStateRcv' = IF b = "FlowSchedToTarget" THEN "StRcvContentId" ELSE mStateRcv
  /\ UNCHANGED <<cmdRcvd, mIdxBufDataWrite, mBufInCmd>>

\* A command is refused while one was "not processed yet".
RcvContentId(b) ==
  /\ mStateRcv = "StRcvContentId"
  /\ IF b = "IdCmd" /\ cmdRcvd = "no"
     THEN mStateRcv' = "StRcvContentData" /\ mIdxBufDataWrite' = 0
     ELSE mStateRcv' = "StRcvStart" /\ UNCHANGED mIdxBufDataWrite
  /\ UNCHANGED <<flowRcvd, cmdRcvd, mBufInCmd>>

\* Mutant: the last byte of the buffer is not kept for the zero.
RcvContentData_WholeBuffer(b) ==
  /\ mStateRcv = "StRcvContentData"
  /\ mBufInCmd' = [mBufInCmd EXCEPT ![mIdxBufDataWrite] = b]
  /\ mIdxBufDataWrite' = mIdxBufDataWrite + 1
  /\ cmdRcvd' = IF b = "End" THEN "yes" ELSE cmdRcvd
  /\ mStateRcv' = IF b # "End" /\ mIdxBufDataWrite' < SzBufInCmd
                  THEN mStateRcv ELSE "StRcvStart"
  /\ UNCHANGED flowRcvd

RcvContentData(b) ==
  /\ mStateRcv = "StRcvContentData"
  /\ mBufInCmd' = [mBufInCmd EXCEPT ![mIdxBufDataWrite] = b]
  /\ mIdxBufDataWrite' = mIdxBufDataWrite + 1
  /\ cmdRcvd' = IF b = "End" THEN "yes" ELSE cmdRcvd
  /\ mStateRcv' = IF b # "End" /\ mIdxBufDataWrite' < SzBufInCmd - 1
                  THEN mStateRcv ELSE "StRcvStart"
  /\ UNCHANGED flowRcvd

\* dataReceived(): bytes are ignored until pSwt is there.
byteProcess(b) ==
  /\ mStateDbg # "StStart" /\ mBufTxPending = "no"
  /\ RcvStart(b) \/ RcvContentId(b) \/ RcvContentData(b)
  /\ UNCHANGED <<turn, busy, startVars, mState, mStateCmd, mModeDebug,
                 mValidBuf, txVars, mCntDelay, unsent>>

\* The byte in front of an unsolicited log entry is no content.
dataSent ==
  /\ mBufTxPending = "yes"
  /\ mBufTxPending' = "no"
  /\ unsent' = IF busy = "flow" THEN unsent ELSE unsent \ {mContentIdOut}
  /\ UNCHANGED <<turn, busy, startVars, mState, mStateCmd, mModeDebug,
                 mValidBuf, flowRcvd, cmdRcvd, rcvVars, mContentIdOut,
                 mValidIdTx, mpDataTx, mCntDelay>>

-----------------------------------------------------------------------------
(***************************************************************************)
(* SingleWireTransfering::process().                                       *)
(***************************************************************************)
SwtTick(s) ==
  /\ turn = "swt" /\ busy = "no" /\ mState = s
  /\ turn' = "dbg"
  /\ UNCHANGED startVars

\* The first ticks of a process do not call its process().
Start ==
  /\ SwtTick("StStart")
  /\ mState' \in {"StStart", "StFlowControlRcvdWait"}
  /\ UNCHANGED <<busy, mStateCmd, mModeDebug, mValidBuf, flowRcvd, cmdRcvd,
                 rcvVars, txVars, mCntDelay, unsent>>

\* Mutant: content is sent without debug mode.
FlowControlRcvdWait_AnyMode ==
  /\ SwtTick("StFlowControlRcvdWait")
  /\ \/ cmdRcvd = "yes" /\ mState' = "StCmdReceive" /\ UNCHANGED flowRcvd
     \/ /\ cmdRcvd = "no" /\ flowRcvd = "yes"
        /\ flowRcvd' = "no" /\ mState' = "StContentOutSend"
     \/ /\ cmdRcvd = "no" /\ flowRcvd = "no"
        /\ UNCHANGED <<mState, flowRcvd>>
  /\ UNCHANGED <<busy, mStateCmd, mModeDebug, mValidBuf, cmdRcvd, rcvVars,
                 txVars, mCntDelay, unsent>>

FlowControlRcvdWait ==
  /\ SwtTick("StFlowControlRcvdWait")
  /\ \/ cmdRcvd = "yes" /\ mState' = "StCmdReceive" /\ UNCHANGED flowRcvd
     \/ /\ cmdRcvd = "no" /\ mModeDebug = "on" /\ flowRcvd = "yes"
        /\ flowRcvd' = "no" /\ mState' = "StContentOutSend"
     \/ /\ cmdRcvd = "no" /\ (mModeDebug = "off" \/ flowRcvd = "no")
        /\ UNCHANGED <<mState, flowRcvd>>
  /\ UNCHANGED <<busy, mStateCmd, mModeDebug, mValidBuf, cmdRcvd, rcvVars,
                 txVars, mCntDelay, unsent>>

\* Replies go first; nothing else goes while a command waits.
ToSend ==
  IF "OutCmd" \in mValidBuf THEN {"OutCmd"}
  ELSE IF "InCmd" \in mValidBuf THEN {}
  ELSE IF "OutLog" \in mValidBuf THEN {"OutLog"}
  ELSE mValidBuf \cap {"OutProc"}

\* Starts the transfer of what mpDataTx points to.
contentOutSend(id) == mContentIdOut' = id /\ mBufTxPending' = "yes"

\* With nothing to send, one byte goes out of the buffer used last.
ContentOutSend ==
  /\ SwtTick("StContentOutSend")
  /\ \/ \E c \in ToSend :
          contentOutSend(c) /\ mValidIdTx' = c /\ mpDataTx' = c
     \/ /\ ToSend = {}
        /\ contentOutSend("None") /\ UNCHANGED <<mValidIdTx, mpDataTx>>
  /\ IF mSyncedTransfer = "yes"
     THEN busy' = "content" /\ UNCHANGED mState
     ELSE mState' = "StContentOutSentWait" /\ UNCHANGED busy
  /\ UNCHANGED <<mStateCmd, mModeDebug, mValidBuf, flowRcvd, cmdRcvd,
                 rcvVars, mCntDelay, unsent>>

\* The end of the while loop in process().
SyncedSent ==
  /\ busy = "content" /\ mBufTxPending = "no"
  /\ busy' = "no"
  /\ mState' = "StContentOutSent"
  /\ UNCHANGED <<turn, startVars, mStateCmd, mModeDebug, mValidBuf, flowRcvd,
                 cmdRcvd, rcvVars, txVars, mCntDelay, unsent>>

ContentOutSentWait ==
  /\ SwtTick("StContentOutSentWait")
  /\ mState' = IF mBufTxPending = "yes" THEN mState ELSE "StContentOutSent"
  /\ UNCHANGED <<busy, mStateCmd, mModeDebug, mValidBuf, flowRcvd, cmdRcvd,
                 rcvVars, txVars, mCntDelay, unsent>>

ContentOutSent ==
  /\ SwtTick("StContentOutSent")
  /\ mValidBuf' = mValidBuf \ {mValidIdTx}
  /\ cmdRcvd' = IF mValidIdTx = "OutCmd" THEN "no" ELSE cmdRcvd
  /\ mState' = "StFlowControlRcvdWait"
  /\ UNCHANGED <<busy, mStateCmd, mModeDebug, flowRcvd, rcvVars, txVars,
                 mCntDelay, unsent>>

\* dataInTerminate() looks for the first end mark, whoever left it there.
EndMarks == {i \in 0 .. SzBufInCmd - 2 : mBufInCmd[i] = "End"}

CmdReceive ==
  /\ SwtTick("StCmdReceive")
  /\ \/ /\ EndMarks = {}
        /\ cmdRcvd' = "no" /\ UNCHANGED <<mBufInCmd, mValidBuf>>
     \/ \E i \in EndMarks :
          /\ \A j \in EndMarks : i <= j
          /\ mBufInCmd' = [mBufInCmd EXCEPT ![i] = "zero"]
          /\ mValidBuf' = mValidBuf \cup {"InCmd"}
          /\ UNCHANGED cmdRcvd
  /\ mState' = "StFlowControlRcvdWait"
  /\ UNCHANGED <<busy, mStateCmd, mModeDebug, flowRcvd, mStateRcv,
                 mIdxBufDataWrite, txVars, mCntDelay, unsent>>

-----------------------------------------------------------------------------
(***************************************************************************)
(* SystemDebugging::process(): commandInterpret(), then procTreeSend().    *)
(***************************************************************************)
IsDebugKey == mBufInCmd[0] = "debug" /\ mBufInCmd[1] = "zero"

\* Mutant: a command is interpreted while the last reply still waits.
CmdRcvdWait_ReplyWaits ==
  /\ mStateCmd = "StCmdRcvdWait"
  /\ IF "InCmd" \in mValidBuf
     THEN /\ mStateCmd' = "StCmdInterpret"
          /\ mBufInCmd' = [mBufInCmd EXCEPT ![SzBufInCmd - 1] = "zero"]
     ELSE UNCHANGED <<mStateCmd, mBufInCmd>>
  /\ UNCHANGED mModeDebug

\* The next state of commandInterpret(), the mode and the valid buffers.
CmdRcvdWait ==
  /\ mStateCmd = "StCmdRcvdWait"
  /\ IF "InCmd" \in mValidBuf /\ "OutCmd" \notin mValidBuf
     THEN /\ mStateCmd' = "StCmdInterpret"
          /\ mBufInCmd' = [mBufInCmd EXCEPT ![SzBufInCmd - 1] = "zero"]
     ELSE UNCHANGED <<mStateCmd, mBufInCmd>>
  /\ UNCHANGED mModeDebug

CmdInterpret ==
  /\ mStateCmd = "StCmdInterpret"
  /\ mModeDebug' = IF IsDebugKey THEN "on" ELSE mModeDebug
  /\ mStateCmd' = IF mModeDebug' = "on" THEN "StCmdSendStart" ELSE "StCmdRcvdWait"
  /\ UNCHANGED mBufInCmd

CmdSendStart ==
  /\ mStateCmd = "StCmdSendStart"
  /\ mBufInCmd' = [mBufInCmd EXCEPT ![0] = "zero"]
  /\ mStateCmd' = "StCmdRcvdWait"
  /\ UNCHANGED mModeDebug

\* What commandInterpret() makes of mValidBuf: a reply, or no answer.
ValidAfterCmd ==
  IF mStateCmd = "StCmdSendStart" THEN (mValidBuf \cup {"OutCmd"}) \ {"InCmd"}
  ELSE IF mStateCmd = "StCmdInterpret" /\ mModeDebug' = "off"
       THEN mValidBuf \ {"InCmd"}
  ELSE mValidBuf

\* procTreeSend() offers a picture of the tree now and then.
TreeDrawn ==
  mModeDebug' = "on" /\ mCntDelay = CntDelayMin /\ "OutProc" \notin mValidBuf

\* StStart and StSendReadyWait; synced: logImmediateSendSet() was called.
DbgStart(synced) ==
  /\ turn = "dbg" /\ turn' = "swt" /\ mStateDbg = "StStart"
  /\ mSyncedTransfer' = synced
  /\ mStateDbg' = "StSendReadyWait"
  /\ UNCHANGED <<busy, mState, mStateCmd, mModeDebug, mValidBuf, flowRcvd,
                 cmdRcvd, rcvVars, txVars, mCntDelay, unsent>>

DbgReadyWait ==
  /\ turn = "dbg" /\ turn' = "swt" /\ mStateDbg = "StSendReadyWait"
  /\ mStateDbg' = IF mState = "StStart" THEN mStateDbg ELSE "StMain"
  /\ UNCHANGED <<busy, mSyncedTransfer, mState, mStateCmd, mModeDebug,
                 mValidBuf, flowRcvd, cmdRcvd, rcvVars, txVars, mCntDelay,
                 unsent>>

DbgTick ==
  /\ turn = "dbg" /\ turn' = "swt" /\ busy = "no" /\ mStateDbg = "StMain"
  /\ CmdRcvdWait \/ CmdInterpret \/ CmdSendStart
  /\ mValidBuf' = ValidAfterCmd \cup {b \in {"OutProc"} : TreeDrawn}
  /\ unsent' = unsent \cup (mValidBuf' \ mValidBuf)
  /\ mCntDelay' = IF mModeDebug' = "off" THEN mCntDelay
                  ELSE IF mCntDelay < CntDelayMin THEN mCntDelay + 1
                  ELSE IF TreeDrawn THEN 0 ELSE mCntDelay
  /\ UNCHANGED <<busy, startVars, mState, flowRcvd, cmdRcvd, mStateRcv,
                 mIdxBufDataWrite, txVars>>

\* entryLogEnqueue(), called by any process between two ticks of these; when
\* the buffer is taken, the entry is dropped.  With synced transfers it calls
\* logImmediateSend(), which announces the entry by a byte of its own.
entryLogEnqueue ==
  /\ mStateDbg = "StMain" /\ busy = "no" /\ "OutLog" \notin mValidBuf
  /\ mValidBuf' = mValidBuf \cup {"OutLog"}
  /\ unsent' = unsent \cup {"OutLog"}
  /\ IF mSyncedTransfer = "yes"
     THEN busy' = "flow" /\ mBufTxPending' = "yes"
     ELSE UNCHANGED <<busy, mBufTxPending>>
  /\ UNCHANGED <<turn, startVars, mState, mStateCmd, mModeDebug, flowRcvd,
                 cmdRcvd, rcvVars, mContentIdOut, mValidIdTx, mpDataTx,
                 mCntDelay>>

\* The rest of logImmediateSend(): the entry follows ...
FlowSent ==
  /\ busy = "flow" /\ mBufTxPending = "no"
  /\ busy' = "log"
  /\ contentOutSend("OutLog")
  /\ mValidIdTx' = "OutLog" /\ mpDataTx' = "OutLog"
  /\ UNCHANGED <<turn, startVars, mState, mStateCmd, mModeDebug, mValidBuf,
                 flowRcvd, cmdRcvd, rcvVars, mCntDelay, unsent>>

\* ... and the buffer is free again.
LogSent ==
  /\ busy = "log" /\ mBufTxPending = "no"
  /\ busy' = "no"
  /\ mValidBuf' = mValidBuf \ {"OutLog"}
  /\ UNCHANGED <<turn, startVars, mState, mStateCmd, mModeDebug, flowRcvd,
                 cmdRcvd, rcvVars, txVars, mCntDelay, unsent>>

-----------------------------------------------------------------------------
process ==
  \/ Start \/ FlowControlRcvdWait \/ ContentOutSend \/ SyncedSent
  \/ ContentOutSentWait \/ ContentOutSent \/ CmdReceive

logImmediateSend == FlowSent \/ LogSent

Next ==
  \/ \E b \in Bytes : byteProcess(b)
  \/ \E synced \in {"yes", "no"} : DbgStart(synced)
  \/ dataSent \/ process \/ DbgReadyWait \/ DbgTick
  \/ entryLogEnqueue \/ logImmediateSend

Spec == Init /\ [][Next]_vars

-----------------------------------------------------------------------------
(***************************************************************************)
(* Properties.                                                             *)
(***************************************************************************)

\* contentOutSend() never writes through a null pointer, although mpDataTx is
\* null until something was selected and the transfer of nothing uses the
\* pointer of the transfer before: debug mode is switched on one tick before
\* the reply is offered (SingleWireTransfering.cpp:211, 353;
\* SystemDebugging.cpp:329, 383).
DataTxNotNull ==
  mBufTxPending = "yes" /\ busy # "flow" => mpDataTx # "NULL"

\* What is on its way out is marked valid, so that no writer touches it: they
\* all look at the mark first, commandInterpret() two ticks before it writes
\* (SingleWireTransfering.cpp:240, SystemDebugging.cpp:296, 409, 512).
SentIsValid ==
  /\ mBufTxPending = "yes" /\ mContentIdOut # "None" /\ busy # "flow"
       => mContentIdOut \in mValidBuf
  /\ mStateCmd # "StCmdRcvdWait" => "OutCmd" \notin mValidBuf

\* A reply waits until it was sent; it goes with the highest priority
\* (SingleWireTransfering.cpp:189, 240).
RepliesAreSent ==
  []["OutCmd" \in (mValidBuf \ mValidBuf') => "OutCmd" \notin unsent]_vars
=============================================================================
