-------------------------- MODULE TcpTransfering --------------------------
(***************************************************************************)
(* One TCP connection, TcpTransfering.cpp: the process, ticked by its      *)
(* driver, that opens, watches and closes the socket, and the thread that  *)
(* calls read() and send() meanwhile.  The server gets a connected socket, *)
(* the client connects its own.  mSocketFdMtx makes read(), send(),        *)
(* socketOptionsSet() and shutdown() exclude each other; connect(), poll() *)
(* and getsockopt() use mSocketFd without it, and are steps of their own.  *)
(*                                                                         *)
(* A descriptor number that was closed may be given to another part of the *)
(* program: slot says who uses the number of this connection.              *)
(***************************************************************************)
EXTENDS Naturals

CONSTANTS
  MaxBytes,     \* bound on the bytes the peer sends
  MaxOut,       \* bound on the bytes sent to the peer
  MaxRoom       \* bytes the kernel takes before the peer reads any

ASSUME TcpAssumption == {MaxBytes, MaxOut, MaxRoom} \subseteq Nat \ {0}

VARIABLES
  stage, canceled, success,         \* what Processing keeps of the process
  mState, mReadReady, mSendReady, mDone, mSocketFd, mErrno, mpHostAddr,
  pc, reg, late,                    \* the driver in process(); reg: mSocketFd
  left, done,                       \* a send() that blocks: bytes left, done
  slot, sock, nonBlock,             \* descriptor, connection, O_NONBLOCK
  sent, got, last,                  \* bytes of the peer; the last read()
  out, acc, taken,                  \* bytes in the kernel, reported, taken
  begun, closedBy                   \* history

procVars == <<stage, canceled, success, begun>>
objVars  == <<mState, mReadReady, mSendReady, mDone, mpHostAddr>>
sockVars == <<mSocketFd, mErrno, slot, closedBy>>
drvVars  == <<pc, reg, late>>
callVars == <<left, done>>
inVars   == <<sent, got, last>>
outVars  == <<out, acc, taken>>
netVars  == <<sock, nonBlock>>
vars == <<procVars, objVars, sockVars, drvVars, callVars, inVars, outVars,
          netVars>>

Stages == {"Existent", "Processing", "DownShutting", "Finished"}
ProcState == {"StSrvStart", "StCltStart", "StCltConnDoneWait",
              "StCltConnDone", "StMain"}

TypeOK ==
  /\ stage \in Stages /\ {canceled, begun} \subseteq BOOLEAN
  /\ success \in {"Pending", "Positive", "Negative"}
  /\ mState \in ProcState
  /\ {mReadReady, mSendReady, mDone, late, nonBlock} \subseteq BOOLEAN
  /\ {mSocketFd, reg} \subseteq {"fd", "invalid"}
  /\ mErrno \in {"none", "some"} /\ mpHostAddr \in {"set", "null"}
  /\ pc \in {"idle", "connect", "poll", "sockerr"}
  /\ slot \in {"own", "free", "other"}
  /\ sock \in {"idle", "connecting", "refused", "up", "fin", "reset", "dead"}
  /\ sent \in 0 .. MaxBytes /\ got \in 0 .. sent
  /\ last \in {"none", "data", "nothing", "end"}
  /\ out \in 0 .. MaxOut /\ taken \in 0 .. out /\ out - taken <= MaxRoom
  /\ acc \in 0 .. out /\ left + done \in 0 .. MaxOut
  /\ closedBy \in {"no", "end", "reset", "error", "shutdown"}

\* A server is created for an accepted connection.
InitServer ==
  /\ mState = "StSrvStart" /\ mSendReady = TRUE
  /\ mpHostAddr = "null" /\ mSocketFd = "fd" /\ sock = "up"

\* A client parses the address and creates its socket; both may fail.
InitClient ==
  /\ mState = "StCltStart" /\ mSendReady = FALSE
  /\ mpHostAddr \in {"set", "null"}
  /\ mSocketFd \in {"fd", "invalid"} /\ (mpHostAddr = "null" => mSocketFd = "invalid")
  /\ sock = "idle"

Init ==
  /\ InitServer \/ InitClient
  /\ stage = "Existent" /\ success = "Pending"
  /\ canceled = FALSE /\ begun = FALSE
  /\ mReadReady = FALSE /\ mDone = FALSE /\ mErrno = "none"
  /\ pc = "idle" /\ reg = "invalid" /\ late = FALSE
  /\ left = 0 /\ done = 0
  /\ slot = IF mSocketFd = "fd" THEN "own" ELSE "free"
  /\ nonBlock = FALSE
  /\ sent = 0 /\ got = 0 /\ last = "none"
  /\ out = 0 /\ acc = 0 /\ taken = 0
  /\ closedBy = "no"

-----------------------------------------------------------------------------
(***************************************************************************)
(* The socket.                                                             *)
(***************************************************************************)

\* mSocketFdMtx is free: a send() that blocks holds it.
Unlocked == left = 0

Room == MaxRoom - (out - taken)
Less(x, y) == IF x < y THEN x ELSE y

\* Mutant: mSocketFd keeps the number of the closed socket.
disconnect_KeepsFd(err, why) ==
  IF mSocketFd = "invalid" THEN UNCHANGED sockVars
  ELSE /\ slot' = "free" /\ closedBy' = why
       /\ mErrno' = err
       /\ UNCHANGED mSocketFd

\* Mutant: the error number is not kept.
disconnect_NoErrno(err, why) ==
  IF mSocketFd = "invalid" THEN UNCHANGED sockVars
  ELSE /\ mSocketFd' = "invalid" /\ slot' = "free" /\ closedBy' = why
       /\ UNCHANGED mErrno

\* Closes the socket, once.  why: for closedBy only.
disconnect(err, why) ==
  IF mSocketFd = "invalid" THEN UNCHANGED sockVars
  ELSE /\ mSocketFd' = "invalid" /\ slot' = "free" /\ closedBy' = why
       /\ mErrno' = err

\* Data the peer sent before it closed comes before the end; after a reset or
\* an error the kernel may hand it out or not.
RecvData  == got < sent /\ sock \in {"up", "fin", "reset", "dead"}
RecvAgain == sock = "connecting" \/ (sock = "up" /\ got = sent)
RecvEnd   == sock = "fin" /\ got = sent
RecvReset == sock = "reset"
RecvError == sock \in {"idle", "refused", "dead"}

\* What a recv() that finds no data does to the connection.
RecvFails ==
  \/ RecvEnd /\ disconnect("none", "end")
  \/ RecvReset /\ disconnect("none", "reset")
  \/ RecvError /\ disconnect("some", "error")

-----------------------------------------------------------------------------
(***************************************************************************)
(* The driver: treeTick() and process().                                   *)
(***************************************************************************)
TickExistent ==
  /\ stage = "Existent"
  /\ stage' = IF canceled THEN "Finished" ELSE "Processing"
  /\ begun' = ~canceled
  /\ UNCHANGED <<canceled, success, objVars, sockVars, drvVars, callVars,
                 inVars, outVars, netVars>>

TickCanceled ==
  /\ stage = "Processing" /\ canceled /\ pc = "idle"
  /\ stage' = "DownShutting"
  /\ UNCHANGED <<canceled, success, begun, objVars, sockVars, drvVars,
                 callVars, inVars, outVars, netVars>>

InProcess(st) ==
  stage = "Processing" /\ ~canceled /\ pc = "idle" /\ mState = st

\* process() returns Positive or Negative.
Returns(res) ==
  /\ success' = res
  /\ stage' = "DownShutting"
  /\ UNCHANGED <<canceled, begun>>

\* socketOptionsSet(); ok: the kernel accepts the options.
socketOptionsSet(ok) ==
  /\ Unlocked
  /\ ok => mSocketFd = "fd"
  /\ nonBlock' = (nonBlock \/ ok)
  /\ mReadReady' = (mReadReady \/ ok)

SrvStart(ok) ==
  /\ InProcess("StSrvStart")
  /\ socketOptionsSet(ok)
  /\ IF ok THEN mState' = "StMain" /\ UNCHANGED procVars
           ELSE Returns("Negative") /\ UNCHANGED mState
  /\ UNCHANGED <<mSendReady, mDone, mpHostAddr, sockVars, drvVars, callVars,
                 inVars, outVars, sock>>

\* The constructor had no address or no socket.
CltStartFails ==
  /\ InProcess("StCltStart")
  /\ mpHostAddr = "null" \/ mSocketFd = "invalid"
  /\ Returns("Negative")
  /\ UNCHANGED <<objVars, sockVars, drvVars, callVars, inVars, outVars, netVars>>

\* From here on read() uses the socket, which is not connected yet.
CltStart(ok) ==
  /\ InProcess("StCltStart")
  /\ mpHostAddr = "set"
  /\ socketOptionsSet(ok)
  /\ IF ok THEN pc' = "connect" /\ UNCHANGED procVars
           ELSE Returns("Negative") /\ UNCHANGED pc
  /\ UNCHANGED <<mState, mSendReady, mDone, mpHostAddr, sockVars, reg, late,
                 callVars, inVars, outVars, sock>>

\* connect() of the own socket begins, is done or fails at once; that of a
\* closed one fails, that of somebody else's may do anything.
ConnectResults ==
  CASE slot = "own"   -> {"connecting", "up", "refused"}
    [] slot = "free"  -> {"refused"}
    [] slot = "other" -> {"connecting", "up", "refused"}

Connect(res) ==
  /\ pc = "connect" /\ res \in ConnectResults
  /\ pc' = "idle"
  /\ mpHostAddr' = "null"
  /\ sock' = IF slot = "own" THEN res ELSE sock
  /\ late' = FALSE
  /\ IF res = "refused"
     THEN Returns("Negative") /\ UNCHANGED mState
     ELSE /\ mState' = IF res = "up" THEN "StCltConnDone"
                                     ELSE "StCltConnDoneWait"
          /\ UNCHANGED procVars
  /\ UNCHANGED <<mReadReady, mSendReady, mDone, sockVars, reg, callVars,
                 inVars, outVars, nonBlock>>

ConnTimeout ==
  /\ InProcess("StCltConnDoneWait") /\ late
  /\ Returns("Negative")
  /\ UNCHANGED <<objVars, sockVars, drvVars, callVars, inVars, outVars, netVars>>

\* connClientDone() loads mSocketFd for poll() ...
PollBegins ==
  /\ InProcess("StCltConnDoneWait") /\ ~late
  /\ pc' = "poll" /\ reg' = mSocketFd
  /\ UNCHANGED <<procVars, objVars, sockVars, late, callVars, inVars, outVars,
                 netVars>>

\* The answers of poll(): it ignores -1, and reports a closed number.
PollResults ==
  IF reg = "invalid" THEN {"pending"}
  ELSE CASE slot = "own" -> {IF sock = "connecting" THEN "pending" ELSE "out"}
         [] slot = "free" -> {"failed"}
         [] slot = "other" -> {"pending", "out", "failed"}

\* ... and once more for getsockopt().
Poll(res) ==
  /\ pc = "poll" /\ res \in PollResults
  /\ pc' = IF res = "out" THEN "sockerr" ELSE "idle"
  /\ reg' = IF res = "out" THEN mSocketFd ELSE "invalid"
  /\ IF res = "failed" THEN Returns("Negative") ELSE UNCHANGED procVars
  /\ UNCHANGED <<objVars, sockVars, late, callVars, inVars, outVars, netVars>>

\* Mutant: the error of the socket is not asked for.
SockErrResults_NotAsked == {"ok"}

SockErrResults ==
  IF reg = "invalid" \/ slot = "free" THEN {"error"}
  ELSE IF slot = "other" THEN {"ok", "error"}
  ELSE {IF sock \in {"up", "fin"} THEN "ok" ELSE "error"}

SockErr(res) ==
  /\ pc = "sockerr" /\ res \in SockErrResults
  /\ pc' = "idle" /\ reg' = "invalid"
  /\ IF res = "ok" THEN mState' = "StCltConnDone" /\ UNCHANGED procVars
                   ELSE Returns("Negative") /\ UNCHANGED mState
  /\ UNCHANGED <<mReadReady, mSendReady, mDone, mpHostAddr, sockVars, late,
                 callVars, inVars, outVars, netVars>>

ConnDone ==
  /\ InProcess("StCltConnDone")
  /\ mSendReady' = TRUE
  /\ mState' = "StMain"
  /\ UNCHANGED <<mReadReady, mDone, mpHostAddr, procVars, sockVars, drvVars,
                 callVars, inVars, outVars, netVars>>

MainDone ==
  /\ InProcess("StMain") /\ mDone
  /\ Returns("Positive")
  /\ UNCHANGED <<objVars, sockVars, drvVars, callVars, inVars, outVars, netVars>>

\* Mutant: a connection that read() has closed does not end the process.
WatchEnds_OpenOnly == mSocketFd = "fd" /\ RecvFails

\* Mutant: without a buffer recv() returns 0, which is taken for the end.
WatchEnds_NoBuffer ==
  IF mSocketFd = "fd" THEN RecvFails \/ (RecvData /\ disconnect("none", "end"))
                      ELSE UNCHANGED sockVars

\* read(NULL, 0) looks at the connection and takes nothing from it.
WatchEnds == IF mSocketFd = "fd" THEN RecvFails ELSE UNCHANGED sockVars

\* While there is data, or nothing yet, process() is Pending.
MainClosed ==
  /\ InProcess("StMain") /\ ~mDone /\ Unlocked
  /\ WatchEnds
  /\ Returns(IF mErrno' = "some" THEN "Negative" ELSE "Positive")
  /\ UNCHANGED <<objVars, drvVars, callVars, inVars, outVars, netVars>>

shutdown ==
  /\ stage = "DownShutting" /\ Unlocked
  /\ mpHostAddr' = "null"
  /\ disconnect("none", "shutdown")
  /\ stage' = "Finished"
  /\ UNCHANGED <<canceled, success, begun, mState, mReadReady, mSendReady,
                 mDone, drvVars, callVars, inVars, outVars, netVars>>

\* 2000 ms have passed since connect().
TimePasses ==
  /\ mState = "StCltConnDoneWait" /\ stage = "Processing" /\ ~late
  /\ late' = TRUE
  /\ UNCHANGED <<procVars, objVars, sockVars, pc, reg, callVars, inVars,
                 outVars, netVars>>

-----------------------------------------------------------------------------
(***************************************************************************)
(* The thread that uses the connection, unless it is blocked in send().    *)
(***************************************************************************)
UserFree == left = 0

\* Mutant: a closed socket is taken for one without data.
NoData_NoSocket == ~mReadReady \/ mSocketFd = "invalid" \/ RecvAgain

NoData == ~mReadReady \/ (mSocketFd = "fd" /\ RecvAgain)

\* read() returns 0.
ReadEmpty ==
  /\ UserFree /\ NoData
  /\ last' = "nothing"
  /\ UNCHANGED <<procVars, objVars, sockVars, drvVars, callVars, sent, got,
                 outVars, netVars>>

\* read() returns some of the bytes that have arrived.
ReadSome ==
  /\ UserFree /\ mReadReady
  /\ mSocketFd = "fd" /\ RecvData
  /\ got' \in (got + 1) .. sent
  /\ last' = "data"
  /\ UNCHANGED <<procVars, objVars, sockVars, drvVars, callVars, sent,
                 outVars, netVars>>

\* read() returns a negative number.
ReadFails ==
  /\ UserFree /\ mReadReady
  /\ IF mSocketFd = "fd" THEN RecvFails ELSE UNCHANGED sockVars
  /\ last' = "end"
  /\ UNCHANGED <<procVars, objVars, drvVars, callVars, sent, got, outVars,
                 netVars>>

\* Mutant: the whole length is reported.
Reported_All(k, len) == len

\* Mutant: what was sent before the socket got full is not reported.
Reported_None(k, len) == IF k = len THEN k ELSE 0

\* The return value of a send() of len bytes of which the kernel took k.
Reported(k, len) == k

\* send() hands as much as it can to the kernel, and returns that number.  A
\* server's socket blocks until the first tick: send() waits for the rest.
SendSome(len) ==
  /\ UserFree /\ mSendReady /\ out + len <= MaxOut
  /\ mSocketFd = "fd" /\ sock \in {"up", "fin"}
  /\ LET k == Less(len, Room) IN
       /\ out' = out + k
       /\ IF k = len \/ nonBlock
          THEN acc' = acc + Reported(k, len) /\ UNCHANGED callVars
          ELSE left' = len - k /\ done' = k /\ UNCHANGED acc
  /\ UNCHANGED <<procVars, objVars, sockVars, drvVars, inVars, taken, netVars>>

\* The kernel takes more of a send() that blocks; the last byte ends it.
SendContinues ==
  /\ left > 0 /\ Room > 0 /\ sock \in {"up", "fin"}
  /\ LET k == Less(left, Room) IN
       /\ out' = out + k
       /\ left' = left - k
       /\ done' = IF k = left THEN 0 ELSE done + k
       /\ acc' = IF k = left THEN acc + done + k ELSE acc
  /\ UNCHANGED <<procVars, objVars, sockVars, drvVars, inVars, taken, netVars>>

\* The connection is gone: disconnect() with the error, and a negative number.
SendFails ==
  /\ mSendReady /\ mSocketFd = "fd" /\ sock \in {"reset", "dead"}
  /\ disconnect("some", "error")
  /\ left' = 0 /\ done' = 0
  /\ UNCHANGED <<procVars, objVars, drvVars, inVars, outVars, netVars>>

doneSet ==
  /\ UserFree /\ ~mDone
  /\ mDone' = TRUE
  /\ UNCHANGED <<mState, mReadReady, mSendReady, mpHostAddr, procVars,
                 sockVars, drvVars, callVars, inVars, outVars, netVars>>

\* The parent cancels the process.
Cancel ==
  /\ ~canceled
  /\ canceled' = TRUE
  /\ UNCHANGED <<stage, success, begun, objVars, sockVars, drvVars, callVars,
                 inVars, outVars, netVars>>

-----------------------------------------------------------------------------
(***************************************************************************)
(* The kernel and the peer.                                                *)
(***************************************************************************)
NetChanges(from, to) ==
  /\ slot = "own" /\ sock \in from
  /\ sock' \in to
  /\ UNCHANGED <<procVars, objVars, sockVars, drvVars, callVars, inVars,
                 outVars, nonBlock>>

PeerAnswers  == NetChanges({"connecting"}, {"up", "refused"})
PeerCloses   == NetChanges({"up"}, {"fin"})
PeerResets   == NetChanges({"up", "fin"}, {"reset"})
PeerVanishes == NetChanges({"up"}, {"dead"})   \* keepalive finds no peer

PeerSends ==
  /\ slot = "own" /\ sock = "up" /\ sent < MaxBytes
  /\ sent' = sent + 1
  /\ UNCHANGED <<procVars, objVars, sockVars, drvVars, callVars, got, last,
                 outVars, netVars>>

PeerTakes ==
  /\ slot = "own" /\ sock \in {"up", "fin"} /\ taken < out
  /\ taken' = taken + 1
  /\ UNCHANGED <<procVars, objVars, sockVars, drvVars, callVars, inVars,
                 out, acc, netVars>>

\* Another part of the program opens a file and gets the number.
OtherOpens ==
  /\ slot = "free" /\ pc # "idle"
  /\ slot' = "other"
  /\ UNCHANGED <<mSocketFd, mErrno, closedBy, procVars, objVars, drvVars,
                 callVars, inVars, outVars, netVars>>

-----------------------------------------------------------------------------
Driver ==
  \/ TickExistent \/ TickCanceled \/ shutdown
  \/ \E ok \in BOOLEAN : SrvStart(ok) \/ CltStart(ok)
  \/ CltStartFails \/ ConnTimeout \/ PollBegins
  \/ \E res \in {"connecting", "up", "refused"} : Connect(res)
  \/ \E res \in {"pending", "out", "failed"} : Poll(res)
  \/ \E res \in {"ok", "error"} : SockErr(res)
  \/ ConnDone \/ MainDone \/ MainClosed

Reader == ReadEmpty \/ ReadSome \/ ReadFails

User ==
  \/ Reader
  \/ \E len \in 1 .. MaxOut : SendSome(len)
  \/ SendContinues \/ SendFails \/ doneSet \/ Cancel

Network ==
  \/ PeerAnswers \/ PeerCloses \/ PeerResets \/ PeerVanishes
  \/ PeerSends \/ PeerTakes \/ OtherOpens

Next == Driver \/ TimePasses \/ User \/ Network

Spec == Init /\ [][Next]_vars

(***************************************************************************)
(* The driver ticks, the clock runs, the user goes on reading, and a send()*)
(* that blocks goes on when the kernel can.  The peer owes nothing.        *)
(***************************************************************************)
Fairness ==
  /\ WF_vars(Driver) /\ WF_vars(TimePasses)
  /\ WF_vars(Reader) /\ WF_vars(left > 0 /\ (SendContinues \/ SendFails))

FairSpec == Spec /\ Fairness

-----------------------------------------------------------------------------
\* The driver is about to hand a number to connect(), poll() or getsockopt().
UsesNumber == pc = "connect" \/ (pc \in {"poll", "sockerr"} /\ reg = "fd")

\* What runs under mSocketFdMtx (read(), send(), shutdown()) uses the number of
\* its own socket only, whichever thread closed it.  The calls without the
\* mutex may use a number that was closed and even given to another part of the
\* program, but only if read() or send() has ended the connection meanwhile: it
\* takes a second thread (TcpTransfering.cpp:207, 534, 557).  A finished process
\* leaves socket and address open only if it was canceled in Existent, where
\* treeTick() skips shutdown() (Processing.cpp:200).
SocketIsOwn ==
  /\ mSocketFd = "fd" <=> slot = "own"
  /\ UsesNumber /\ slot # "own" => closedBy \in {"end", "reset", "error"}
  /\ stage = "Finished" /\ (slot = "own" \/ mpHostAddr = "set") => ~begun

\* The connection is closed as ended by the peer only when the user has read
\* all the peer has sent: the look of process() at the connection neither takes
\* data nor hides it (read(), MSG_PEEK).
EndMeansAllRead == closedBy = "end" => got = sent

\* A connection that broke while nobody had asked for its end is reported as
\* failed, whichever thread saw the error (mErrno, read after read()).  A reset
\* that read() sees is no error for the code: the process ends with success
\* (TcpTransfering.cpp:358).
ErrorIsTold ==
  stage = "Finished" /\ closedBy = "error" /\ ~canceled /\ ~mDone
    => success = "Negative"

\* What send() has reported is what the kernel has taken, also when the socket
\* was full in between ("report bytesSent so far (0 if none yet), nothing is
\* lost"): the caller can go on where it stopped.  A send() that fails behind a
\* part reports the error and not the part.
SendReportIsExact == closedBy # "error" /\ left = 0 => acc = out

\* A socket is offered for sending only if it is or was connected, although
\* poll() and getsockopt() run without the mutex.
SendReadyMeansConnected ==
  mSendReady /\ mSocketFd = "fd" => sock \in {"up", "fin", "reset", "dead"}

\* No data will come out of the socket any more.
ConnectionOver ==
  \/ slot # "own" \/ sock = "refused"
  \/ sock \in {"fin", "reset", "dead"} /\ got = sent

\* From mReadReady on read() keeps what the comment of the interface promises.
\* Before, it returns 0 also for a connection that will never be one.
T == INSTANCE Transfering WITH ready <- mReadReady, over <- ConnectionOver
ImplementsTransfering == T!Spec

\* A connection the peer has closed, reset or lost ends its process, if the
\* user goes on reading: data it leaves would hide the end for ever.  A send()
\* on the socket of a server that still blocks may wait for ever, and the
\* process with it: this case is left out.
PeerEndIsSeen ==
  ~<>[](left > 0) =>
    ((begun /\ slot = "own" /\ sock \in {"fin", "reset", "dead"})
       ~> (stage = "Finished"))
=============================================================================
