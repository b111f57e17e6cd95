----------------------- MODULE TcpTransfering_proofs -----------------------
(***************************************************************************)
(* Theorems about TcpTransfering, for every number of bytes and every room *)
(* of the kernel.  Each part of the invariant IInv has a lemma that says    *)
(* that no step breaks it; what a part needs of another is named there.     *)
(***************************************************************************)
EXTENDS TcpTransfering, TLAPS

USE TcpAssumption
USE DEF procVars, objVars, sockVars, drvVars, callVars, inVars, outVars,
        netVars

\* What a send() that blocks still owes fits into the bounds.
Counts ==
  /\ {left, done} \subseteq Nat
  /\ acc + done <= out
  /\ out + left <= MaxOut

TypeInv == TypeOK /\ Counts

\* A socket is closed once: the first reason and its error number stay.
ClosedOnce ==
  /\ mSocketFd = "fd" => closedBy = "no"
  /\ closedBy = "error" => mErrno = "some"

\* After the end, read() has no socket any more.
EndIsFinal == last = "end" => mReadReady /\ mSocketFd = "invalid"

\* The kernel has taken what was reported, and what a send() that blocks has
\* handed over so far.
SendIsExact ==
  /\ left = 0 => done = 0
  /\ closedBy # "error" => out = acc + done

Connected == {"up", "fin", "reset", "dead"}

\* Where the driver may be in which state, and what it knows of the socket.
Position ==
  /\ pc = "connect" => mState = "StCltStart"
  /\ pc \in {"poll", "sockerr"} => mState = "StCltConnDoneWait"
  /\ mSendReady => mState \in {"StSrvStart", "StMain"}
  /\ mState = "StCltConnDone" /\ mSocketFd = "fd" => sock \in Connected

\* A process that ends unasked with success has closed its socket, not after
\* an error.
Told ==
  stage \in {"DownShutting", "Finished"} /\ ~canceled /\ ~mDone
    => success = "Negative" \/ (mSocketFd = "invalid" /\ closedBy # "error")

\* A call of process() takes place while the process is working, and a client
\* that has not called connect() has a fresh socket.
AtWork ==
  /\ pc # "idle" => stage = "Processing"
  /\ mState = "StCltStart" /\ stage \in {"Existent", "Processing"}
       => sock = "idle"

IInv ==
  /\ TypeInv /\ SocketIsOwn /\ AtWork /\ ClosedOnce /\ EndMeansAllRead /\ EndIsFinal
  /\ SendIsExact /\ Position /\ SendReadyMeansConnected /\ Told

-----------------------------------------------------------------------------

LEMMA TypeStep ==
  ASSUME TypeInv, [Next]_vars
  PROVE  TypeInv'
<1>1. ASSUME TickExistent PROVE TypeInv'
  BY <1>1
  DEF TickExistent, TypeInv, TypeOK, Counts, Stages, ProcState
<1>2. ASSUME TickCanceled PROVE TypeInv'
  BY <1>2
  DEF TickCanceled, TypeInv, TypeOK, Counts, Stages, ProcState
<1>3. ASSUME shutdown PROVE TypeInv'
  BY <1>3
  DEF shutdown, Unlocked, disconnect, TypeInv, TypeOK, Counts, Stages,
      ProcState
<1>4. ASSUME NEW ok \in BOOLEAN, SrvStart(ok) PROVE TypeInv'
  BY <1>4
  DEF SrvStart, InProcess, socketOptionsSet, Returns, Unlocked, TypeInv,
      TypeOK, Counts, Stages, ProcState
<1>5. ASSUME NEW ok \in BOOLEAN, CltStart(ok) PROVE TypeInv'
  BY <1>5
  DEF CltStart, InProcess, socketOptionsSet, Returns, Unlocked, TypeInv,
      TypeOK, Counts, Stages, ProcState
<1>6. ASSUME CltStartFails PROVE TypeInv'
  BY <1>6
  DEF CltStartFails, InProcess, Returns, TypeInv, TypeOK, Counts, Stages,
      ProcState
<1>7. ASSUME ConnTimeout PROVE TypeInv'
  BY <1>7
  DEF ConnTimeout, InProcess, Returns, TypeInv, TypeOK, Counts, Stages,
      ProcState
<1>8. ASSUME PollBegins PROVE TypeInv'
  BY <1>8
  DEF PollBegins, InProcess, TypeInv, TypeOK, Counts, Stages, ProcState
<1>9. ASSUME NEW res \in {"connecting", "up", "refused"}, Connect(res)
       PROVE  TypeInv'
  BY <1>9
  DEF Connect, ConnectResults, Returns, TypeInv, TypeOK, Counts, Stages,
      ProcState
<1>10. ASSUME NEW res \in {"pending", "out", "failed"}, Poll(res)
       PROVE  TypeInv'
  BY <1>10
  DEF Poll, PollResults, Returns, TypeInv, TypeOK, Counts, Stages, ProcState
<1>11. ASSUME NEW res \in {"ok", "error"}, SockErr(res) PROVE TypeInv'
  BY <1>11
  DEF SockErr, SockErrResults, Returns, TypeInv, TypeOK, Counts, Stages,
      ProcState
<1>12. ASSUME ConnDone PROVE TypeInv'
  BY <1>12
  DEF ConnDone, InProcess, TypeInv, TypeOK, Counts, Stages, ProcState
<1>13. ASSUME MainDone PROVE TypeInv'
  BY <1>13
  DEF MainDone, InProcess, Returns, TypeInv, TypeOK, Counts, Stages,
      ProcState
<1>14. ASSUME MainClosed PROVE TypeInv'
  BY <1>14
  DEF MainClosed, InProcess, Returns, Unlocked, WatchEnds, RecvFails,
      RecvEnd, RecvReset, RecvError, disconnect, TypeInv, TypeOK, Counts,
      Stages, ProcState
<1>15. ASSUME TimePasses PROVE TypeInv'
  BY <1>15
  DEF TimePasses, TypeInv, TypeOK, Counts, Stages, ProcState
<1>16. ASSUME ReadEmpty PROVE TypeInv'
  BY <1>16
  DEF ReadEmpty, UserFree, NoData, RecvAgain, TypeInv, TypeOK, Counts,
      Stages, ProcState
<1>17. ASSUME ReadSome PROVE TypeInv'
  BY <1>17
  DEF ReadSome, UserFree, RecvData, TypeInv, TypeOK, Counts, Stages,
      ProcState
<1>18. ASSUME ReadFails PROVE TypeInv'
  BY <1>18
  DEF ReadFails, UserFree, RecvFails, RecvEnd, RecvReset, RecvError,
      disconnect, TypeInv, TypeOK, Counts, Stages, ProcState
<1>19. ASSUME NEW len \in 1 .. MaxOut, SendSome(len) PROVE TypeInv'
  BY <1>19
  DEF SendSome, UserFree, Less, Room, Reported, TypeInv, TypeOK, Counts,
      Stages, ProcState
<1>20. ASSUME SendContinues PROVE TypeInv'
  <2> DEFINE k == Less(left, Room)
  <2>1. k \in 1 .. left /\ out + k - taken <= MaxRoom
    BY <1>20 DEF SendContinues, Less, Room, TypeInv, TypeOK, Counts
  <2>2. /\ out' = out + k /\ left' = left - k
        /\ done' = IF k = left THEN 0 ELSE done + k
        /\ acc' = IF k = left THEN acc + done + k ELSE acc
        /\ UNCHANGED <<procVars, objVars, sockVars, drvVars, inVars>>
        /\ UNCHANGED <<taken, netVars>>
    BY <1>20 DEF SendContinues
  <2> HIDE DEF k
  <2>3. Counts'
    BY <2>1, <2>2 DEF TypeInv, TypeOK, Counts
  <2>4. acc' \in 0 .. out' /\ left' + done' \in 0 .. MaxOut
    BY <2>1, <2>2 DEF TypeInv, TypeOK, Counts
  <2>5. QED
    BY <2>1, <2>2, <2>3, <2>4 DEF TypeInv, TypeOK, Counts, Stages, ProcState
<1>21. ASSUME SendFails PROVE TypeInv'
  BY <1>21
  DEF SendFails, disconnect, TypeInv, TypeOK, Counts, Stages, ProcState
<1>22. ASSUME doneSet PROVE TypeInv'
  BY <1>22
  DEF doneSet, UserFree, TypeInv, TypeOK, Counts, Stages, ProcState
<1>23. ASSUME Cancel PROVE TypeInv'
  BY <1>23
  DEF Cancel, TypeInv, TypeOK, Counts, Stages, ProcState
<1>24. ASSUME PeerAnswers PROVE TypeInv'
  BY <1>24
  DEF PeerAnswers, NetChanges, TypeInv, TypeOK, Counts, Stages, ProcState
<1>25. ASSUME PeerCloses PROVE TypeInv'
  BY <1>25
  DEF PeerCloses, NetChanges, TypeInv, TypeOK, Counts, Stages, ProcState
<1>26. ASSUME PeerResets PROVE TypeInv'
  BY <1>26
  DEF PeerResets, NetChanges, TypeInv, TypeOK, Counts, Stages, ProcState
<1>27. ASSUME PeerVanishes PROVE TypeInv'
  BY <1>27
  DEF PeerVanishes, NetChanges, TypeInv, TypeOK, Counts, Stages, ProcState
<1>28. ASSUME PeerSends PROVE TypeInv'
  BY <1>28
  DEF PeerSends, TypeInv, TypeOK, Counts, Stages, ProcState
<1>29. ASSUME PeerTakes PROVE TypeInv'
  BY <1>29
  DEF PeerTakes, TypeInv, TypeOK, Counts, Stages, ProcState
<1>30. ASSUME OtherOpens PROVE TypeInv'
  BY <1>30
  DEF OtherOpens, TypeInv, TypeOK, Counts, Stages, ProcState
<1>31. CASE UNCHANGED vars
  BY <1>31
  DEF vars, TypeInv, TypeOK, Counts, Stages, ProcState
<1>32. QED
  BY <1>1, <1>2, <1>3, <1>4, <1>5, <1>6, <1>7, <1>8, <1>9, <1>10, <1>11,
     <1>12, <1>13, <1>14, <1>15, <1>16, <1>17, <1>18, <1>19, <1>20, <1>21,
     <1>22, <1>23, <1>24, <1>25, <1>26, <1>27, <1>28, <1>29, <1>30, <1>31
  DEF Next, Driver, User, Reader, Network

\* The socket is closed by disconnect() only, and the number is given away only
\* after that; while the driver has a number, only other threads do so.
LEMMA OwnStep ==
  ASSUME TypeInv, AtWork, SocketIsOwn, [Next]_vars
  PROVE  SocketIsOwn'
<1>1. ASSUME TickExistent PROVE SocketIsOwn'
  BY <1>1
  DEF TickExistent, SocketIsOwn, UsesNumber, AtWork, TypeInv, TypeOK, Stages,
      ProcState
<1>2. ASSUME shutdown PROVE SocketIsOwn'
  BY <1>2
  DEF shutdown, Unlocked, disconnect, SocketIsOwn, UsesNumber, AtWork,
      TypeInv, TypeOK, Stages, ProcState
<1>3. ASSUME NEW ok \in BOOLEAN, CltStart(ok)
      PROVE  SocketIsOwn'
  BY <1>3
  DEF CltStart, InProcess, socketOptionsSet, Returns, Unlocked, SocketIsOwn,
      UsesNumber, AtWork, TypeInv, TypeOK, Stages, ProcState
<1>4. ASSUME PollBegins PROVE SocketIsOwn'
  BY <1>4
  DEF PollBegins, InProcess, SocketIsOwn, UsesNumber, AtWork, TypeInv, TypeOK,
      Stages, ProcState
<1>5. ASSUME NEW res \in {"connecting", "up", "refused"}, Connect(res)
      PROVE  SocketIsOwn'
  BY <1>5
  DEF Connect, ConnectResults, Returns, SocketIsOwn, UsesNumber, AtWork,
      TypeInv, TypeOK, Stages, ProcState
<1>6. ASSUME NEW res \in {"pending", "out", "failed"}, Poll(res)
      PROVE  SocketIsOwn'
  BY <1>6
  DEF Poll, PollResults, Returns, SocketIsOwn, UsesNumber, AtWork, TypeInv,
      TypeOK, Stages, ProcState
<1>7. ASSUME NEW res \in {"ok", "error"}, SockErr(res)
      PROVE  SocketIsOwn'
  BY <1>7
  DEF SockErr, SockErrResults, Returns, SocketIsOwn, UsesNumber, AtWork,
      TypeInv, TypeOK, Stages, ProcState
<1>8. ASSUME MainClosed PROVE SocketIsOwn'
  BY <1>8
  DEF MainClosed, InProcess, Returns, Unlocked, WatchEnds, RecvFails,
      disconnect, SocketIsOwn, UsesNumber, AtWork, TypeInv, TypeOK, Stages,
      ProcState
<1>9. ASSUME ReadFails PROVE SocketIsOwn'
  BY <1>9
  DEF ReadFails, RecvFails, disconnect, SocketIsOwn, UsesNumber, AtWork,
      TypeInv, TypeOK, Stages, ProcState
<1>10. ASSUME SendFails PROVE SocketIsOwn'
  BY <1>10
  DEF SendFails, disconnect, SocketIsOwn, UsesNumber, AtWork, TypeInv, TypeOK,
      Stages, ProcState
<1>11. ASSUME OtherOpens PROVE SocketIsOwn'
  BY <1>11
  DEF OtherOpens, SocketIsOwn, UsesNumber, AtWork, TypeInv, TypeOK, Stages,
      ProcState
<1>12. CASE UNCHANGED vars
  BY <1>12
  DEF vars, SocketIsOwn, UsesNumber, AtWork, TypeInv, TypeOK, Stages,
      ProcState
<1>13. CASE \/ TickCanceled \/ CltStartFails \/ ConnTimeout
            \/ ConnDone \/ MainDone \/ TimePasses \/ ReadEmpty
            \/ ReadSome \/ SendContinues \/ doneSet \/ Cancel
            \/ PeerAnswers \/ PeerCloses \/ PeerResets \/ PeerVanishes
            \/ PeerSends \/ PeerTakes
            \/ \E ok \in BOOLEAN : SrvStart(ok)
            \/ \E len \in 1 .. MaxOut : SendSome(len)
  BY <1>13
  DEF TickCanceled, SrvStart, InProcess, socketOptionsSet, Returns, Unlocked,
      CltStartFails, ConnTimeout, ConnDone, MainDone, TimePasses, ReadEmpty,
      ReadSome, SendSome, SendContinues, doneSet, Cancel, PeerAnswers,
      NetChanges, PeerCloses, PeerResets, PeerVanishes, PeerSends, PeerTakes,
      SocketIsOwn, UsesNumber, AtWork, TypeInv, TypeOK, Stages, ProcState
<1>14. QED
  BY <1>1, <1>2, <1>3, <1>4, <1>5, <1>6, <1>7, <1>8, <1>9, <1>10, <1>11,
     <1>12, <1>13
  DEF Next, Driver, User, Reader, Network

\* connect() is called once, and the driver leaves process() before it ticks.
LEMMA AtWorkStep ==
  ASSUME TypeInv, AtWork, Position, [Next]_vars
  PROVE  AtWork'
<1>1. ASSUME TickExistent PROVE AtWork'
  BY <1>1
  DEF TickExistent, AtWork, Position, TypeInv, TypeOK, Stages, ProcState
<1>2. ASSUME TickCanceled PROVE AtWork'
  BY <1>2
  DEF TickCanceled, AtWork, Position, TypeInv, TypeOK, Stages, ProcState
<1>3. ASSUME shutdown PROVE AtWork'
  BY <1>3
  DEF shutdown, Unlocked, disconnect, AtWork, Position, TypeInv, TypeOK,
      Stages, ProcState
<1>4. ASSUME NEW ok \in BOOLEAN, CltStart(ok)
      PROVE  AtWork'
  BY <1>4
  DEF CltStart, InProcess, socketOptionsSet, Returns, Unlocked, AtWork,
      Position, TypeInv, TypeOK, Stages, ProcState
<1>5. ASSUME NEW res \in {"connecting", "up", "refused"}, Connect(res)
      PROVE  AtWork'
  BY <1>5
  DEF Connect, ConnectResults, Returns, AtWork, Position, TypeInv, TypeOK,
      Stages, ProcState
<1>6. ASSUME NEW res \in {"pending", "out", "failed"}, Poll(res)
      PROVE  AtWork'
  BY <1>6
  DEF Poll, PollResults, Returns, AtWork, Position, TypeInv, TypeOK, Stages,
      ProcState
<1>7. ASSUME NEW res \in {"ok", "error"}, SockErr(res)
      PROVE  AtWork'
  BY <1>7
  DEF SockErr, SockErrResults, Returns, AtWork, Position, TypeInv, TypeOK,
      Stages, ProcState
<1>8. ASSUME PeerAnswers PROVE AtWork'
  BY <1>8
  DEF PeerAnswers, NetChanges, AtWork, Position, TypeInv, TypeOK, Stages,
      ProcState
<1>9. ASSUME PeerCloses PROVE AtWork'
  BY <1>9
  DEF PeerCloses, NetChanges, AtWork, Position, TypeInv, TypeOK, Stages,
      ProcState
<1>10. ASSUME PeerResets PROVE AtWork'
  BY <1>10
  DEF PeerResets, NetChanges, AtWork, Position, TypeInv, TypeOK, Stages,
      ProcState
<1>11. ASSUME PeerVanishes PROVE AtWork'
  BY <1>11
  DEF PeerVanishes, NetChanges, AtWork, Position, TypeInv, TypeOK, Stages,
      ProcState
<1>12. CASE UNCHANGED vars
  BY <1>12
  DEF vars, AtWork, Position, TypeInv, TypeOK, Stages, ProcState
<1>13. CASE \/ CltStartFails \/ ConnTimeout \/ PollBegins \/ ConnDone
            \/ MainDone \/ MainClosed \/ TimePasses \/ ReadEmpty
            \/ ReadSome \/ ReadFails \/ SendContinues \/ SendFails
            \/ doneSet \/ Cancel \/ PeerSends \/ PeerTakes
            \/ OtherOpens
            \/ \E ok \in BOOLEAN : SrvStart(ok)
            \/ \E len \in 1 .. MaxOut : SendSome(len)
  BY <1>13
  DEF SrvStart, InProcess, socketOptionsSet, Returns, Unlocked, CltStartFails,
      ConnTimeout, PollBegins, ConnDone, MainDone, MainClosed, WatchEnds,
      RecvFails, disconnect, TimePasses, ReadEmpty, ReadSome, ReadFails,
      SendSome, SendContinues, SendFails, doneSet, Cancel, PeerSends,
      PeerTakes, OtherOpens, AtWork, Position, TypeInv, TypeOK, Stages,
      ProcState
<1>14. QED
  BY <1>1, <1>2, <1>3, <1>4, <1>5, <1>6, <1>7, <1>8, <1>9, <1>10, <1>11,
     <1>12, <1>13
  DEF Next, Driver, User, Reader, Network

\* disconnect() does nothing to a closed socket.
LEMMA ClosedStep ==
  ASSUME TypeInv, ClosedOnce, [Next]_vars
  PROVE  ClosedOnce'
<1>1. ASSUME shutdown PROVE ClosedOnce'
  BY <1>1
  DEF shutdown, Unlocked, disconnect, ClosedOnce, TypeInv, TypeOK, Counts,
      Stages, ProcState
<1>2. ASSUME MainClosed PROVE ClosedOnce'
  BY <1>2
  DEF MainClosed, InProcess, Returns, Unlocked, WatchEnds, RecvFails,
      RecvEnd, RecvReset, RecvError, disconnect, ClosedOnce, TypeInv,
      TypeOK, Counts, Stages, ProcState
<1>3. ASSUME ReadFails PROVE ClosedOnce'
  BY <1>3
  DEF ReadFails, UserFree, RecvFails, RecvEnd, RecvReset, RecvError,
      disconnect, ClosedOnce, TypeInv, TypeOK, Counts, Stages, ProcState
<1>4. ASSUME SendFails PROVE ClosedOnce'
  BY <1>4
  DEF SendFails, disconnect, ClosedOnce, TypeInv, TypeOK, Counts, Stages,
      ProcState
<1>5. CASE UNCHANGED vars
  BY <1>5
  DEF vars, ClosedOnce, TypeInv, TypeOK, Counts, Stages, ProcState
<1>6. CASE \/ TickExistent \/ TickCanceled \/ CltStartFails
           \/ ConnTimeout \/ PollBegins \/ ConnDone \/ MainDone
           \/ TimePasses \/ ReadEmpty \/ ReadSome \/ SendContinues
           \/ doneSet \/ Cancel \/ PeerAnswers \/ PeerCloses
           \/ PeerResets \/ PeerVanishes \/ PeerSends \/ PeerTakes
           \/ OtherOpens
           \/ \E ok \in BOOLEAN : SrvStart(ok)
           \/ \E ok \in BOOLEAN : CltStart(ok)
           \/ \E res \in {"connecting", "up", "refused"} : Connect(res)
           \/ \E res \in {"pending", "out", "failed"} : Poll(res)
           \/ \E res \in {"ok", "error"} : SockErr(res)
           \/ \E len \in 1 .. MaxOut : SendSome(len)
  BY <1>6
  DEF TickExistent, TickCanceled, SrvStart, InProcess, socketOptionsSet,
      Returns, Unlocked, CltStart, CltStartFails, ConnTimeout, PollBegins,
      Connect, ConnectResults, Poll, PollResults, SockErr, SockErrResults,
      ConnDone, MainDone, TimePasses, ReadEmpty, UserFree, NoData,
      RecvAgain, ReadSome, RecvData, SendSome, Less, Room, Reported,
      SendContinues, doneSet, Cancel, PeerAnswers, NetChanges, PeerCloses,
      PeerResets, PeerVanishes, PeerSends, PeerTakes, OtherOpens,
      ClosedOnce, TypeInv, TypeOK, Counts, Stages, ProcState
<1>7. QED
  BY <1>1, <1>2, <1>3, <1>4, <1>5, <1>6
  DEF Next, Driver, User, Reader, Network

\* A peer that has closed sends nothing more.
LEMMA AllReadStep ==
  ASSUME TypeInv, SocketIsOwn, ClosedOnce, EndMeansAllRead, [Next]_vars
  PROVE  EndMeansAllRead'
<1>1. ASSUME shutdown PROVE EndMeansAllRead'
  BY <1>1
  DEF shutdown, Unlocked, disconnect, EndMeansAllRead, SocketIsOwn,
      ClosedOnce, TypeInv, TypeOK, Counts, Stages, ProcState
<1>2. ASSUME MainClosed PROVE EndMeansAllRead'
  BY <1>2
  DEF MainClosed, InProcess, Returns, Unlocked, WatchEnds, RecvFails,
      RecvEnd, RecvReset, RecvError, disconnect, EndMeansAllRead,
      SocketIsOwn, ClosedOnce, TypeInv, TypeOK, Counts, Stages, ProcState
<1>3. ASSUME ReadSome PROVE EndMeansAllRead'
  BY <1>3
  DEF ReadSome, UserFree, RecvData, EndMeansAllRead, SocketIsOwn,
      ClosedOnce, TypeInv, TypeOK, Counts, Stages, ProcState
<1>4. ASSUME ReadFails PROVE EndMeansAllRead'
  BY <1>4
  DEF ReadFails, UserFree, RecvFails, RecvEnd, RecvReset, RecvError,
      disconnect, EndMeansAllRead, SocketIsOwn, ClosedOnce, TypeInv, TypeOK,
      Counts, Stages, ProcState
<1>5. ASSUME SendFails PROVE EndMeansAllRead'
  BY <1>5
  DEF SendFails, disconnect, EndMeansAllRead, SocketIsOwn, ClosedOnce,
      TypeInv, TypeOK, Counts, Stages, ProcState
<1>6. ASSUME PeerSends PROVE EndMeansAllRead'
  BY <1>6
  DEF PeerSends, EndMeansAllRead, SocketIsOwn, ClosedOnce, TypeInv, TypeOK,
      Counts, Stages, ProcState
<1>7. CASE UNCHANGED vars
  BY <1>7
  DEF vars, EndMeansAllRead, SocketIsOwn, ClosedOnce, TypeInv, TypeOK,
      Counts, Stages, ProcState
<1>8. CASE \/ TickExistent \/ TickCanceled \/ CltStartFails
           \/ ConnTimeout \/ PollBegins \/ ConnDone \/ MainDone
           \/ TimePasses \/ ReadEmpty \/ SendContinues \/ doneSet
           \/ Cancel \/ PeerAnswers \/ PeerCloses \/ PeerResets
           \/ PeerVanishes \/ PeerTakes \/ OtherOpens
           \/ \E ok \in BOOLEAN : SrvStart(ok)
           \/ \E ok \in BOOLEAN : CltStart(ok)
           \/ \E res \in {"connecting", "up", "refused"} : Connect(res)
           \/ \E res \in {"pending", "out", "failed"} : Poll(res)
           \/ \E res \in {"ok", "error"} : SockErr(res)
           \/ \E len \in 1 .. MaxOut : SendSome(len)
  BY <1>8
  DEF TickExistent, TickCanceled, SrvStart, InProcess, socketOptionsSet,
      Returns, Unlocked, CltStart, CltStartFails, ConnTimeout, PollBegins,
      Connect, ConnectResults, Poll, PollResults, SockErr, SockErrResults,
      ConnDone, MainDone, TimePasses, ReadEmpty, UserFree, NoData,
      RecvAgain, SendSome, Less, Room, Reported, SendContinues, doneSet,
      Cancel, PeerAnswers, NetChanges, PeerCloses, PeerResets, PeerVanishes,
      PeerTakes, OtherOpens, EndMeansAllRead, SocketIsOwn, ClosedOnce,
      TypeInv, TypeOK, Counts, Stages, ProcState
<1>9. QED
  BY <1>1, <1>2, <1>3, <1>4, <1>5, <1>6, <1>7, <1>8
  DEF Next, Driver, User, Reader, Network

LEMMA FinalStep ==
  ASSUME TypeInv, EndIsFinal, [Next]_vars
  PROVE  EndIsFinal'
<1>1. ASSUME shutdown PROVE EndIsFinal'
  BY <1>1
  DEF shutdown, Unlocked, disconnect, EndIsFinal, TypeInv, TypeOK, Counts,
      Stages, ProcState
<1>2. ASSUME NEW ok \in BOOLEAN, SrvStart(ok) PROVE EndIsFinal'
  BY <1>2
  DEF SrvStart, InProcess, socketOptionsSet, Returns, Unlocked, EndIsFinal,
      TypeInv, TypeOK, Counts, Stages, ProcState
<1>3. ASSUME NEW ok \in BOOLEAN, CltStart(ok) PROVE EndIsFinal'
  BY <1>3
  DEF CltStart, InProcess, socketOptionsSet, Returns, Unlocked, EndIsFinal,
      TypeInv, TypeOK, Counts, Stages, ProcState
<1>4. ASSUME MainClosed PROVE EndIsFinal'
  BY <1>4
  DEF MainClosed, InProcess, Returns, Unlocked, WatchEnds, RecvFails,
      RecvEnd, RecvReset, RecvError, disconnect, EndIsFinal, TypeInv,
      TypeOK, Counts, Stages, ProcState
<1>5. ASSUME ReadEmpty PROVE EndIsFinal'
  BY <1>5
  DEF ReadEmpty, UserFree, NoData, RecvAgain, EndIsFinal, TypeInv, TypeOK,
      Counts, Stages, ProcState
<1>6. ASSUME ReadSome PROVE EndIsFinal'
  BY <1>6
  DEF ReadSome, UserFree, RecvData, EndIsFinal, TypeInv, TypeOK, Counts,
      Stages, ProcState
<1>7. ASSUME ReadFails PROVE EndIsFinal'
  BY <1>7
  DEF ReadFails, UserFree, RecvFails, RecvEnd, RecvReset, RecvError,
      disconnect, EndIsFinal, TypeInv, TypeOK, Counts, Stages, ProcState
<1>8. ASSUME SendFails PROVE EndIsFinal'
  BY <1>8
  DEF SendFails, disconnect, EndIsFinal, TypeInv, TypeOK, Counts, Stages,
      ProcState
<1>9. CASE UNCHANGED vars
  BY <1>9
  DEF vars, EndIsFinal, TypeInv, TypeOK, Counts, Stages, ProcState
<1>10. CASE \/ TickExistent \/ TickCanceled \/ CltStartFails
            \/ ConnTimeout \/ PollBegins \/ ConnDone \/ MainDone
            \/ TimePasses \/ SendContinues \/ doneSet \/ Cancel
            \/ PeerAnswers \/ PeerCloses \/ PeerResets \/ PeerVanishes
            \/ PeerSends \/ PeerTakes \/ OtherOpens
            \/ \E res \in {"connecting", "up", "refused"} : Connect(res)
            \/ \E res \in {"pending", "out", "failed"} : Poll(res)
            \/ \E res \in {"ok", "error"} : SockErr(res)
            \/ \E len \in 1 .. MaxOut : SendSome(len)
  BY <1>10
  DEF TickExistent, TickCanceled, CltStartFails, InProcess, Returns,
      ConnTimeout, PollBegins, Connect, ConnectResults, Poll, PollResults,
      SockErr, SockErrResults, ConnDone, MainDone, TimePasses, SendSome,
      UserFree, Less, Room, Reported, SendContinues, doneSet, Cancel,
      PeerAnswers, NetChanges, PeerCloses, PeerResets, PeerVanishes,
      PeerSends, PeerTakes, OtherOpens, EndIsFinal, TypeInv, TypeOK, Counts,
      Stages, ProcState
<1>11. QED
  BY <1>1, <1>2, <1>3, <1>4, <1>5, <1>6, <1>7, <1>8, <1>9, <1>10
  DEF Next, Driver, User, Reader, Network

\* A send() that fails half-way gives up the connection with the count.
LEMMA ExactStep ==
  ASSUME TypeInv, ClosedOnce, SendIsExact, [Next]_vars
  PROVE  SendIsExact'
<1>1. ASSUME shutdown PROVE SendIsExact'
  BY <1>1
  DEF shutdown, Unlocked, disconnect, SendIsExact, ClosedOnce, TypeInv,
      TypeOK, Counts, Stages, ProcState
<1>2. ASSUME MainClosed PROVE SendIsExact'
  BY <1>2
  DEF MainClosed, InProcess, Returns, Unlocked, WatchEnds, RecvFails,
      RecvEnd, RecvReset, RecvError, disconnect, SendIsExact, ClosedOnce,
      TypeInv, TypeOK, Counts, Stages, ProcState
<1>3. ASSUME ReadFails PROVE SendIsExact'
  BY <1>3
  DEF ReadFails, UserFree, RecvFails, RecvEnd, RecvReset, RecvError,
      disconnect, SendIsExact, ClosedOnce, TypeInv, TypeOK, Counts, Stages,
      ProcState
<1>4. ASSUME NEW len \in 1 .. MaxOut, SendSome(len) PROVE SendIsExact'
  BY <1>4
  DEF SendSome, UserFree, Less, Room, Reported, SendIsExact, ClosedOnce,
      TypeInv, TypeOK, Counts, Stages, ProcState
<1>5. ASSUME SendContinues PROVE SendIsExact'
  BY <1>5
  DEF SendContinues, Less, Room, SendIsExact, ClosedOnce, TypeInv, TypeOK,
      Counts, Stages, ProcState
<1>6. ASSUME SendFails PROVE SendIsExact'
  BY <1>6
  DEF SendFails, disconnect, SendIsExact, ClosedOnce, TypeInv, TypeOK,
      Counts, Stages, ProcState
<1>7. CASE UNCHANGED vars
  BY <1>7
  DEF vars, SendIsExact, ClosedOnce, TypeInv, TypeOK, Counts, Stages,
      ProcState
<1>8. CASE \/ TickExistent \/ TickCanceled \/ CltStartFails
           \/ ConnTimeout \/ PollBegins \/ ConnDone \/ MainDone
           \/ TimePasses \/ ReadEmpty \/ ReadSome \/ doneSet
           \/ Cancel \/ PeerAnswers \/ PeerCloses \/ PeerResets
           \/ PeerVanishes \/ PeerSends \/ PeerTakes \/ OtherOpens
           \/ \E ok \in BOOLEAN : SrvStart(ok)
           \/ \E ok \in BOOLEAN : CltStart(ok)
           \/ \E res \in {"connecting", "up", "refused"} : Connect(res)
           \/ \E res \in {"pending", "out", "failed"} : Poll(res)
           \/ \E res \in {"ok", "error"} : SockErr(res)
  BY <1>8
  DEF TickExistent, TickCanceled, SrvStart, InProcess, socketOptionsSet,
      Returns, Unlocked, CltStart, CltStartFails, ConnTimeout, PollBegins,
      Connect, ConnectResults, Poll, PollResults, SockErr, SockErrResults,
      ConnDone, MainDone, TimePasses, ReadEmpty, UserFree, NoData,
      RecvAgain, ReadSome, RecvData, doneSet, Cancel, PeerAnswers,
      NetChanges, PeerCloses, PeerResets, PeerVanishes, PeerSends,
      PeerTakes, OtherOpens, SendIsExact, ClosedOnce, TypeInv, TypeOK,
      Counts, Stages, ProcState
<1>9. QED
  BY <1>1, <1>2, <1>3, <1>4, <1>5, <1>6, <1>7, <1>8
  DEF Next, Driver, User, Reader, Network

\* getsockopt() is asked about the socket poll() has looked at, unless it has
\* been closed in between: then it fails, or speaks of a socket of others.
LEMMA PositionStep ==
  ASSUME TypeInv, SocketIsOwn, Position, [Next]_vars
  PROVE  Position'
<1>1. ASSUME shutdown PROVE Position'
  BY <1>1
  DEF shutdown, Unlocked, disconnect, Position, Connected, SocketIsOwn,
      TypeInv, TypeOK, Counts, Stages, ProcState
<1>2. ASSUME NEW ok \in BOOLEAN, SrvStart(ok) PROVE Position'
  BY <1>2
  DEF SrvStart, InProcess, socketOptionsSet, Returns, Unlocked, Position,
      Connected, SocketIsOwn, TypeInv, TypeOK, Counts, Stages, ProcState
<1>3. ASSUME NEW ok \in BOOLEAN, CltStart(ok) PROVE Position'
  BY <1>3
  DEF CltStart, InProcess, socketOptionsSet, Returns, Unlocked, Position,
      Connected, SocketIsOwn, TypeInv, TypeOK, Counts, Stages, ProcState
<1>4. ASSUME PollBegins PROVE Position'
  BY <1>4
  DEF PollBegins, InProcess, Position, Connected, SocketIsOwn, TypeInv,
      TypeOK, Counts, Stages, ProcState
<1>5. ASSUME NEW res \in {"connecting", "up", "refused"}, Connect(res)
       PROVE  Position'
  BY <1>5
  DEF Connect, ConnectResults, Returns, Position, Connected, SocketIsOwn,
      TypeInv, TypeOK, Counts, Stages, ProcState
<1>6. ASSUME NEW res \in {"pending", "out", "failed"}, Poll(res)
       PROVE  Position'
  BY <1>6
  DEF Poll, PollResults, Returns, Position, Connected, SocketIsOwn, TypeInv,
      TypeOK, Counts, Stages, ProcState
<1>7. ASSUME NEW res \in {"ok", "error"}, SockErr(res) PROVE Position'
  BY <1>7
  DEF SockErr, SockErrResults, Returns, Position, Connected, SocketIsOwn,
      TypeInv, TypeOK, Counts, Stages, ProcState
<1>8. ASSUME ConnDone PROVE Position'
  BY <1>8
  DEF ConnDone, InProcess, Position, Connected, SocketIsOwn, TypeInv,
      TypeOK, Counts, Stages, ProcState
<1>9. ASSUME MainClosed PROVE Position'
  BY <1>9
  DEF MainClosed, InProcess, Returns, Unlocked, WatchEnds, RecvFails,
      RecvEnd, RecvReset, RecvError, disconnect, Position, Connected,
      SocketIsOwn, TypeInv, TypeOK, Counts, Stages, ProcState
<1>10. ASSUME ReadFails PROVE Position'
  BY <1>10
  DEF ReadFails, UserFree, RecvFails, RecvEnd, RecvReset, RecvError,
      disconnect, Position, Connected, SocketIsOwn, TypeInv, TypeOK, Counts,
      Stages, ProcState
<1>11. ASSUME SendFails PROVE Position'
  BY <1>11
  DEF SendFails, disconnect, Position, Connected, SocketIsOwn, TypeInv,
      TypeOK, Counts, Stages, ProcState
<1>12. ASSUME PeerAnswers PROVE Position'
  BY <1>12
  DEF PeerAnswers, NetChanges, Position, Connected, SocketIsOwn, TypeInv,
      TypeOK, Counts, Stages, ProcState
<1>13. ASSUME PeerCloses PROVE Position'
  BY <1>13
  DEF PeerCloses, NetChanges, Position, Connected, SocketIsOwn, TypeInv,
      TypeOK, Counts, Stages, ProcState
<1>14. ASSUME PeerResets PROVE Position'
  BY <1>14
  DEF PeerResets, NetChanges, Position, Connected, SocketIsOwn, TypeInv,
      TypeOK, Counts, Stages, ProcState
<1>15. ASSUME PeerVanishes PROVE Position'
  BY <1>15
  DEF PeerVanishes, NetChanges, Position, Connected, SocketIsOwn, TypeInv,
      TypeOK, Counts, Stages, ProcState
<1>16. CASE UNCHANGED vars
  BY <1>16
  DEF vars, Position, Connected, SocketIsOwn, TypeInv, TypeOK, Counts,
      Stages, ProcState
<1>17. CASE \/ TickExistent \/ TickCanceled \/ CltStartFails
            \/ ConnTimeout \/ MainDone \/ TimePasses \/ ReadEmpty
            \/ ReadSome \/ SendContinues \/ doneSet \/ Cancel
            \/ PeerSends \/ PeerTakes \/ OtherOpens
            \/ \E len \in 1 .. MaxOut : SendSome(len)
  BY <1>17
  DEF TickExistent, TickCanceled, CltStartFails, InProcess, Returns,
      ConnTimeout, MainDone, TimePasses, ReadEmpty, UserFree, NoData,
      RecvAgain, ReadSome, RecvData, SendSome, Less, Room, Reported,
      SendContinues, doneSet, Cancel, PeerSends, PeerTakes, OtherOpens,
      Position, Connected, SocketIsOwn, TypeInv, TypeOK, Counts, Stages,
      ProcState
<1>18. QED
  BY <1>1, <1>2, <1>3, <1>4, <1>5, <1>6, <1>7, <1>8, <1>9, <1>10, <1>11,
     <1>12, <1>13, <1>14, <1>15, <1>16, <1>17
  DEF Next, Driver, User, Reader, Network

LEMMA ConnectedStep ==
  ASSUME TypeInv, SocketIsOwn, Position, SendReadyMeansConnected, [Next]_vars
  PROVE  SendReadyMeansConnected'
<1>1. ASSUME shutdown PROVE SendReadyMeansConnected'
  BY <1>1
  DEF shutdown, Unlocked, disconnect, SendReadyMeansConnected, Position,
      Connected, SocketIsOwn, TypeInv, TypeOK, Counts, Stages, ProcState
<1>2. ASSUME NEW res \in {"connecting", "up", "refused"}, Connect(res)
       PROVE  SendReadyMeansConnected'
  BY <1>2
  DEF Connect, ConnectResults, Returns, SendReadyMeansConnected, Position,
      Connected, SocketIsOwn, TypeInv, TypeOK, Counts, Stages, ProcState
<1>3. ASSUME ConnDone PROVE SendReadyMeansConnected'
  BY <1>3
  DEF ConnDone, InProcess, SendReadyMeansConnected, Position, Connected,
      SocketIsOwn, TypeInv, TypeOK, Counts, Stages, ProcState
<1>4. ASSUME MainClosed PROVE SendReadyMeansConnected'
  BY <1>4
  DEF MainClosed, InProcess, Returns, Unlocked, WatchEnds, RecvFails,
      RecvEnd, RecvReset, RecvError, disconnect, SendReadyMeansConnected,
      Position, Connected, SocketIsOwn, TypeInv, TypeOK, Counts, Stages,
      ProcState
<1>5. ASSUME ReadFails PROVE SendReadyMeansConnected'
  BY <1>5
  DEF ReadFails, UserFree, RecvFails, RecvEnd, RecvReset, RecvError,
      disconnect, SendReadyMeansConnected, Position, Connected, SocketIsOwn,
      TypeInv, TypeOK, Counts, Stages, ProcState
<1>6. ASSUME SendFails PROVE SendReadyMeansConnected'
  BY <1>6
  DEF SendFails, disconnect, SendReadyMeansConnected, Position, Connected,
      SocketIsOwn, TypeInv, TypeOK, Counts, Stages, ProcState
<1>7. ASSUME PeerAnswers PROVE SendReadyMeansConnected'
  BY <1>7
  DEF PeerAnswers, NetChanges, SendReadyMeansConnected, Position, Connected,
      SocketIsOwn, TypeInv, TypeOK, Counts, Stages, ProcState
<1>8. ASSUME PeerCloses PROVE SendReadyMeansConnected'
  BY <1>8
  DEF PeerCloses, NetChanges, SendReadyMeansConnected, Position, Connected,
      SocketIsOwn, TypeInv, TypeOK, Counts, Stages, ProcState
<1>9. ASSUME PeerResets PROVE SendReadyMeansConnected'
  BY <1>9
  DEF PeerResets, NetChanges, SendReadyMeansConnected, Position, Connected,
      SocketIsOwn, TypeInv, TypeOK, Counts, Stages, ProcState
<1>10. ASSUME PeerVanishes PROVE SendReadyMeansConnected'
  BY <1>10
  DEF PeerVanishes, NetChanges, SendReadyMeansConnected, Position,
      Connected, SocketIsOwn, TypeInv, TypeOK, Counts, Stages, ProcState
<1>11. CASE UNCHANGED vars
  BY <1>11
  DEF vars, SendReadyMeansConnected, Position, Connected, SocketIsOwn,
      TypeInv, TypeOK, Counts, Stages, ProcState
<1>12. CASE \/ TickExistent \/ TickCanceled \/ CltStartFails
            \/ ConnTimeout \/ PollBegins \/ MainDone \/ TimePasses
            \/ ReadEmpty \/ ReadSome \/ SendContinues \/ doneSet
            \/ Cancel \/ PeerSends \/ PeerTakes \/ OtherOpens
            \/ \E ok \in BOOLEAN : SrvStart(ok)
            \/ \E ok \in BOOLEAN : CltStart(ok)
            \/ \E res \in {"pending", "out", "failed"} : Poll(res)
            \/ \E res \in {"ok", "error"} : SockErr(res)
            \/ \E len \in 1 .. MaxOut : SendSome(len)
  BY <1>12
  DEF TickExistent, TickCanceled, SrvStart, InProcess, socketOptionsSet,
      Returns, Unlocked, CltStart, CltStartFails, ConnTimeout, PollBegins,
      Poll, PollResults, SockErr, SockErrResults, MainDone, TimePasses,
      ReadEmpty, UserFree, NoData, RecvAgain, ReadSome, RecvData, SendSome,
      Less, Room, Reported, SendContinues, doneSet, Cancel, PeerSends,
      PeerTakes, OtherOpens, SendReadyMeansConnected, Position, Connected,
      SocketIsOwn, TypeInv, TypeOK, Counts, Stages, ProcState
<1>13. QED
  BY <1>1, <1>2, <1>3, <1>4, <1>5, <1>6, <1>7, <1>8, <1>9, <1>10, <1>11,
     <1>12
  DEF Next, Driver, User, Reader, Network

\* process() looks at mErrno after read(), and nobody can change it then.
LEMMA ToldStep ==
  ASSUME TypeInv, ClosedOnce, Told, [Next]_vars
  PROVE  Told'
<1>1. ASSUME TickExistent PROVE Told'
  BY <1>1
  DEF TickExistent, Told, ClosedOnce, TypeInv, TypeOK, Counts, Stages,
      ProcState
<1>2. ASSUME TickCanceled PROVE Told'
  BY <1>2
  DEF TickCanceled, Told, ClosedOnce, TypeInv, TypeOK, Counts, Stages,
      ProcState
<1>3. ASSUME shutdown PROVE Told'
  BY <1>3
  DEF shutdown, Unlocked, disconnect, Told, ClosedOnce, TypeInv, TypeOK,
      Counts, Stages, ProcState
<1>4. ASSUME NEW ok \in BOOLEAN, SrvStart(ok) PROVE Told'
  BY <1>4
  DEF SrvStart, InProcess, socketOptionsSet, Returns, Unlocked, Told,
      ClosedOnce, TypeInv, TypeOK, Counts, Stages, ProcState
<1>5. ASSUME NEW ok \in BOOLEAN, CltStart(ok) PROVE Told'
  BY <1>5
  DEF CltStart, InProcess, socketOptionsSet, Returns, Unlocked, Told,
      ClosedOnce, TypeInv, TypeOK, Counts, Stages, ProcState
<1>6. ASSUME CltStartFails PROVE Told'
  BY <1>6
  DEF CltStartFails, InProcess, Returns, Told, ClosedOnce, TypeInv, TypeOK,
      Counts, Stages, ProcState
<1>7. ASSUME ConnTimeout PROVE Told'
  BY <1>7
  DEF ConnTimeout, InProcess, Returns, Told, ClosedOnce, TypeInv, TypeOK,
      Counts, Stages, ProcState
<1>8. ASSUME NEW res \in {"connecting", "up", "refused"}, Connect(res)
       PROVE  Told'
  BY <1>8
  DEF Connect, ConnectResults, Returns, Told, ClosedOnce, TypeInv, TypeOK,
      Counts, Stages, ProcState
<1>9. ASSUME NEW res \in {"pending", "out", "failed"}, Poll(res) PROVE Told'
  BY <1>9
  DEF Poll, PollResults, Returns, Told, ClosedOnce, TypeInv, TypeOK, Counts,
      Stages, ProcState
<1>10. ASSUME NEW res \in {"ok", "error"}, SockErr(res) PROVE Told'
  BY <1>10
  DEF SockErr, SockErrResults, Returns, Told, ClosedOnce, TypeInv, TypeOK,
      Counts, Stages, ProcState
<1>11. ASSUME MainDone PROVE Told'
  BY <1>11
  DEF MainDone, InProcess, Returns, Told, ClosedOnce, TypeInv, TypeOK,
      Counts, Stages, ProcState
<1>12. ASSUME MainClosed PROVE Told'
  BY <1>12
  DEF MainClosed, InProcess, Returns, Unlocked, WatchEnds, RecvFails,
      RecvEnd, RecvReset, RecvError, disconnect, Told, ClosedOnce, TypeInv,
      TypeOK, Counts, Stages, ProcState
<1>13. ASSUME ReadFails PROVE Told'
  BY <1>13
  DEF ReadFails, UserFree, RecvFails, RecvEnd, RecvReset, RecvError,
      disconnect, Told, ClosedOnce, TypeInv, TypeOK, Counts, Stages,
      ProcState
<1>14. ASSUME SendFails PROVE Told'
  BY <1>14
  DEF SendFails, disconnect, Told, ClosedOnce, TypeInv, TypeOK, Counts,
      Stages, ProcState
<1>15. ASSUME doneSet PROVE Told'
  BY <1>15
  DEF doneSet, UserFree, Told, ClosedOnce, TypeInv, TypeOK, Counts, Stages,
      ProcState
<1>16. ASSUME Cancel PROVE Told'
  BY <1>16
  DEF Cancel, Told, ClosedOnce, TypeInv, TypeOK, Counts, Stages, ProcState
<1>17. CASE UNCHANGED vars
  BY <1>17
  DEF vars, Told, ClosedOnce, TypeInv, TypeOK, Counts, Stages, ProcState
<1>18. CASE \/ PollBegins \/ ConnDone \/ TimePasses \/ ReadEmpty
            \/ ReadSome \/ SendContinues \/ PeerAnswers \/ PeerCloses
            \/ PeerResets \/ PeerVanishes \/ PeerSends \/ PeerTakes
            \/ OtherOpens
            \/ \E len \in 1 .. MaxOut : SendSome(len)
  BY <1>18
  DEF PollBegins, InProcess, ConnDone, TimePasses, ReadEmpty, UserFree,
      NoData, RecvAgain, ReadSome, RecvData, SendSome, Less, Room, Reported,
      SendContinues, PeerAnswers, NetChanges, PeerCloses, PeerResets,
      PeerVanishes, PeerSends, PeerTakes, OtherOpens, Told, ClosedOnce,
      TypeInv, TypeOK, Counts, Stages, ProcState
<1>19. QED
  BY <1>1, <1>2, <1>3, <1>4, <1>5, <1>6, <1>7, <1>8, <1>9, <1>10, <1>11,
     <1>12, <1>13, <1>14, <1>15, <1>16, <1>17, <1>18
  DEF Next, Driver, User, Reader, Network

-----------------------------------------------------------------------------
LEMMA InitInv ==
  ASSUME Init
  PROVE  IInv
<1>1. TypeInv
  <2>1. /\ sent \in 0 .. MaxBytes /\ got \in 0 .. sent
        /\ out \in 0 .. MaxOut /\ taken \in 0 .. out /\ out - taken <= MaxRoom
        /\ acc \in 0 .. out /\ left + done \in 0 .. MaxOut /\ Counts
    BY DEF Init, Counts
  <2>2. /\ {mSendReady, mReadReady, mDone, late, nonBlock} \subseteq BOOLEAN
        /\ {canceled, begun} \subseteq BOOLEAN
    BY DEF Init, InitServer, InitClient
  <2>3. /\ mSocketFd \in {"fd", "invalid"} /\ mpHostAddr \in {"set", "null"}
        /\ sock \in {"up", "idle"} /\ mState \in {"StSrvStart", "StCltStart"}
        /\ slot \in {"own", "free"}
    BY DEF Init, InitServer, InitClient
  <2>4. QED
    BY <2>1, <2>2, <2>3 DEF Init, TypeInv, TypeOK, Stages, ProcState
<1>2. SocketIsOwn /\ ClosedOnce /\ EndMeansAllRead /\ EndIsFinal
  BY <1>1 DEF Init, TypeInv, TypeOK, SocketIsOwn, UsesNumber, ClosedOnce,
              EndMeansAllRead, EndIsFinal
<1>3. SendIsExact /\ Told
  BY DEF Init, SendIsExact, Told
<1>4. Position /\ AtWork /\ SendReadyMeansConnected
  BY DEF Init, InitServer, InitClient, Position, AtWork, Connected,
         SendReadyMeansConnected
<1>5. QED BY <1>1, <1>2, <1>3, <1>4 DEF IInv

\* IInv is inductive.
THEOREM ConnectionInvariant == Spec => []IInv
<1>1. IInv /\ [Next]_vars => IInv'
  BY TypeStep, OwnStep, AtWorkStep, ClosedStep, AllReadStep, FinalStep, ExactStep,
     PositionStep, ConnectedStep, ToldStep DEF IInv
<1>2. QED BY <1>1, InitInv, PTL DEF Spec

\* Every variable has its type; in particular the room in the kernel is never
\* exceeded.
THEOREM TypeCorrect == Spec => []TypeOK
<1>1. IInv => TypeOK BY DEF IInv, TypeInv
<1>2. QED BY <1>1, ConnectionInvariant, PTL

\* Under the mutex nobody uses the descriptor of another part of the program;
\* without it the driver may, but only if another thread has ended the
\* connection meanwhile; and a finished process leaves the socket open only if
\* it was canceled before it began (disconnect(), shutdown(), treeTick()).
THEOREM SocketStaysOwn == Spec => []SocketIsOwn
<1>1. IInv => SocketIsOwn BY DEF IInv
<1>2. QED BY <1>1, ConnectionInvariant, PTL

\* The peer's end is seen only behind its data (read() with MSG_PEEK).
THEOREM EndIsBehindData == Spec => []EndMeansAllRead
<1>1. IInv => EndMeansAllRead BY DEF IInv
<1>2. QED BY <1>1, ConnectionInvariant, PTL

\* A broken connection is reported as failed (mErrno in process()).
THEOREM ErrorsAreTold == Spec => []ErrorIsTold
<1>1. IInv => ErrorIsTold BY DEF IInv, Told, ErrorIsTold
<1>2. QED BY <1>1, ConnectionInvariant, PTL

\* send() reports what the kernel has taken, full socket or not.
THEOREM ReportsAreExact == Spec => []SendReportIsExact
<1>1. IInv => SendReportIsExact
  BY DEF IInv, SendIsExact, SendReportIsExact, TypeInv, TypeOK
<1>2. QED BY <1>1, ConnectionInvariant, PTL

\* A socket offered for sending is or was connected (connClientDone()).
THEOREM SendReadyIsConnected == Spec => []SendReadyMeansConnected
<1>1. IInv => SendReadyMeansConnected BY DEF IInv
<1>2. QED BY <1>1, ConnectionInvariant, PTL

-----------------------------------------------------------------------------
LEMMA InitRefines == Init => T!Init
  BY DEF Init, T!Init, ConnectionOver

\* There is no way back from the end of a connection.
LEMMA OverStays ==
  ASSUME TypeInv, SocketIsOwn, Position, AtWork, ConnectionOver, [Next]_vars
  PROVE  ConnectionOver'
<1>1. ASSUME shutdown PROVE ConnectionOver'
  BY <1>1
  DEF shutdown, Unlocked, disconnect, ConnectionOver, SocketIsOwn, Position,
      AtWork, TypeInv, TypeOK, Stages, ProcState
<1>2. ASSUME NEW res \in {"connecting", "up", "refused"}, Connect(res)
      PROVE  ConnectionOver'
  BY <1>2
  DEF Connect, ConnectResults, Returns, ConnectionOver, SocketIsOwn, Position,
      AtWork, TypeInv, TypeOK, Stages, ProcState
<1>3. ASSUME MainClosed PROVE ConnectionOver'
  BY <1>3
  DEF MainClosed, InProcess, Returns, Unlocked, WatchEnds, RecvFails,
      disconnect, ConnectionOver, SocketIsOwn, Position, AtWork, TypeInv,
      TypeOK, Stages, ProcState
<1>4. ASSUME ReadSome PROVE ConnectionOver'
  BY <1>4
  DEF ReadSome, ConnectionOver, SocketIsOwn, Position, AtWork, TypeInv,
      TypeOK, Stages, ProcState
<1>5. ASSUME ReadFails PROVE ConnectionOver'
  BY <1>5
  DEF ReadFails, RecvFails, disconnect, ConnectionOver, SocketIsOwn, Position,
      AtWork, TypeInv, TypeOK, Stages, ProcState
<1>6. ASSUME SendFails PROVE ConnectionOver'
  BY <1>6
  DEF SendFails, disconnect, ConnectionOver, SocketIsOwn, Position, AtWork,
      TypeInv, TypeOK, Stages, ProcState
<1>7. ASSUME PeerAnswers PROVE ConnectionOver'
  BY <1>7
  DEF PeerAnswers, NetChanges, ConnectionOver, SocketIsOwn, Position, AtWork,
      TypeInv, TypeOK, Stages, ProcState
<1>8. ASSUME PeerCloses PROVE ConnectionOver'
  BY <1>8
  DEF PeerCloses, NetChanges, ConnectionOver, SocketIsOwn, Position, AtWork,
      TypeInv, TypeOK, Stages, ProcState
<1>9. ASSUME PeerResets PROVE ConnectionOver'
  BY <1>9
  DEF PeerResets, NetChanges, ConnectionOver, SocketIsOwn, Position, AtWork,
      TypeInv, TypeOK, Stages, ProcState
<1>10. ASSUME PeerVanishes PROVE ConnectionOver'
  BY <1>10
  DEF PeerVanishes, NetChanges, ConnectionOver, SocketIsOwn, Position, AtWork,
      TypeInv, TypeOK, Stages, ProcState
<1>11. ASSUME PeerSends PROVE ConnectionOver'
  BY <1>11
  DEF PeerSends, ConnectionOver, SocketIsOwn, Position, AtWork, TypeInv,
      TypeOK, Stages, ProcState
<1>12. ASSUME OtherOpens PROVE ConnectionOver'
  BY <1>12
  DEF OtherOpens, ConnectionOver, SocketIsOwn, Position, AtWork, TypeInv,
      TypeOK, Stages, ProcState
<1>13. CASE UNCHANGED vars
  BY <1>13
  DEF vars, ConnectionOver, SocketIsOwn, Position, AtWork, TypeInv, TypeOK,
      Stages, ProcState
<1>14. CASE \/ TickExistent \/ TickCanceled \/ CltStartFails
            \/ ConnTimeout \/ PollBegins \/ ConnDone \/ MainDone
            \/ TimePasses \/ ReadEmpty \/ SendContinues \/ doneSet
            \/ Cancel \/ PeerTakes
            \/ \E ok \in BOOLEAN : SrvStart(ok)
            \/ \E ok \in BOOLEAN : CltStart(ok)
            \/ \E res \in {"pending", "out", "failed"} : Poll(res)
            \/ \E res \in {"ok", "error"} : SockErr(res)
            \/ \E len \in 1 .. MaxOut : SendSome(len)
  BY <1>14
  DEF TickExistent, TickCanceled, SrvStart, InProcess, socketOptionsSet,
      Returns, Unlocked, CltStart, CltStartFails, ConnTimeout, PollBegins,
      Poll, PollResults, SockErr, SockErrResults, ConnDone, MainDone,
      TimePasses, ReadEmpty, SendSome, SendContinues, doneSet, Cancel,
      PeerTakes, ConnectionOver, SocketIsOwn, Position, AtWork, TypeInv,
      TypeOK, Stages, ProcState
<1>15. QED
  BY <1>1, <1>2, <1>3, <1>4, <1>5, <1>6, <1>7, <1>8, <1>9, <1>10, <1>11,
     <1>12, <1>13, <1>14
  DEF Next, Driver, User, Reader, Network

\* Every step is a step of the interface, or changes nothing it speaks of.
LEMMA StepRefines ==
  ASSUME IInv, [Next]_vars
  PROVE  [T!Next]_<<sent, got, last, mReadReady, ConnectionOver>>
<1> DEFINE S == [T!Next]_<<sent, got, last, mReadReady, ConnectionOver>>
<1>1. ConnectionOver => ConnectionOver'
  BY OverStays DEF IInv
<1>2. {ConnectionOver, ConnectionOver'} \subseteq BOOLEAN
  BY DEF ConnectionOver
<1>3. ASSUME UNCHANGED <<sent, got, last, mReadReady>> PROVE S
  BY <1>1, <1>2, <1>3 DEF T!Next, T!Ends
<1>4. ASSUME NEW ok \in BOOLEAN, SrvStart(ok) \/ CltStart(ok) PROVE S
  <2>1. /\ UNCHANGED <<sent, got, last, slot, sock>>
        /\ mReadReady' = mReadReady \/ mReadReady' = TRUE
    BY <1>4 DEF SrvStart, CltStart, socketOptionsSet, IInv, TypeInv, TypeOK
  <2>2. ConnectionOver' = ConnectionOver
    BY <2>1 DEF ConnectionOver
  <2>3. QED BY <2>1, <2>2 DEF T!Next, T!GetsReady
<1>5. ASSUME ReadEmpty PROVE S
  <2>1. mReadReady => ~ConnectionOver
    BY <1>5 DEF ReadEmpty, NoData, RecvAgain, ConnectionOver, IInv,
                SocketIsOwn, TypeInv, TypeOK
  <2>2. /\ last' = "nothing" /\ UNCHANGED <<sent, got, mReadReady>>
        /\ ConnectionOver' = ConnectionOver
    BY <1>5 DEF ReadEmpty, ConnectionOver
  <2>3. QED BY <2>1, <2>2 DEF T!Next, T!ReadNothing
<1>6. ASSUME ReadSome PROVE S
  <2>1. mReadReady /\ ~ConnectionOver
    BY <1>6 DEF ReadSome, RecvData, ConnectionOver, IInv, SocketIsOwn,
                TypeInv, TypeOK
  <2>2. /\ got' \in (got + 1) .. sent /\ last' = "data"
        /\ UNCHANGED <<sent, mReadReady>>
    BY <1>6 DEF ReadSome
  <2>3. QED BY <1>2, <2>1, <2>2 DEF T!Next, T!ReadData
<1>7. ASSUME ReadFails PROVE S
  <2>1. /\ mReadReady /\ last' = "end"
        /\ UNCHANGED <<sent, got, mReadReady>>
    BY <1>7 DEF ReadFails
  <2>2. slot' # "own"
    BY <1>7 DEF ReadFails, RecvFails, disconnect, IInv, SocketIsOwn, TypeInv,
                TypeOK
  <2>3. ConnectionOver' = TRUE
    BY <2>2 DEF ConnectionOver
  <2>4. QED BY <2>1, <2>3 DEF T!Next, T!ReadEnd
<1>8. ASSUME PeerSends PROVE S
  <2>1. /\ sent < MaxBytes /\ sent' = sent + 1
        /\ UNCHANGED <<got, last, mReadReady>>
    BY <1>8 DEF PeerSends
  <2>2. ConnectionOver = FALSE /\ ConnectionOver' = FALSE
    BY <1>8 DEF PeerSends, ConnectionOver
  <2>3. QED BY <2>1, <2>2 DEF T!Next, T!PeerSends
<1>9. CASE UNCHANGED vars
  BY <1>3, <1>9 DEF vars
<1>10. CASE \/ TickExistent \/ TickCanceled \/ shutdown
            \/ CltStartFails \/ ConnTimeout \/ PollBegins \/ ConnDone
            \/ MainDone \/ MainClosed \/ TimePasses \/ SendContinues
            \/ SendFails \/ doneSet \/ Cancel \/ PeerAnswers
            \/ PeerCloses \/ PeerResets \/ PeerVanishes \/ PeerTakes
            \/ OtherOpens
            \/ \E res \in {"connecting", "up", "refused"} : Connect(res)
            \/ \E res \in {"pending", "out", "failed"} : Poll(res)
            \/ \E res \in {"ok", "error"} : SockErr(res)
            \/ \E len \in 1 .. MaxOut : SendSome(len)
  BY <1>3, <1>10
  DEF TickExistent, TickCanceled, shutdown, Unlocked, CltStartFails,
      InProcess, Returns, ConnTimeout, PollBegins, Connect, ConnectResults,
      Poll, PollResults, SockErr, SockErrResults, ConnDone, MainDone,
      MainClosed, TimePasses, SendSome, SendContinues, SendFails, doneSet,
      Cancel, PeerAnswers, NetChanges, PeerCloses, PeerResets, PeerVanishes,
      PeerTakes, OtherOpens
<1>11. QED
  BY <1>4, <1>5, <1>6, <1>7, <1>8, <1>9, <1>10
  DEF Next, Driver, User, Reader, Network

\* read() keeps the promise of the interface: it hands out bytes the peer has
\* sent; once mReadReady is set, a zero means that the connection is not over;
\* after a negative number neither data nor a zero follows (src/Transfering.h).
THEOREM ConnectionImplementsTransfering == Spec => ImplementsTransfering
<1>1. QED
  BY InitRefines, StepRefines, ConnectionInvariant, PTL
  DEF Spec, ImplementsTransfering, T!Spec
=============================================================================
