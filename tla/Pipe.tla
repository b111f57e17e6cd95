-------------------------------- MODULE Pipe --------------------------------
(***************************************************************************)
(* The data path of Pipe.h: a tree of bounded queues.  A sender commits    *)
(* particles to the source, the owner of each pipe moves them to its       *)
(* children with toPushTry(), and the owners of the leaves get them.       *)
(*                                                                         *)
(* Every owner is a thread of its own.  What is done under mEntryMtx is    *)
(* one step; toPushTry() holds mChildListMtx from the first to the last of *)
(* its steps.  The particles are numbered in the order they are committed; *)
(* contents and timestamps are left out.  Who is connected to whom when    *)
(* threads race is the subject of PipeLinks.                               *)
(***************************************************************************)
EXTENDS Naturals, Sequences, FiniteSets

CONSTANTS
  Pipes,
  Source,       \* the pipe of the sender
  Wired,        \* the children each pipe has from the start
  Late,         \* the children that may be connected later
  Readers,      \* the pipes whose owner calls get()
  Quitters,     \* the readers that may call sinkDoneSet()
  Blocking,     \* the pipes with mDataBlocking
  SizeMax,      \* mSizeMax
  NumParticles  \* what the sender has to send

ASSUME PipeAssumption ==
  /\ Source \in Pipes
  /\ Wired \in [Pipes -> SUBSET Pipes]
  /\ Late \in [Pipes -> SUBSET Pipes]
  /\ \A p, q \in Pipes : Wired[p] \cap Late[q] = {}
  /\ \A p, q \in Pipes : Wired[p] \cap Wired[q] # {} => p = q
  /\ \A p \in Pipes : Source \notin Wired[p] \cup Late[p]
  /\ \A p \in Readers : Wired[p] = {} /\ Late[p] = {}
  /\ Readers \subseteq Pipes
  /\ Quitters \subseteq Readers
  /\ Blocking \subseteq Pipes
  /\ SizeMax \in [Pipes -> Nat \ {0}]
  /\ NumParticles \in Nat

VARIABLES
  queue,                 \* mEntries; mSize is its length
  sourceDone, sinkDone,  \* the pipes with mSourceDone, with mSinkDone
  parents, children,     \* mParentList, mChildList
  pc, todo, entry,       \* the activation of toPushTry()
  sent,                  \* how many particles the sender has committed
  taken, ended           \* history: what left a pipe; where get() returned -1

activation == <<pc, todo, entry>>
links      == <<parents, children>>
history    == <<taken, ended>>
vars == <<queue, sourceDone, sinkDone, links, activation, sent, history>>

Particles == 1 .. NumParticles

TypeOK ==
  /\ queue \in [Pipes -> Seq(Particles)]
  /\ \A p \in Pipes : Len(queue[p]) <= SizeMax[p]
  /\ sourceDone \subseteq Pipes /\ sinkDone \subseteq Pipes
  /\ parents \in [Pipes -> SUBSET Pipes]
  /\ children \in [Pipes -> SUBSET Pipes]
  /\ pc \in [Pipes -> {"idle", "top", "scan", "pop", "send", "left", "notify"}]
  /\ todo \in [Pipes -> SUBSET Pipes]
  /\ entry \in [Pipes -> 0 .. NumParticles]
  /\ sent \in 0 .. NumParticles
  /\ taken \in [Pipes -> Seq(Particles)]
  /\ ended \subseteq Pipes

Init ==
  /\ queue = [p \in Pipes |-> <<>>]
  /\ sourceDone = {} /\ sinkDone = {}
  /\ parents = [p \in Pipes |-> {q \in Pipes : p \in Wired[q]}]
  /\ children = Wired
  /\ pc = [p \in Pipes |-> "idle"]
  /\ todo = [p \in Pipes |-> {}]
  /\ entry = [p \in Pipes |-> 0]
  /\ sent = 0
  /\ taken = [p \in Pipes |-> <<>>]
  /\ ended = {}

\* Mutant: off by one.
isFull_OneMore(p) == Len(queue[p]) > SizeMax[p]

isFull(p) == Len(queue[p]) >= SizeMax[p]

\* Mutant: the end of the source counts, whatever is left in the queue.
entriesLeft_SourceOnly(p) == p \notin sourceDone

entriesLeft(p) == queue[p] # <<>> \/ p \notin sourceDone

\* commit() takes a particle: it returns 1, and not 0 (full) or -1 (done).
Accepts(p) == p \notin sourceDone \cup sinkDone /\ ~isFull(p)

-----------------------------------------------------------------------------
(***************************************************************************)
(* Sender and receivers.                                                   *)
(***************************************************************************)

\* The sender repeats a commit() that returned 0.
Commit ==
  /\ sent < NumParticles
  /\ Accepts(Source)
  /\ queue' = [queue EXCEPT ![Source] = Append(@, sent + 1)]
  /\ sent' = sent + 1
  /\ UNCHANGED <<sourceDone, sinkDone, links, activation, history>>

SourceDoneSet ==
  /\ Source \notin sourceDone
  /\ sourceDone' = sourceDone \cup {Source}
  /\ UNCHANGED <<queue, sinkDone, links, activation, sent, history>>

Get(k) ==
  /\ k \in Readers
  /\ queue[k] # <<>>
  /\ taken' = [taken EXCEPT ![k] = Append(@, Head(queue[k]))]
  /\ queue' = [queue EXCEPT ![k] = Tail(@)]
  /\ UNCHANGED <<sourceDone, sinkDone, links, activation, sent, ended>>

\* get() returns -1.
GetEnd(k) ==
  /\ k \in Readers \ ended
  /\ queue[k] = <<>> /\ k \in sourceDone
  /\ ended' = ended \cup {k}
  /\ UNCHANGED <<queue, sourceDone, sinkDone, links, activation, sent, taken>>

SinkDoneSet(k) ==
  /\ k \in Quitters \ sinkDone
  /\ sinkDone' = sinkDone \cup {k}
  /\ UNCHANGED <<queue, sourceDone, links, activation, sent, history>>

-----------------------------------------------------------------------------
(***************************************************************************)
(* Links.  mChildListMtx makes connect() and parentDisconnect() wait for   *)
(* the end of a toPushTry().                                               *)
(***************************************************************************)

\* connect(): parentAdd() of the child accepts one parent only.
Connect(p, k) ==
  /\ k \in Late[p] /\ parents[k] = {} /\ k \notin sinkDone
  /\ pc[p] = "idle"
  /\ parents' = [parents EXCEPT ![k] = {p}]
  /\ children' = [children EXCEPT ![p] = @ \cup {k}]
  /\ UNCHANGED <<queue, sourceDone, sinkDone, activation, sent, history>>

\* A receiver that is done with its sender.
ParentDisconnect(k) ==
  /\ k \in sinkDone /\ parents[k] # {}
  /\ \A p \in parents[k] : pc[p] = "idle"
  /\ children' = [p \in Pipes |-> IF p \in parents[k] THEN children[p] \ {k}
                                                     ELSE children[p]]
  /\ parents' = [parents EXCEPT ![k] = {}]
  /\ UNCHANGED <<queue, sourceDone, sinkDone, activation, sent, history>>

-----------------------------------------------------------------------------
(***************************************************************************)
(* toPushTry().                                                            *)
(***************************************************************************)
PushBegins(p) ==
  /\ pc[p] = "idle" /\ p \notin Readers
  /\ pc' = [pc EXCEPT ![p] = "top"]
  /\ UNCHANGED <<queue, sourceDone, sinkDone, links, todo, entry, sent, history>>

\* Something to send, and somebody to send it to?
LookForEntry(p) ==
  /\ pc[p] = "top"
  /\ IF queue[p] = <<>> \/ children[p] = {}
     THEN pc' = [pc EXCEPT ![p] = "left"] /\ UNCHANGED todo
     ELSE /\ pc' = [pc EXCEPT ![p] = "scan"]
          /\ todo' = [todo EXCEPT ![p] = children[p]]
  /\ UNCHANGED <<queue, sourceDone, sinkDone, links, entry, sent, history>>

\* Mutant: a full child does not hold up the others.
LookAtChild_NotBlocking(p, k) ==
  /\ pc[p] = "scan" /\ k \in todo[p]
  /\ todo' = [todo EXCEPT ![p] = @ \ {k}]
  /\ pc' = [pc EXCEPT ![p] = IF todo[p] = {k} THEN "pop" ELSE "scan"]
  /\ UNCHANGED <<queue, sourceDone, sinkDone, links, entry, sent, history>>

\* Is this child ready for the entry?
LookAtChild(p, k) ==
  /\ pc[p] = "scan" /\ k \in todo[p]
  /\ todo' = [todo EXCEPT ![p] = IF isFull(k) THEN {} ELSE @ \ {k}]
  /\ pc' = [pc EXCEPT ![p] =
              IF isFull(k) THEN (IF p \in Blocking THEN "left" ELSE "pop")
              ELSE IF todo[p] = {k} THEN "pop" ELSE "scan"]
  /\ UNCHANGED <<queue, sourceDone, sinkDone, links, entry, sent, history>>

\* Mutant: the entry is read and stays in the queue.
TakeEntry_NotPopped(p) ==
  /\ pc[p] = "pop"
  /\ entry' = [entry EXCEPT ![p] = Head(queue[p])]
  /\ taken' = [taken EXCEPT ![p] = Append(@, Head(queue[p]))]
  /\ todo' = [todo EXCEPT ![p] = children[p]]
  /\ pc' = [pc EXCEPT ![p] = "send"]
  /\ UNCHANGED <<queue, sourceDone, sinkDone, links, sent, ended>>

TakeEntry(p) ==
  /\ pc[p] = "pop"
  /\ entry' = [entry EXCEPT ![p] = Head(queue[p])]
  /\ queue' = [queue EXCEPT ![p] = Tail(@)]
  /\ taken' = [taken EXCEPT ![p] = Append(@, Head(queue[p]))]
  /\ todo' = [todo EXCEPT ![p] = children[p]]
  /\ pc' = [pc EXCEPT ![p] = "send"]
  /\ UNCHANGED <<sourceDone, sinkDone, links, sent, ended>>

\* commit() to a child; its result is ignored.
SendToChild(p, k) ==
  /\ pc[p] = "send" /\ k \in todo[p]
  /\ queue' = [queue EXCEPT ![k] =
                 IF Accepts(k) THEN Append(@, entry[p]) ELSE @]
  /\ todo' = [todo EXCEPT ![p] = @ \ {k}]
  /\ pc' = [pc EXCEPT ![p] = IF todo[p] = {k} THEN "top" ELSE "send"]
  /\ entry' = [entry EXCEPT ![p] = IF todo[p] = {k} THEN 0 ELSE @]
  /\ UNCHANGED <<sourceDone, sinkDone, links, sent, history>>

\* Will anything follow?
LookWhatIsLeft(p) ==
  /\ pc[p] = "left"
  /\ IF entriesLeft(p) \/ children[p] = {}
     THEN pc' = [pc EXCEPT ![p] = "idle"] /\ UNCHANGED todo
     ELSE /\ pc' = [pc EXCEPT ![p] = "notify"]
          /\ todo' = [todo EXCEPT ![p] = children[p]]
  /\ UNCHANGED <<queue, sourceDone, sinkDone, links, entry, sent, history>>

\* Mutant: one child is told only.
NotifyChild_FirstOnly(p, k) ==
  /\ pc[p] = "notify" /\ k \in todo[p]
  /\ sourceDone' = sourceDone \cup {k}
  /\ todo' = [todo EXCEPT ![p] = {}]
  /\ pc' = [pc EXCEPT ![p] = "idle"]
  /\ UNCHANGED <<queue, sinkDone, links, entry, sent, history>>

NotifyChild(p, k) ==
  /\ pc[p] = "notify" /\ k \in todo[p]
  /\ sourceDone' = sourceDone \cup {k}
  /\ todo' = [todo EXCEPT ![p] = @ \ {k}]
  /\ pc' = [pc EXCEPT ![p] = IF todo[p] = {k} THEN "idle" ELSE "notify"]
  /\ UNCHANGED <<queue, sinkDone, links, entry, sent, history>>

toPushTry(p) ==
  \/ PushBegins(p) \/ LookForEntry(p) \/ TakeEntry(p) \/ LookWhatIsLeft(p)
  \/ \E k \in Pipes :
       LookAtChild(p, k) \/ SendToChild(p, k) \/ NotifyChild(p, k)

-----------------------------------------------------------------------------
Next ==
  \/ Commit \/ SourceDoneSet
  \/ \E p \in Pipes :
       \/ Get(p) \/ GetEnd(p) \/ SinkDoneSet(p) \/ ParentDisconnect(p)
       \/ toPushTry(p)
       \/ \E k \in Pipes : Connect(p, k)

Spec == Init /\ [][Next]_vars

(***************************************************************************)
(* The sender sends everything and says so, the owners push again and      *)
(* again, and a receiver reads until it is told that nothing follows or is *)
(* done itself.  Nobody need read after sinkDoneSet(), but whoever called  *)
(* it disconnects in the end (the destructor does): until then its full    *)
(* queue may hold up a blocking parent and all below it.  A late child     *)
(* comes: without children a pipe fills up and makes its parent wait.  A   *)
(* thread that waits for mChildListMtx gets it.                            *)
(***************************************************************************)
Fairness ==
  /\ WF_vars(Commit)
  /\ WF_vars(SourceDoneSet)
  /\ \A p \in Pipes \ Readers : WF_vars(toPushTry(p))
  /\ \A p \in Pipes : \A k \in Late[p] : SF_vars(Connect(p, k))
  /\ \A k \in Readers : WF_vars(k \notin sinkDone /\ (Get(k) \/ GetEnd(k)))
  /\ \A k \in Quitters : SF_vars(ParentDisconnect(k))

FairSpec == Spec /\ Fairness

-----------------------------------------------------------------------------
(***************************************************************************)
(* Properties.                                                             *)
(***************************************************************************)

\* Everything that ever entered a pipe, in order.
Stream(p) == taken[p] \o queue[p]

\* A pipe with mDataBlocking gives each child that wants it everything it
\* takes out of its own queue, in order, although the room in the children is
\* looked at before the entry is taken and the result of their commit() is
\* ignored (Pipe.h:399-427).
NothingIsLost ==
  \A p \in Blocking : \A k \in Wired[p] \ sinkDone :
    taken[p] = IF pc[p] = "send" /\ k \in todo[p]
               THEN Append(Stream(k), entry[p]) ELSE Stream(k)

\* A child is told that nothing follows only when nothing follows: its parent
\* was told so, has sent all, and the child will get no more; so -1 from get()
\* is final (Pipe.h:432-441, 347).
EndIsComplete ==
  \A p \in Pipes : \A k \in children[p] \cap sourceDone :
    /\ p \in sourceDone /\ queue[p] = <<>>
    /\ pc[p] \notin {"scan", "pop", "send"}
    /\ p \in Blocking /\ k \in Wired[p] \ sinkDone => Stream(k) = taken[p]

\* The order of the particles survives everywhere, where entries are dropped
\* or a child is connected late, too; none arrives twice (Pipe.h:377-429).
InOrder ==
  \A p \in Pipes : \A i, j \in 1 .. Len(Stream(p)) :
    i < j => Stream(p)[i] < Stream(p)[j]

\* Every reader that goes on is told the end, however slow the other readers
\* are and although one that gives up holds up the blocking pipe, and so the
\* others, until it disconnects (Pipe.h:45-58, 405).
EveryReaderEnds ==
  \A k \in Readers : parents[k] # {} ~> k \in ended \cup sinkDone
=============================================================================
