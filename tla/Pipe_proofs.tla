----------------------------- MODULE Pipe_proofs -----------------------------
(***************************************************************************)
(* Theorems about Pipe, for every tree of pipes, with any sizes, readers   *)
(* that quit and children that come late: nothing is lost or reordered,    *)
(* and the end of the source comes behind everything else.                 *)
(***************************************************************************)
EXTENDS Pipe, TLAPS

USE PipeAssumption
USE DEF Particles, activation, links, history

\* The two ends of a link are changed together, a pipe has one parent at most,
\* and a child that is there from the start stays until it is done.
Linked ==
  /\ \A p, c \in Pipes : c \in children[p] <=> p \in parents[c]
  /\ \A p, q, c \in Pipes : c \in children[p] /\ c \in children[q] => p = q
  /\ \A p \in Pipes : children[p] \subseteq Wired[p] \cup Late[p]
  /\ \A p \in Pipes : Wired[p] \subseteq children[p] \cup sinkDone

\* What toPushTry() knows from its last look: only itself takes an entry out of
\* this queue, nobody links while it holds mChildListMtx, and nothing follows the
\* end of the source.
Position ==
  \A p \in Pipes :
    /\ p \in Readers => pc[p] = "idle"
    /\ pc[p] \in {"scan", "pop"} => queue[p] # <<>>
    /\ pc[p] \in {"scan", "send", "notify"} => todo[p] \subseteq children[p]
    /\ pc[p] = "send" => entry[p] \in Particles
    /\ pc[p] = "notify" => p \in sourceDone /\ queue[p] = <<>>

\* A child in which a blocking pipe has found room keeps it until the entry is
\* there: nobody else commits to it.
HasRoom ==
  \A p \in Blocking : \A c \in children[p] :
    \/ pc[p] = "scan" /\ c \notin todo[p]
    \/ pc[p] = "pop"
    \/ pc[p] = "send" /\ c \in todo[p]
    => ~isFull(c)

\* A pipe that waits for its parent has got nothing, not even the end.
Fresh ==
  \A c \in Pipes \ {Source} :
    parents[c] = {} => c \in sinkDone \/ (Stream(c) = <<>> /\ c \notin sourceDone)

\* A child has only what its parent has taken out of its own queue ...
Inherited ==
  \A p \in Pipes : \A c \in children[p] : \A i \in 1 .. Len(Stream(c)) :
    \E j \in 1 .. Len(taken[p]) : Stream(c)[i] = taken[p][j]

\* ... and before it gets the entry at hand, only what is older.
EntryIsNew ==
  \A p \in Pipes : pc[p] = "send" =>
    /\ \E j \in 1 .. Len(taken[p]) : entry[p] = taken[p][j]
    /\ \A c \in todo[p] : \A i \in 1 .. Len(Stream(c)) : Stream(c)[i] < entry[p]

SentSoFar == \A i \in 1 .. Len(Stream(Source)) : Stream(Source)[i] <= sent

TypeInv == TypeOK /\ Linked /\ Position

OrderInv == InOrder /\ Fresh /\ Inherited /\ EntryIsNew /\ SentSoFar

IInv == TypeInv /\ HasRoom /\ OrderInv /\ EndIsComplete /\ NothingIsLost

-----------------------------------------------------------------------------
(***************************************************************************)
(* Sequences.                                                              *)
(***************************************************************************)

\* Moving the head of a queue to the end of what was taken changes nothing.
LEMMA HeadMoved ==
  \A s, q \in Seq(Particles) :
    q # <<>> => Append(s, Head(q)) \o Tail(q) = s \o q
BY SMTT(30)

LEMMA AppendMoved ==
  \A s, q \in Seq(Particles), e \in Particles :
    s \o Append(q, e) = Append(s \o q, e)
BY SMTT(30)

LEMMA ElementsOfConcat ==
  \A s, q \in Seq(Particles) :
    /\ s \o q \in Seq(Particles)
    /\ Len(s \o q) = Len(s) + Len(q)
    /\ Len(s \o q) \in Nat /\ Len(s) <= Len(s \o q)
    /\ \A i \in 1 .. Len(s) : (s \o q)[i] = s[i]
    /\ q # <<>> => (s \o q)[Len(s) + 1] = Head(q) /\ Len(q) > 0
BY SMTT(30)

LEMMA ElementsOfAppend ==
  ASSUME NEW S, NEW s \in Seq(S), NEW e \in S
  PROVE  /\ Append(s, e) \in Seq(S)
         /\ Len(Append(s, e)) = Len(s) + 1 /\ Len(s) \in Nat
         /\ \A i \in 1 .. Len(s) : Append(s, e)[i] = s[i]
         /\ Append(s, e)[Len(s) + 1] = e
BY SMT


LEMMA HeadAndTail ==
  ASSUME NEW S, NEW q \in Seq(S), q # <<>>
  PROVE  /\ Head(q) \in S /\ Tail(q) \in Seq(S)
         /\ Len(q) \in Nat /\ Len(Tail(q)) = Len(q) - 1
BY SMT

-----------------------------------------------------------------------------
(***************************************************************************)
(* What the steps do, pipe by pipe.                                        *)
(***************************************************************************)

LEMMA StreamAppended ==
  ASSUME NEW c, NEW e \in Particles,
         queue[c] \in Seq(Particles), taken[c] \in Seq(Particles)
  PROVE  taken[c] \o Append(queue[c], e) = Append(taken[c] \o queue[c], e)
<1> HIDE DEF Particles
<1>1. QED BY AppendMoved, Zenon

LEMMA StreamMoved ==
  ASSUME NEW p, queue[p] # <<>>,
         queue[p] \in Seq(Particles), taken[p] \in Seq(Particles)
  PROVE  Append(taken[p], Head(queue[p])) \o Tail(queue[p]) = taken[p] \o queue[p]
<1> HIDE DEF Particles
<1>1. QED BY HeadMoved, Zenon

\* An entry is committed to c.
LEMMA Committed ==
  ASSUME TypeOK, NEW c \in Pipes, NEW e \in Particles, ~isFull(c),
         queue' = [queue EXCEPT ![c] = Append(@, e)], taken' = taken
  PROVE  /\ Stream(c)' = Append(Stream(c), e)
         /\ \A q \in Pipes \ {c} : Stream(q)' = Stream(q) /\ queue'[q] = queue[q]
         /\ queue' \in [Pipes -> Seq(Particles)] /\ queue'[c] # <<>>
         /\ \A q \in Pipes : Len(queue'[q]) <= SizeMax[q]
<1>1. /\ queue[c] \in Seq(Particles) /\ taken[c] \in Seq(Particles)
      /\ Len(queue[c]) < SizeMax[c] /\ SizeMax[c] \in Nat
  BY SMT DEF TypeOK, isFull
<1>2. /\ Append(queue[c], e) \in Seq(Particles) /\ Append(queue[c], e) # <<>>
      /\ Len(Append(queue[c], e)) = Len(queue[c]) + 1 /\ Len(queue[c]) \in Nat
  <2>1. /\ Append(queue[c], e) \in Seq(Particles)
        /\ Len(Append(queue[c], e)) = Len(queue[c]) + 1 /\ Len(queue[c]) \in Nat
    BY <1>1, ElementsOfAppend
  <2>2. Len(Append(queue[c], e)) # Len(<<>>)
    BY <2>1, SMT
  <2>3. QED BY <2>1, <2>2
<1>3. queue'[c] = Append(queue[c], e) /\ \A q \in Pipes \ {c} : queue'[q] = queue[q]
  BY DEF TypeOK
<1>4. queue' \in [Pipes -> Seq(Particles)]
  BY <1>2 DEF TypeOK
<1>5. \A q \in Pipes : Len(queue'[q]) <= SizeMax[q]
  BY <1>1, <1>2, <1>3 DEF TypeOK
<1>6. taken[c] \o queue'[c] = Append(taken[c] \o queue[c], e)
  <2>1. taken[c] \o Append(queue[c], e) = Append(taken[c] \o queue[c], e)
    BY <1>1, StreamAppended, Zenon
  <2>2. QED BY <1>1, <1>3, <2>1
<1>7. QED
  BY <1>2, <1>3, <1>4, <1>5, <1>6 DEF Stream

\* The owner of p takes an entry.
LEMMA Taken ==
  ASSUME TypeOK, NEW p \in Pipes, queue[p] # <<>>,
         taken' = [taken EXCEPT ![p] = Append(@, Head(queue[p]))],
         queue' = [queue EXCEPT ![p] = Tail(@)]
  PROVE  /\ \A q \in Pipes : Stream(q)' = Stream(q)
         /\ taken'[p] = Append(taken[p], Head(queue[p]))
         /\ \A q \in Pipes \ {p} : queue'[q] = queue[q] /\ taken'[q] = taken[q]
         /\ Head(queue[p]) \in Particles /\ Len(queue'[p]) = Len(queue[p]) - 1
         /\ queue' \in [Pipes -> Seq(Particles)]
         /\ taken' \in [Pipes -> Seq(Particles)]
         /\ \A q \in Pipes : Len(queue'[q]) <= SizeMax[q] /\ (isFull(q)' => isFull(q))
<1>1. queue[p] \in Seq(Particles) /\ taken[p] \in Seq(Particles)
  BY DEF TypeOK
<1>2. /\ Head(queue[p]) \in Particles /\ Tail(queue[p]) \in Seq(Particles)
      /\ Len(queue[p]) \in Nat /\ Len(Tail(queue[p])) = Len(queue[p]) - 1
      /\ Append(taken[p], Head(queue[p])) \in Seq(Particles)
  <2>1. /\ Head(queue[p]) \in Particles /\ Tail(queue[p]) \in Seq(Particles)
        /\ Len(queue[p]) \in Nat /\ Len(Tail(queue[p])) = Len(queue[p]) - 1
    BY <1>1, HeadAndTail
  <2>2. Append(taken[p], Head(queue[p])) \in Seq(Particles)
    BY <1>1, <2>1, ElementsOfAppend
  <2>3. QED BY <2>1, <2>2
<1>3. /\ taken'[p] = Append(taken[p], Head(queue[p])) /\ queue'[p] = Tail(queue[p])
      /\ \A q \in Pipes \ {p} : queue'[q] = queue[q] /\ taken'[q] = taken[q]
  BY DEF TypeOK
<1>4. /\ queue' \in [Pipes -> Seq(Particles)]
      /\ taken' \in [Pipes -> Seq(Particles)]
  BY <1>2 DEF TypeOK
<1>5. ASSUME NEW q \in Pipes
      PROVE  Len(queue'[q]) <= SizeMax[q] /\ (isFull(q)' => isFull(q))
  <2>1. /\ Len(queue[q]) \in Nat /\ SizeMax[q] \in Nat
        /\ Len(queue[q]) <= SizeMax[q]
    BY DEF TypeOK
  <2>2. Len(queue'[q]) \in {Len(queue[q]), Len(queue[q]) - 1}
    BY <1>2, <1>3
  <2>3. QED BY <2>1, <2>2 DEF isFull
<1>6. taken'[p] \o queue'[p] = taken[p] \o queue[p]
  <2>1. Append(taken[p], Head(queue[p])) \o Tail(queue[p]) = taken[p] \o queue[p]
    BY <1>1, StreamMoved, Zenon
  <2>2. QED BY <1>3, <2>1, Zenon
<1>7. QED
  BY <1>2, <1>3, <1>4, <1>5, <1>6 DEF Stream

\* A step of toPushTry() leaves the other threads and the links alone.
Alone(p) ==
  /\ UNCHANGED <<parents, children, sinkDone, sent, ended>>
  /\ \A q \in Pipes \ {p} : /\ pc'[q] = pc[q] /\ todo'[q] = todo[q]
                            /\ entry'[q] = entry[q]

LEMMA OneThread ==
  ASSUME TypeOK, NEW p \in Pipes, toPushTry(p)
  PROVE  Alone(p)
<1>1. CASE PushBegins(p) \/ LookForEntry(p) \/ LookWhatIsLeft(p)
  <2>1. CASE PushBegins(p) BY <2>1 DEF PushBegins, Alone, TypeOK
  <2>2. CASE LookForEntry(p) BY <2>2 DEF LookForEntry, Alone, TypeOK
  <2>3. CASE LookWhatIsLeft(p) BY <2>3 DEF LookWhatIsLeft, Alone, TypeOK
  <2>4. QED BY <1>1, <2>1, <2>2, <2>3
<1>2. CASE TakeEntry(p)
  BY <1>2 DEF TakeEntry, Alone, TypeOK
<1>3. ASSUME NEW c \in Pipes, LookAtChild(p, c) PROVE Alone(p)
  BY <1>3 DEF LookAtChild, Alone, TypeOK
<1>4. ASSUME NEW c \in Pipes, SendToChild(p, c) PROVE Alone(p)
  BY <1>4 DEF SendToChild, Alone, TypeOK
<1>5. ASSUME NEW c \in Pipes, NotifyChild(p, c) PROVE Alone(p)
  BY <1>5 DEF NotifyChild, Alone, TypeOK
<1>6. QED
  BY <1>1, <1>2, <1>3, <1>4, <1>5 DEF toPushTry

LEMMA PushBeginsEffect ==
  ASSUME TypeOK, NEW p \in Pipes, PushBegins(p)
  PROVE  /\ Alone(p)
         /\ UNCHANGED <<queue, taken, sourceDone, todo, entry>>
         /\ pc[p] = "idle" /\ pc'[p] = "top" /\ p \notin Readers
<1>1. Alone(p)
  BY OneThread DEF toPushTry
<1>2. QED
  BY <1>1 DEF PushBegins, TypeOK

LEMMA LookForEntryEffect ==
  ASSUME TypeOK, NEW p \in Pipes, LookForEntry(p)
  PROVE  /\ Alone(p)
         /\ UNCHANGED <<queue, taken, sourceDone, entry>>
         /\ pc[p] = "top"
         /\ \/ pc'[p] = "left" /\ UNCHANGED todo
            \/ /\ pc'[p] = "scan" /\ todo'[p] = children[p]
               /\ queue[p] # <<>> /\ children[p] # {}
<1>1. Alone(p)
  BY OneThread DEF toPushTry
<1>2. QED
  BY <1>1 DEF LookForEntry, TypeOK

LEMMA LookAtChildEffect ==
  ASSUME TypeOK, NEW p \in Pipes, NEW c \in Pipes, LookAtChild(p, c)
  PROVE  /\ Alone(p)
         /\ UNCHANGED <<queue, taken, sourceDone, entry>>
         /\ pc[p] = "scan" /\ c \in todo[p]
         /\ \/ /\ isFull(c) /\ todo'[p] = {}
               /\ pc'[p] = IF p \in Blocking THEN "left" ELSE "pop"
            \/ /\ ~isFull(c) /\ todo'[p] = todo[p] \ {c}
               /\ pc'[p] = IF todo[p] = {c} THEN "pop" ELSE "scan"
<1>1. Alone(p)
  BY OneThread DEF toPushTry
<1>2. QED
  BY <1>1 DEF LookAtChild, TypeOK

LEMMA TakeEntryEffect ==
  ASSUME TypeInv, NEW p \in Pipes, TakeEntry(p)
  PROVE  /\ Alone(p)
         /\ UNCHANGED sourceDone
         /\ pc[p] = "pop" /\ pc'[p] = "send" /\ todo'[p] = children[p]
         /\ queue[p] # <<>> /\ entry'[p] = Head(queue[p])
         /\ \A q \in Pipes : Stream(q)' = Stream(q)
         /\ taken'[p] = Append(taken[p], Head(queue[p]))
         /\ \A q \in Pipes \ {p} : queue'[q] = queue[q] /\ taken'[q] = taken[q]
         /\ Head(queue[p]) \in Particles /\ Len(queue'[p]) = Len(queue[p]) - 1
         /\ queue' \in [Pipes -> Seq(Particles)]
         /\ taken' \in [Pipes -> Seq(Particles)]
         /\ \A q \in Pipes : Len(queue'[q]) <= SizeMax[q] /\ (isFull(q)' => isFull(q))
<1>0. Alone(p)
  BY OneThread DEF toPushTry, TypeInv
<1>1. /\ UNCHANGED sourceDone
      /\ pc[p] = "pop" /\ pc'[p] = "send" /\ todo'[p] = children[p]
      /\ entry'[p] = Head(queue[p])
      /\ taken' = [taken EXCEPT ![p] = Append(@, Head(queue[p]))]
      /\ queue' = [queue EXCEPT ![p] = Tail(@)]
  BY DEF TakeEntry, TypeInv, TypeOK
<1>2. queue[p] # <<>>
  BY <1>1 DEF TypeInv, Position
<1>3. QED
  BY <1>0, <1>1, <1>2, Taken DEF TypeInv

\* Either the child takes the entry or nothing happens to the queues.
LEMMA SendToChildEffect ==
  ASSUME TypeInv, NEW p \in Pipes, NEW c \in Pipes, SendToChild(p, c)
  PROVE  /\ Alone(p)
         /\ UNCHANGED <<taken, sourceDone>>
         /\ pc[p] = "send" /\ c \in todo[p] /\ c \in children[p]
         /\ entry[p] \in Particles
         /\ todo'[p] = todo[p] \ {c}
         /\ \/ pc'[p] = "top" /\ todo[p] = {c}
            \/ pc'[p] = "send" /\ entry'[p] = entry[p] /\ todo[p] # {c}
         /\ entry'[p] \in 0 .. NumParticles
         /\ queue' \in [Pipes -> Seq(Particles)]
         /\ \A q \in Pipes : Len(queue'[q]) <= SizeMax[q]
         /\ \A q \in Pipes \ {c} : Stream(q)' = Stream(q) /\ queue'[q] = queue[q]
         /\ \/ /\ Accepts(c) /\ Stream(c)' = Append(Stream(c), entry[p])
               /\ queue'[c] # <<>>
            \/ ~Accepts(c) /\ Stream(c)' = Stream(c) /\ UNCHANGED queue
<1>0. Alone(p)
  BY OneThread DEF toPushTry, TypeInv
<1>1. /\ UNCHANGED <<taken, sourceDone>>
      /\ pc[p] = "send" /\ c \in todo[p]
      /\ todo'[p] = todo[p] \ {c}
      /\ \/ pc'[p] = "top" /\ todo[p] = {c}
         \/ pc'[p] = "send" /\ entry'[p] = entry[p] /\ todo[p] # {c}
      /\ entry'[p] \in 0 .. NumParticles
  <2>1. /\ pc[p] = "send" /\ c \in todo[p] /\ UNCHANGED <<taken, sourceDone>>
        /\ todo' = [todo EXCEPT ![p] = @ \ {c}]
        /\ pc' = [pc EXCEPT ![p] = IF todo[p] = {c} THEN "top" ELSE "send"]
        /\ entry' = [entry EXCEPT ![p] = IF todo[p] = {c} THEN 0 ELSE @]
    BY DEF SendToChild
  <2>2. /\ todo'[p] = todo[p] \ {c} /\ entry[p] \in 0 .. NumParticles
        /\ pc'[p] = IF todo[p] = {c} THEN "top" ELSE "send"
        /\ entry'[p] = IF todo[p] = {c} THEN 0 ELSE entry[p]
    BY <2>1 DEF TypeInv, TypeOK
  <2>3. QED BY <2>1, <2>2
<1>2. c \in children[p] /\ entry[p] \in Particles
  BY <1>1 DEF TypeInv, Position
<1>3. CASE Accepts(c)
  <2>1. queue' = [queue EXCEPT ![c] = Append(@, entry[p])] /\ ~isFull(c)
    BY <1>3 DEF SendToChild, Accepts
  <2>2. TypeOK /\ taken' = taken
    BY <1>1 DEF TypeInv
  <2>3. /\ Stream(c)' = Append(Stream(c), entry[p]) /\ queue'[c] # <<>>
        /\ \A q \in Pipes \ {c} : Stream(q)' = Stream(q) /\ queue'[q] = queue[q]
        /\ queue' \in [Pipes -> Seq(Particles)]
        /\ \A q \in Pipes : Len(queue'[q]) <= SizeMax[q]
    BY <1>2, <2>1, <2>2, Committed, Zenon
  <2>4. QED
    BY <1>0, <1>1, <1>2, <1>3, <2>3
<1>4. CASE ~Accepts(c)
  <2>1. UNCHANGED queue
    <3>1. queue' = [queue EXCEPT ![c] = queue[c]]
      BY <1>4 DEF SendToChild
    <3>2. QED BY <3>1 DEF TypeInv, TypeOK
  <2>2. QED
    BY <1>0, <1>1, <1>2, <1>4, <2>1 DEF TypeInv, TypeOK, Stream
<1>5. QED BY <1>3, <1>4

LEMMA LookWhatIsLeftEffect ==
  ASSUME TypeOK, NEW p \in Pipes, LookWhatIsLeft(p)
  PROVE  /\ Alone(p)
         /\ UNCHANGED <<queue, taken, sourceDone, entry>>
         /\ pc[p] = "left"
         /\ \/ pc'[p] = "idle" /\ UNCHANGED todo
            \/ /\ pc'[p] = "notify" /\ todo'[p] = children[p]
               /\ queue[p] = <<>> /\ p \in sourceDone
<1>1. Alone(p)
  BY OneThread DEF toPushTry
<1>2. QED
  BY <1>1 DEF LookWhatIsLeft, entriesLeft, TypeOK

LEMMA NotifyChildEffect ==
  ASSUME TypeInv, NEW p \in Pipes, NEW c \in Pipes, NotifyChild(p, c)
  PROVE  /\ Alone(p)
         /\ UNCHANGED <<queue, taken, entry>>
         /\ pc[p] = "notify" /\ c \in todo[p] /\ c \in children[p]
         /\ todo'[p] = todo[p] \ {c}
         /\ pc'[p] = IF todo[p] = {c} THEN "idle" ELSE "notify"
         /\ sourceDone' = sourceDone \cup {c}
         /\ p \in sourceDone /\ queue[p] = <<>>
<1>1. Alone(p)
  BY OneThread DEF toPushTry, TypeInv
<1>2. QED
  BY <1>1 DEF NotifyChild, TypeInv, TypeOK, Position

LEMMA CommitEffect ==
  ASSUME TypeOK, Commit
  PROVE  /\ UNCHANGED <<taken, sourceDone, sinkDone, parents, children>>
         /\ UNCHANGED <<pc, todo, entry, ended>>
         /\ sent' = sent + 1 /\ sent + 1 \in Particles
         /\ Accepts(Source)
         /\ Stream(Source)' = Append(Stream(Source), sent + 1)
         /\ \A q \in Pipes \ {Source} :
              Stream(q)' = Stream(q) /\ queue'[q] = queue[q]
         /\ queue' \in [Pipes -> Seq(Particles)] /\ queue'[Source] # <<>>
         /\ \A q \in Pipes : Len(queue'[q]) <= SizeMax[q]
<1>1. /\ UNCHANGED <<taken, sourceDone, sinkDone, parents, children>>
      /\ UNCHANGED <<pc, todo, entry, ended>>
      /\ sent' = sent + 1 /\ sent + 1 \in Particles
      /\ Accepts(Source) /\ ~isFull(Source)
      /\ queue' = [queue EXCEPT ![Source] = Append(@, sent + 1)]
  BY DEF Commit, Accepts, TypeOK
<1>2. QED
  BY <1>1, Committed

LEMMA GetEffect ==
  ASSUME TypeOK, NEW p \in Pipes, Get(p)
  PROVE  /\ UNCHANGED <<sourceDone, sinkDone, parents, children>>
         /\ UNCHANGED <<pc, todo, entry, sent, ended>>
         /\ p \in Readers /\ queue[p] # <<>>
         /\ \A q \in Pipes : Stream(q)' = Stream(q)
         /\ \A q \in Pipes \ {p} : queue'[q] = queue[q] /\ taken'[q] = taken[q]
         /\ queue' \in [Pipes -> Seq(Particles)]
         /\ taken' \in [Pipes -> Seq(Particles)]
         /\ \A q \in Pipes : Len(queue'[q]) <= SizeMax[q] /\ (isFull(q)' => isFull(q))
<1>1. /\ UNCHANGED <<sourceDone, sinkDone, parents, children>>
      /\ UNCHANGED <<pc, todo, entry, sent, ended>>
      /\ p \in Readers /\ queue[p] # <<>>
      /\ taken' = [taken EXCEPT ![p] = Append(@, Head(queue[p]))]
      /\ queue' = [queue EXCEPT ![p] = Tail(@)]
  BY DEF Get
<1>2. QED
  BY <1>1, Taken

LEMMA ConnectEffect ==
  ASSUME TypeOK, NEW p \in Pipes, NEW c \in Pipes, Connect(p, c)
  PROVE  /\ UNCHANGED <<queue, taken, sourceDone, sinkDone>>
         /\ UNCHANGED <<pc, todo, entry, sent, ended>>
         /\ c \in Late[p] /\ parents[c] = {} /\ c \notin sinkDone /\ pc[p] = "idle"
         /\ parents'[c] = {p} /\ children'[p] = children[p] \cup {c}
         /\ \A d \in Pipes \ {c} : parents'[d] = parents[d]
         /\ \A q \in Pipes \ {p} : children'[q] = children[q]
BY DEF Connect, TypeOK

LEMMA ParentDisconnectEffect ==
  ASSUME TypeOK, NEW c \in Pipes, ParentDisconnect(c)
  PROVE  /\ UNCHANGED <<queue, taken, sourceDone, sinkDone>>
         /\ UNCHANGED <<pc, todo, entry, sent, ended>>
         /\ c \in sinkDone /\ \A q \in parents[c] : pc[q] = "idle"
         /\ parents'[c] = {}
         /\ \A q \in parents[c] : children'[q] = children[q] \ {c}
         /\ \A q \in Pipes \ parents[c] : children'[q] = children[q]
         /\ \A d \in Pipes \ {c} : parents'[d] = parents[d]
BY DEF ParentDisconnect, TypeOK

\* The remaining steps.
LEMMA OtherEffect ==
  ASSUME \/ SourceDoneSet \/ UNCHANGED vars
         \/ \E p \in Pipes : GetEnd(p) \/ SinkDoneSet(p)
  PROVE  /\ UNCHANGED <<queue, taken, parents, children, pc, todo, entry, sent>>
         /\ sourceDone' \in {sourceDone, sourceDone \cup {Source}}
         /\ sinkDone \subseteq sinkDone'
         /\ sinkDone' \subseteq sinkDone \cup Quitters
         /\ ended' \subseteq ended \cup Readers
BY DEF vars, SourceDoneSet, GetEnd, SinkDoneSet

-----------------------------------------------------------------------------
(***************************************************************************)
(* Types and links.                                                        *)
(***************************************************************************)

LEMMA TypeStep ==
  ASSUME TypeInv, [Next]_vars
  PROVE  TypeOK'
<1>0. TypeOK
  BY DEF TypeInv
<1>1. ASSUME Commit PROVE TypeOK'
  <2>1. /\ UNCHANGED <<taken, sourceDone, sinkDone, parents, children>>
        /\ UNCHANGED <<pc, todo, entry, ended>> /\ sent' \in Particles
        /\ queue' \in [Pipes -> Seq(Particles)]
        /\ \A q \in Pipes : Len(queue'[q]) <= SizeMax[q]
    BY <1>0, <1>1, CommitEffect, Zenon
  <2>2. sent' \in 0 .. NumParticles
    BY <2>1, PipeAssumption DEF Particles
  <2>3. QED BY <1>0, <2>1, <2>2 DEF TypeOK
<1>2. ASSUME NEW p \in Pipes, Get(p) PROVE TypeOK'
  <2>1. \A q \in Pipes : Len(queue'[q]) <= SizeMax[q]
    BY <1>0, <1>2, GetEffect
  <2>2. /\ queue' \in [Pipes -> Seq(Particles)]
        /\ taken' \in [Pipes -> Seq(Particles)]
        /\ UNCHANGED <<sourceDone, sinkDone, parents, children>>
        /\ UNCHANGED <<pc, todo, entry, sent, ended>>
    BY <1>0, <1>2, GetEffect
  <2>3. QED
    BY <1>0, <2>1, <2>2 DEF TypeOK
<1>3. ASSUME NEW c \in Pipes, ParentDisconnect(c) PROVE TypeOK'
  BY <1>0, <1>3 DEF ParentDisconnect, TypeOK
<1>4. ASSUME NEW p \in Pipes, NEW c \in Pipes, Connect(p, c) PROVE TypeOK'
  <2>1. /\ parents' \in [Pipes -> SUBSET Pipes]
        /\ children' \in [Pipes -> SUBSET Pipes]
    BY <1>0, <1>4 DEF Connect, TypeOK
  <2>2. UNCHANGED <<queue, sourceDone, sinkDone, activation, sent, history>>
    BY <1>4 DEF Connect
  <2>3. QED
    BY <1>0, <2>1, <2>2 DEF TypeOK, activation, history
<1>5. ASSUME NEW p \in Pipes, PushBegins(p) PROVE TypeOK'
  BY <1>0, <1>5 DEF PushBegins, TypeOK
<1>6. ASSUME NEW p \in Pipes, LookForEntry(p) PROVE TypeOK'
  <2>1. children[p] \in SUBSET Pipes
    BY <1>0 DEF TypeOK
  <2>2. todo' \in [Pipes -> SUBSET Pipes]
    BY <1>0, <1>6, <2>1 DEF LookForEntry, TypeOK
  <2>3. QED BY <1>0, <1>6, <2>2 DEF LookForEntry, TypeOK
<1>7. ASSUME NEW p \in Pipes, NEW c \in Pipes, LookAtChild(p, c)
      PROVE  TypeOK'
  BY <1>0, <1>7 DEF LookAtChild, isFull, TypeOK
<1>8. ASSUME NEW p \in Pipes, TakeEntry(p) PROVE TypeOK'
  <2>1. todo' = [todo EXCEPT ![p] = children[p]] /\ children[p] \in SUBSET Pipes
    BY <1>0, <1>8 DEF TakeEntry, TypeOK
  <2>2. /\ entry' = [entry EXCEPT ![p] = Head(queue[p])]
        /\ Head(queue[p]) \in Particles
    BY <1>8, TakeEntryEffect DEF TakeEntry
  <2>3. \A q \in Pipes : Len(queue'[q]) <= SizeMax[q]
    BY <1>0, <1>8, TakeEntryEffect
  <2>4. /\ queue' \in [Pipes -> Seq(Particles)]
        /\ taken' \in [Pipes -> Seq(Particles)]
    BY <1>8, TakeEntryEffect
  <2>5. /\ pc' \in [Pipes -> {"idle", "top", "scan", "pop", "send", "left", "notify"}]
        /\ todo' \in [Pipes -> SUBSET Pipes]
        /\ entry' \in [Pipes -> 0 .. NumParticles]
    <3>1. pc' \in [Pipes -> {"idle", "top", "scan", "pop", "send", "left", "notify"}]
      BY <1>0, <1>8 DEF TakeEntry, TypeOK
    <3>2. todo' \in [Pipes -> SUBSET Pipes]
      BY <1>0, <1>8, <2>1, <2>2 DEF TakeEntry, TypeOK
    <3>3. entry' \in [Pipes -> 0 .. NumParticles]
      <4>1. entry' = [entry EXCEPT ![p] = Head(queue[p])]
        BY <1>8 DEF TakeEntry
      <4>2. Head(queue[p]) \in 0 .. NumParticles
        BY <2>1, <2>2 DEF Particles
      <4>3. entry \in [Pipes -> 0 .. NumParticles]
        BY <1>0 DEF TypeOK
      <4>4. QED BY <4>1, <4>2, <4>3
    <3>4. QED BY <3>1, <3>2, <3>3
  <2>6. UNCHANGED <<sourceDone, sinkDone, parents, children, sent, ended>>
    BY <1>8 DEF TakeEntry
  <2>7. QED
    BY <1>0, <2>3, <2>4, <2>5, <2>6 DEF TypeOK
<1>9. ASSUME NEW p \in Pipes, NEW c \in Pipes, SendToChild(p, c)
      PROVE  TypeOK'
  <2>1. /\ queue' \in [Pipes -> Seq(Particles)]
        /\ \A q \in Pipes : Len(queue'[q]) <= SizeMax[q]
    BY <1>9, SendToChildEffect
  <2>2. /\ pc' \in [Pipes -> {"idle", "top", "scan", "pop", "send", "left", "notify"}]
        /\ todo' \in [Pipes -> SUBSET Pipes]
        /\ entry' \in [Pipes -> 0 .. NumParticles]
    <3>1. pc' \in [Pipes -> {"idle", "top", "scan", "pop", "send", "left", "notify"}]
      BY <1>0, <1>9 DEF SendToChild, TypeOK
    <3>2. todo' \in [Pipes -> SUBSET Pipes]
      BY <1>0, <1>9 DEF SendToChild, TypeOK
    <3>3. entry' \in [Pipes -> 0 .. NumParticles]
      BY <1>0, <1>9 DEF SendToChild, TypeOK
    <3>4. QED BY <3>1, <3>2, <3>3
  <2>3. UNCHANGED <<taken, sourceDone, sinkDone, parents, children, sent, ended>>
    BY <1>9 DEF SendToChild
  <2>4. QED
    BY <1>0, <2>1, <2>2, <2>3 DEF TypeOK
<1>10. ASSUME NEW p \in Pipes, LookWhatIsLeft(p) PROVE TypeOK'
  <2>1. children[p] \in SUBSET Pipes
    BY <1>0 DEF TypeOK
  <2>2. todo' \in [Pipes -> SUBSET Pipes]
    BY <1>0, <1>10, <2>1 DEF LookWhatIsLeft, TypeOK
  <2>3. QED BY <1>0, <1>10, <2>2 DEF LookWhatIsLeft, entriesLeft, TypeOK
<1>11. ASSUME NEW p \in Pipes, NEW c \in Pipes, NotifyChild(p, c)
      PROVE  TypeOK'
  BY <1>0, <1>11 DEF NotifyChild, TypeOK
<1>12. CASE \/ SourceDoneSet \/ UNCHANGED vars
           \/ \E p \in Pipes : GetEnd(p) \/ SinkDoneSet(p)
  BY <1>0, <1>12, OtherEffect DEF TypeOK
<1>13. QED
  BY <1>1, <1>2, <1>3, <1>4, <1>5, <1>6, <1>7, <1>8, <1>9, <1>10, <1>11,
     <1>12
  DEF Next, toPushTry

LEMMA LinkedStep ==
  ASSUME TypeInv, [Next]_vars
  PROVE  Linked'
<1>0. TypeOK
  BY DEF TypeInv
<1>1. ASSUME Commit PROVE Linked'
  BY <1>0, <1>1, CommitEffect DEF TypeInv, Linked
<1>2. ASSUME NEW p \in Pipes, Get(p) PROVE Linked'
  BY <1>0, <1>2, GetEffect DEF TypeInv, Linked
<1>3. ASSUME NEW c \in Pipes, ParentDisconnect(c) PROVE Linked'
  <2>1. /\ UNCHANGED sinkDone /\ c \in sinkDone
        /\ \A q \in Pipes :
             children'[q] = IF q \in parents[c] THEN children[q] \ {c} ELSE children[q]
        /\ \A q, d \in Pipes : q \in parents'[d] <=> q \in parents[d] /\ d # c
    BY <1>0, <1>3, ParentDisconnectEffect
  <2>2. ASSUME NEW q \in Pipes, NEW d \in Pipes
        PROVE  d \in children'[q] <=> d \in children[q] /\ ~(d = c /\ q \in parents[c])
    <3>1. CASE q \in parents[c]
      <4>1. children'[q] = children[q] \ {c}
        BY <2>1, <3>1
      <4>2. QED BY <3>1, <4>1
    <3>2. CASE q \notin parents[c]
      BY <2>1, <3>2
    <3>3. QED BY <3>1, <3>2
  <2>3. \A q, d \in Pipes : d \in children'[q] <=> q \in parents'[d]
    BY <2>1, <2>2 DEF TypeInv, Linked
  <2>4. \A q \in Pipes : /\ children'[q] \subseteq children[q]
                        /\ children[q] \ {c} \subseteq children'[q]
    BY <2>1, Zenon
  <2>5. QED BY <2>1, <2>3, <2>4 DEF TypeInv, Linked
<1>4. ASSUME NEW p \in Pipes, NEW c \in Pipes, Connect(p, c) PROVE Linked'
  <2>1. /\ c \in Late[p] /\ parents[c] = {} /\ UNCHANGED sinkDone
        /\ \A q, d \in Pipes :
             /\ d \in children'[q] <=> d \in children[q] \/ (q = p /\ d = c)
             /\ q \in parents'[d] <=> q \in parents[d] \/ (q = p /\ d = c)
        /\ \A q \in Pipes : children'[q] \subseteq Wired[q] \cup Late[q]
        /\ \A q \in Pipes : children[q] \subseteq children'[q]
    BY <1>0, <1>4, ConnectEffect DEF TypeInv, Linked
  <2>2. QED
    BY <2>1 DEF TypeInv, Linked
<1>5. ASSUME NEW p \in Pipes, PushBegins(p) PROVE Linked'
  BY <1>0, <1>5, PushBeginsEffect DEF TypeInv, Linked, Alone
<1>6. ASSUME NEW p \in Pipes, LookForEntry(p) PROVE Linked'
  BY <1>0, <1>6, LookForEntryEffect DEF TypeInv, Linked, Alone
<1>7. ASSUME NEW p \in Pipes, NEW c \in Pipes, LookAtChild(p, c)
      PROVE  Linked'
  BY <1>0, <1>7, LookAtChildEffect DEF TypeInv, Linked, Alone
<1>8. ASSUME NEW p \in Pipes, TakeEntry(p) PROVE Linked'
  BY <1>0, <1>8, TakeEntryEffect DEF TypeInv, Linked, Alone
<1>9. ASSUME NEW p \in Pipes, NEW c \in Pipes, SendToChild(p, c)
      PROVE  Linked'
  BY <1>0, <1>9, SendToChildEffect DEF TypeInv, Linked, Alone
<1>10. ASSUME NEW p \in Pipes, LookWhatIsLeft(p) PROVE Linked'
  BY <1>0, <1>10, LookWhatIsLeftEffect DEF TypeInv, Linked, Alone
<1>11. ASSUME NEW p \in Pipes, NEW c \in Pipes, NotifyChild(p, c)
      PROVE  Linked'
  BY <1>0, <1>11, NotifyChildEffect DEF TypeInv, Linked, Alone
<1>12. CASE \/ SourceDoneSet \/ UNCHANGED vars
           \/ \E p \in Pipes : GetEnd(p) \/ SinkDoneSet(p)
  BY <1>0, <1>12, OtherEffect DEF TypeInv, Linked
<1>13. QED
  BY <1>1, <1>2, <1>3, <1>4, <1>5, <1>6, <1>7, <1>8, <1>9, <1>10, <1>11,
     <1>12
  DEF Next, toPushTry

LEMMA PositionStep ==
  ASSUME TypeInv, [Next]_vars
  PROVE  Position'
<1>0. TypeOK
  BY DEF TypeInv
<1>1. ASSUME Commit PROVE Position'
  BY <1>0, <1>1, CommitEffect DEF Accepts, TypeInv, Position
<1>2. ASSUME NEW p \in Pipes, Get(p) PROVE Position'
  BY <1>0, <1>2, GetEffect DEF TypeInv, Position
<1>3. ASSUME NEW c \in Pipes, ParentDisconnect(c) PROVE Position'
  BY <1>0, <1>3, ParentDisconnectEffect DEF TypeInv, Position
<1>4. ASSUME NEW p \in Pipes, NEW c \in Pipes, Connect(p, c) PROVE Position'
  BY <1>0, <1>4, ConnectEffect DEF TypeInv, Position
<1>5. ASSUME NEW p \in Pipes, PushBegins(p) PROVE Position'
  BY <1>0, <1>5, PushBeginsEffect DEF TypeInv, Position, Alone
<1>6. ASSUME NEW p \in Pipes, LookForEntry(p) PROVE Position'
  BY <1>0, <1>6, LookForEntryEffect DEF TypeInv, Position, Alone
<1>7. ASSUME NEW p \in Pipes, NEW c \in Pipes, LookAtChild(p, c)
      PROVE  Position'
  BY <1>0, <1>7, LookAtChildEffect DEF TypeInv, Position, Alone
<1>8. ASSUME NEW p \in Pipes, TakeEntry(p) PROVE Position'
  <2>1. /\ Alone(p) /\ UNCHANGED sourceDone
        /\ pc[p] = "pop" /\ pc'[p] = "send" /\ todo'[p] = children[p]
        /\ entry'[p] \in Particles
        /\ \A q \in Pipes \ {p} : queue'[q] = queue[q]
    BY <1>8, TakeEntryEffect
  <2>2. QED
    BY <2>1 DEF TypeInv, Position, Alone
<1>9. ASSUME NEW p \in Pipes, NEW c \in Pipes, SendToChild(p, c)
      PROVE  Position'
  <2>1. /\ Alone(p) /\ UNCHANGED sourceDone
        /\ pc[p] = "send" /\ todo'[p] \subseteq todo[p]
        /\ pc'[p] = "top" \/ (pc'[p] = "send" /\ entry'[p] = entry[p])
    BY <1>9, SendToChildEffect
  <2>2. \A q \in Pipes \ {c} : queue'[q] = queue[q]
    BY <1>9, SendToChildEffect
  <2>3. queue'[c] = queue[c] \/ (queue'[c] # <<>> /\ c \notin sourceDone)
    BY <1>9, SendToChildEffect DEF Accepts
  <2>4. QED
    BY <2>1, <2>2, <2>3 DEF TypeInv, Position, Alone
<1>10. ASSUME NEW p \in Pipes, LookWhatIsLeft(p) PROVE Position'
  BY <1>0, <1>10, LookWhatIsLeftEffect DEF TypeInv, Position, Alone
<1>11. ASSUME NEW p \in Pipes, NEW c \in Pipes, NotifyChild(p, c)
      PROVE  Position'
  BY <1>0, <1>11, NotifyChildEffect DEF TypeInv, Position, Alone
<1>12. CASE \/ SourceDoneSet \/ UNCHANGED vars
           \/ \E p \in Pipes : GetEnd(p) \/ SinkDoneSet(p)
  BY <1>0, <1>12, OtherEffect DEF TypeInv, Position
<1>13. QED
  BY <1>1, <1>2, <1>3, <1>4, <1>5, <1>6, <1>7, <1>8, <1>9, <1>10, <1>11,
     <1>12
  DEF Next, toPushTry

-----------------------------------------------------------------------------
(***************************************************************************)
(* Room, order and completeness.                                           *)
(***************************************************************************)

LEMMA StreamType ==
  ASSUME TypeOK, NEW p \in Pipes
  PROVE  /\ Stream(p) \in Seq(Particles) /\ taken[p] \in Seq(Particles)
         /\ Len(Stream(p)) \in Nat /\ Len(taken[p]) \in Nat
         /\ Len(taken[p]) <= Len(Stream(p))
         /\ \A i \in 1 .. Len(taken[p]) : Stream(p)[i] = taken[p][i]
         /\ queue[p] # <<>> => /\ Stream(p)[Len(taken[p]) + 1] = Head(queue[p])
                               /\ Len(taken[p]) + 1 <= Len(Stream(p))
<1>1. taken[p] \in Seq(Particles) /\ queue[p] \in Seq(Particles)
  BY DEF TypeOK
<1>2. Len(taken[p]) \in Nat /\ Len(queue[p]) \in Nat
  BY <1>1
<1>3. /\ Stream(p) \in Seq(Particles)
      /\ Len(Stream(p)) = Len(taken[p]) + Len(queue[p])
      /\ Len(Stream(p)) \in Nat /\ Len(taken[p]) <= Len(Stream(p))
      /\ \A i \in 1 .. Len(taken[p]) : Stream(p)[i] = taken[p][i]
      /\ queue[p] # <<>> => /\ Stream(p)[Len(taken[p]) + 1] = Head(queue[p])
                            /\ Len(queue[p]) > 0
  BY <1>1, ElementsOfConcat, Zenon DEF Stream
<1>4. ASSUME queue[p] # <<>> PROVE Len(taken[p]) + 1 <= Len(Stream(p))
  <2>1. Len(queue[p]) > 0 /\ Len(Stream(p)) = Len(taken[p]) + Len(queue[p])
    BY <1>3, <1>4
  <2>2. QED BY <1>2, <2>1
<1>5. QED
  BY <1>1, <1>2, <1>3, <1>4

\* An element of an extended sequence is an old one or the last.
LEMMA OldOrLast ==
  ASSUME NEW s \in Seq(Particles), NEW e \in Particles,
         NEW i \in 1 .. Len(Append(s, e))
  PROVE  \/ i \in 1 .. Len(s) /\ Append(s, e)[i] = s[i]
         \/ i = Len(s) + 1 /\ Append(s, e)[i] = e
BY ElementsOfAppend

\* No step but SendToChild() and Commit adds to the stream of a pipe.
LEMMA StreamSame ==
  ASSUME UNCHANGED <<queue, taken>>
  PROVE  /\ \A q \in Pipes : Stream(q)' = Stream(q)
         /\ \A q \in Pipes : isFull(q)' <=> isFull(q)
BY DEF Stream, isFull

\* While children and what they have stay, nothing they have is new.
LEMMA InheritedKept ==
  ASSUME TypeOK, Inherited,
         \A q \in Pipes : children'[q] \subseteq children[q],
         \A q \in Pipes : \A k \in children[q] :
           Stream(k)' = Stream(k) /\ taken'[q] = taken[q]
  PROVE  Inherited'
<1>1. SUFFICES ASSUME NEW q \in Pipes, NEW k \in children'[q],
                      NEW i \in 1 .. Len(Stream(k)')
               PROVE  \E j \in 1 .. Len(taken'[q]) : Stream(k)'[i] = taken'[q][j]
  BY DEF Inherited
<1>2. k \in children[q] /\ k \in Pipes /\ Stream(k)' = Stream(k)
  BY DEF TypeOK
<1>3. taken'[q] = taken[q]
  BY <1>2
<1>4. PICK j \in 1 .. Len(taken[q]) : Stream(k)[i] = taken[q][j]
  BY <1>2 DEF Inherited
<1>5. QED
  BY <1>2, <1>3, <1>4

\* Only its parent commits to a child, and it looks before the first and not between.
LEMMA HasRoomStep ==
  ASSUME IInv, [Next]_vars
  PROVE  HasRoom'
<1>0. TypeInv /\ TypeOK
  BY DEF TypeInv, IInv
<1>1. ASSUME Commit PROVE HasRoom'
  <2>1. \A q \in Pipes \ {Source} : isFull(q)' <=> isFull(q)
    BY <1>0, <1>1, CommitEffect DEF isFull
  <2>2. UNCHANGED <<children, pc, todo>> /\ \A q \in Pipes : Source \notin children[q]
    BY <1>0, <1>1, CommitEffect DEF TypeInv, Linked
  <2>3. QED
    BY <1>0, <2>1, <2>2 DEF IInv, TypeOK, HasRoom
<1>2. ASSUME NEW p \in Pipes, Get(p) PROVE HasRoom'
  BY <1>0, <1>2, GetEffect DEF IInv, TypeInv, Linked, Position, HasRoom
<1>3. ASSUME NEW c \in Pipes, ParentDisconnect(c) PROVE HasRoom'
  <2>1. /\ UNCHANGED <<pc, todo>> /\ \A q \in Pipes : children'[q] \subseteq children[q]
        /\ \A q \in Pipes : isFull(q)' <=> isFull(q)
    BY <1>0, <1>3, ParentDisconnectEffect, StreamSame
  <2>2. \A q \in Pipes : children[q] \subseteq Pipes
    BY <1>0 DEF TypeOK
  <2>3. QED
    BY <1>0, <2>1, <2>2 DEF IInv, HasRoom
<1>4. ASSUME NEW p \in Pipes, NEW c \in Pipes, Connect(p, c) PROVE HasRoom'
  BY <1>0, <1>4, ConnectEffect, StreamSame DEF IInv, TypeInv, Linked, Position, HasRoom
<1>5. ASSUME NEW p \in Pipes, PushBegins(p) PROVE HasRoom'
  BY <1>0, <1>5, PushBeginsEffect, StreamSame DEF IInv, TypeInv, Linked, Position, HasRoom, Alone
<1>6. ASSUME NEW p \in Pipes, LookForEntry(p) PROVE HasRoom'
  BY <1>0, <1>6, LookForEntryEffect, StreamSame DEF IInv, TypeInv, Linked, Position, HasRoom, Alone
<1>7. ASSUME NEW p \in Pipes, NEW c \in Pipes, LookAtChild(p, c)
      PROVE  HasRoom'
  BY <1>0, <1>7, LookAtChildEffect, StreamSame DEF IInv, TypeInv, Linked, Position, HasRoom, Alone
<1>8. ASSUME NEW p \in Pipes, TakeEntry(p) PROVE HasRoom'
  <2>1. /\ Alone(p) /\ pc[p] = "pop" /\ pc'[p] = "send" /\ todo'[p] = children[p]
        /\ \A q \in Pipes : isFull(q)' => isFull(q)
    BY <1>0, <1>8, TakeEntryEffect
  <2>2. QED
    BY <1>0, <2>1 DEF IInv, TypeOK, HasRoom, Alone
<1>9. ASSUME NEW p \in Pipes, NEW c \in Pipes, SendToChild(p, c)
      PROVE  HasRoom'
  <2>1. \A q \in Pipes \ {c} : isFull(q)' <=> isFull(q)
    BY <1>0, <1>9, SendToChildEffect DEF isFull
  <2>2. \A q \in Pipes \ {p} : c \notin children[q]
    BY <1>0, <1>9, SendToChildEffect DEF TypeInv, Linked
  <2>3. /\ Alone(p) /\ pc[p] = "send" /\ todo'[p] = todo[p] \ {c}
        /\ pc'[p] \in {"top", "send"}
    BY <1>0, <1>9, SendToChildEffect
  <2>4. SUFFICES ASSUME NEW q \in Blocking, NEW d \in children'[q],
                        \/ pc'[q] = "scan" /\ d \notin todo'[q]
                        \/ pc'[q] = "pop"
                        \/ pc'[q] = "send" /\ d \in todo'[q]
                 PROVE  ~isFull(d)'
    BY DEF HasRoom
  <2>5. q \in Pipes /\ d \in children[q] /\ d \in Pipes
    BY <1>0, <2>3, <2>4, PipeAssumption DEF Alone, TypeOK
  <2>6. d # c
    BY <2>2, <2>3, <2>4, <2>5
  <2>7. ~isFull(d)
    BY <2>3, <2>4, <2>5 DEF Alone, IInv, HasRoom
  <2>8. QED BY <2>1, <2>5, <2>6, <2>7
<1>10. ASSUME NEW p \in Pipes, LookWhatIsLeft(p) PROVE HasRoom'
  <2>1. /\ Alone(p) /\ pc'[p] \in {"idle", "notify"}
        /\ \A q \in Pipes : isFull(q)' <=> isFull(q)
    BY <1>0, <1>10, LookWhatIsLeftEffect, StreamSame
  <2>2. QED
    BY <1>0, <2>1, PipeAssumption DEF IInv, TypeOK, HasRoom, Alone
<1>11. ASSUME NEW p \in Pipes, NEW c \in Pipes, NotifyChild(p, c)
      PROVE  HasRoom'
  <2>1. /\ Alone(p) /\ pc'[p] \in {"idle", "notify"}
        /\ \A q \in Pipes : isFull(q)' <=> isFull(q)
    BY <1>0, <1>11, NotifyChildEffect, StreamSame
  <2>2. QED
    BY <1>0, <2>1, PipeAssumption DEF IInv, TypeOK, HasRoom, Alone
<1>12. CASE \/ SourceDoneSet \/ UNCHANGED vars
           \/ \E p \in Pipes : GetEnd(p) \/ SinkDoneSet(p)
  BY <1>0, <1>12, OtherEffect, StreamSame DEF IInv, TypeInv, Linked, Position, HasRoom
<1>13. QED
  BY <1>1, <1>2, <1>3, <1>4, <1>5, <1>6, <1>7, <1>8, <1>9, <1>10, <1>11,
     <1>12
  DEF Next, toPushTry

LEMMA FreshStep ==
  ASSUME IInv, [Next]_vars
  PROVE  Fresh'
<1>0. TypeInv /\ TypeOK
  BY DEF TypeInv, IInv
<1>1. ASSUME Commit PROVE Fresh'
  BY <1>0, <1>1, CommitEffect DEF IInv, TypeInv, Linked, OrderInv, Fresh
<1>2. ASSUME NEW p \in Pipes, Get(p) PROVE Fresh'
  <2>1. /\ UNCHANGED <<parents, sinkDone, sourceDone>>
        /\ \A q \in Pipes : Stream(q)' = Stream(q)
    BY <1>0, <1>2, GetEffect
  <2>2. QED
    BY <2>1 DEF IInv, OrderInv, Fresh
<1>3. ASSUME NEW c \in Pipes, ParentDisconnect(c) PROVE Fresh'
  BY <1>0, <1>3, ParentDisconnectEffect, StreamSame DEF IInv, TypeInv, Linked, OrderInv, Fresh
<1>4. ASSUME NEW p \in Pipes, NEW c \in Pipes, Connect(p, c) PROVE Fresh'
  BY <1>0, <1>4, ConnectEffect, StreamSame DEF IInv, TypeInv, Linked, OrderInv, Fresh
<1>5. ASSUME NEW p \in Pipes, PushBegins(p) PROVE Fresh'
  BY <1>0, <1>5, PushBeginsEffect, StreamSame DEF IInv, TypeInv, Linked, OrderInv, Fresh, Alone
<1>6. ASSUME NEW p \in Pipes, LookForEntry(p) PROVE Fresh'
  BY <1>0, <1>6, LookForEntryEffect, StreamSame DEF IInv, TypeInv, Linked, OrderInv, Fresh, Alone
<1>7. ASSUME NEW p \in Pipes, NEW c \in Pipes, LookAtChild(p, c)
      PROVE  Fresh'
  BY <1>0, <1>7, LookAtChildEffect, StreamSame DEF IInv, TypeInv, Linked, OrderInv, Fresh, Alone
<1>8. ASSUME NEW p \in Pipes, TakeEntry(p) PROVE Fresh'
  <2>1. /\ UNCHANGED <<parents, sinkDone, sourceDone>>
        /\ \A q \in Pipes : Stream(q)' = Stream(q)
    BY <1>0, <1>8, TakeEntryEffect DEF Alone
  <2>2. QED
    BY <2>1 DEF IInv, OrderInv, Fresh
<1>9. ASSUME NEW p \in Pipes, NEW c \in Pipes, SendToChild(p, c)
      PROVE  Fresh'
  <2>1. /\ UNCHANGED <<parents, sinkDone, sourceDone>> /\ parents[c] # {}
        /\ \A q \in Pipes \ {c} : Stream(q)' = Stream(q)
    <3>1. c \in children[p]
      BY <1>0, <1>9, SendToChildEffect
    <3>2. p \in parents[c]
      BY <1>0, <3>1 DEF TypeInv, Linked
    <3>3. QED BY <1>0, <1>9, <3>2, SendToChildEffect DEF Alone
  <2>2. QED
    BY <2>1 DEF IInv, OrderInv, Fresh
<1>10. ASSUME NEW p \in Pipes, LookWhatIsLeft(p) PROVE Fresh'
  BY <1>0, <1>10, LookWhatIsLeftEffect, StreamSame DEF IInv, TypeInv, Linked, OrderInv, Fresh, Alone
<1>11. ASSUME NEW p \in Pipes, NEW c \in Pipes, NotifyChild(p, c)
      PROVE  Fresh'
  BY <1>0, <1>11, NotifyChildEffect, StreamSame DEF IInv, TypeInv, Linked, OrderInv, Fresh, Alone
<1>12. CASE \/ SourceDoneSet \/ UNCHANGED vars
           \/ \E p \in Pipes : GetEnd(p) \/ SinkDoneSet(p)
  <2>1. /\ UNCHANGED parents /\ sinkDone \subseteq sinkDone'
        /\ sourceDone' \in {sourceDone, sourceDone \cup {Source}}
        /\ \A q \in Pipes : Stream(q)' = Stream(q)
    BY <1>12, OtherEffect, StreamSame
  <2>2. QED
    BY <2>1 DEF IInv, OrderInv, Fresh
<1>13. QED
  BY <1>1, <1>2, <1>3, <1>4, <1>5, <1>6, <1>7, <1>8, <1>9, <1>10, <1>11,
     <1>12
  DEF Next, toPushTry

LEMMA InheritedStep ==
  ASSUME IInv, [Next]_vars
  PROVE  Inherited'
<1>0. TypeInv /\ TypeOK
  BY DEF TypeInv, IInv
<1>1. ASSUME Commit PROVE Inherited'
  <2>1. \A q \in Pipes : children'[q] \subseteq children[q]
    BY <1>0, <1>1, CommitEffect
  <2>2. \A q \in Pipes : \A k \in children[q] :
          Stream(k)' = Stream(k) /\ taken'[q] = taken[q]
    BY <1>0, <1>1, CommitEffect DEF TypeOK, TypeInv, Linked
  <2>3. QED
    BY <1>0, <2>1, <2>2, InheritedKept DEF IInv, OrderInv
<1>2. ASSUME NEW p \in Pipes, Get(p) PROVE Inherited'
  <2>1. \A q \in Pipes : children'[q] \subseteq children[q]
    BY <1>0, <1>2, GetEffect
  <2>2. \A q \in Pipes : \A k \in children[q] :
          Stream(k)' = Stream(k) /\ taken'[q] = taken[q]
    BY <1>0, <1>2, GetEffect DEF TypeOK, TypeInv, Linked
  <2>3. QED
    BY <1>0, <2>1, <2>2, InheritedKept DEF IInv, OrderInv
<1>3. ASSUME NEW c \in Pipes, ParentDisconnect(c) PROVE Inherited'
  <2>1. \A q \in Pipes : children'[q] \subseteq children[q]
    BY <1>0, <1>3, ParentDisconnectEffect
  <2>2. \A q \in Pipes : \A k \in children[q] :
          Stream(k)' = Stream(k) /\ taken'[q] = taken[q]
    BY <1>0, <1>3, ParentDisconnectEffect, StreamSame DEF TypeOK
  <2>3. QED
    BY <1>0, <2>1, <2>2, InheritedKept DEF IInv, OrderInv
<1>4. ASSUME NEW p \in Pipes, NEW c \in Pipes, Connect(p, c)
      PROVE  Inherited'
  <2>1. /\ UNCHANGED taken /\ \A q \in Pipes : Stream(q)' = Stream(q)
        /\ \A q \in Pipes : children'[q] \subseteq children[q] \cup {c}
    BY <1>0, <1>4, ConnectEffect, StreamSame
  <2>2. Stream(c) = <<>>
    BY <1>0, <1>4, ConnectEffect DEF IInv, OrderInv, Fresh
  <2>3. \A q \in Pipes : children[q] \subseteq Pipes
    BY <1>0 DEF TypeOK
  <2>4. SUFFICES ASSUME NEW q \in Pipes, NEW k \in children'[q],
                        NEW i \in 1 .. Len(Stream(k)')
                 PROVE  \E j \in 1 .. Len(taken'[q]) : Stream(k)'[i] = taken'[q][j]
    BY DEF Inherited
  <2>5. CASE k = c
    <3>1. Len(Stream(k)') = 0
      BY <2>1, <2>2, <2>5
    <3>2. QED BY <3>1
  <2>6. CASE k # c
    <3>1. k \in children[q] /\ Stream(k)' = Stream(k) /\ i \in 1 .. Len(Stream(k))
      BY <2>1, <2>3, <2>6
    <3>2. PICK j \in 1 .. Len(taken[q]) : Stream(k)[i] = taken[q][j]
      BY <3>1 DEF IInv, OrderInv, Inherited
    <3>3. QED BY <2>1, <3>1, <3>2
  <2>7. QED BY <2>5, <2>6
<1>5. ASSUME NEW p \in Pipes, PushBegins(p) PROVE Inherited'
  <2>1. \A q \in Pipes : children'[q] \subseteq children[q]
    BY <1>0, <1>5, PushBeginsEffect DEF Alone
  <2>2. \A q \in Pipes : \A k \in children[q] :
          Stream(k)' = Stream(k) /\ taken'[q] = taken[q]
    BY <1>0, <1>5, PushBeginsEffect, StreamSame DEF TypeOK
  <2>3. QED
    BY <1>0, <2>1, <2>2, InheritedKept DEF IInv, OrderInv
<1>6. ASSUME NEW p \in Pipes, LookForEntry(p) PROVE Inherited'
  <2>1. \A q \in Pipes : children'[q] \subseteq children[q]
    BY <1>0, <1>6, LookForEntryEffect DEF Alone
  <2>2. \A q \in Pipes : \A k \in children[q] :
          Stream(k)' = Stream(k) /\ taken'[q] = taken[q]
    BY <1>0, <1>6, LookForEntryEffect, StreamSame DEF TypeOK
  <2>3. QED
    BY <1>0, <2>1, <2>2, InheritedKept DEF IInv, OrderInv
<1>7. ASSUME NEW p \in Pipes, NEW c \in Pipes, LookAtChild(p, c)
      PROVE  Inherited'
  <2>1. \A q \in Pipes : children'[q] \subseteq children[q]
    BY <1>0, <1>7, LookAtChildEffect DEF Alone
  <2>2. \A q \in Pipes : \A k \in children[q] :
          Stream(k)' = Stream(k) /\ taken'[q] = taken[q]
    BY <1>0, <1>7, LookAtChildEffect, StreamSame DEF TypeOK
  <2>3. QED
    BY <1>0, <2>1, <2>2, InheritedKept DEF IInv, OrderInv
<1>8. ASSUME NEW p \in Pipes, TakeEntry(p) PROVE Inherited'
  <2>1. /\ UNCHANGED children /\ \A q \in Pipes : Stream(q)' = Stream(q)
        /\ \A q \in Pipes \ {p} : taken'[q] = taken[q]
        /\ taken'[p] = Append(taken[p], Head(queue[p]))
        /\ Head(queue[p]) \in Particles
    BY <1>0, <1>8, TakeEntryEffect DEF Alone
  <2>2. taken[p] \in Seq(Particles) /\ \A q \in Pipes : children[q] \subseteq Pipes
    BY <1>0 DEF TypeOK
  <2>3. \A j \in 1 .. Len(taken[p]) : /\ j \in 1 .. Len(taken'[p])
                                      /\ taken'[p][j] = taken[p][j]
    BY <2>1, <2>2, ElementsOfAppend
  <2>4. SUFFICES ASSUME NEW q \in Pipes, NEW k \in children'[q],
                        NEW i \in 1 .. Len(Stream(k)')
                 PROVE  \E j \in 1 .. Len(taken'[q]) : Stream(k)'[i] = taken'[q][j]
    BY DEF Inherited
  <2>5. k \in children[q] /\ Stream(k)' = Stream(k)
    BY <2>1, <2>2
  <2>6. PICK j \in 1 .. Len(taken[q]) : Stream(k)[i] = taken[q][j]
    BY <2>5 DEF IInv, OrderInv, Inherited
  <2>7. j \in 1 .. Len(taken'[q]) /\ taken'[q][j] = taken[q][j]
    BY <2>1, <2>3
  <2>8. QED BY <2>5, <2>6, <2>7
<1>9. ASSUME NEW p \in Pipes, NEW c \in Pipes, SendToChild(p, c)
      PROVE  Inherited'
  <2>1. /\ UNCHANGED <<children, taken>> /\ c \in children[p]
        /\ entry[p] \in Particles
        /\ \A q \in Pipes \ {c} : Stream(q)' = Stream(q)
        /\ Stream(c)' \in {Stream(c), Append(Stream(c), entry[p])}
    BY <1>0, <1>9, SendToChildEffect DEF Alone
  <2>8. \E j \in 1 .. Len(taken[p]) : entry[p] = taken[p][j]
    BY <1>0, <1>9, SendToChildEffect DEF IInv, OrderInv, EntryIsNew
  <2>2. \A q \in Pipes : c \in children[q] => q = p
    BY <1>0, <2>1 DEF TypeInv, Linked
  <2>3. Stream(c) \in Seq(Particles)
    BY <1>0, StreamType
  <2>4. ASSUME NEW i \in 1 .. Len(Stream(c)')
        PROVE  \E j \in 1 .. Len(taken[p]) : Stream(c)'[i] = taken[p][j]
    <3>1. CASE Stream(c)' = Stream(c)
      BY <2>1, <2>4, <3>1 DEF IInv, OrderInv, Inherited
    <3>2. CASE Stream(c)' = Append(Stream(c), entry[p])
      <4>1. \/ i \in 1 .. Len(Stream(c)) /\ Stream(c)'[i] = Stream(c)[i]
            \/ Stream(c)'[i] = entry[p]
        BY <2>1, <2>3, <2>4, <3>2, OldOrLast
      <4>2. QED
        BY <2>1, <2>8, <4>1 DEF IInv, OrderInv, Inherited
    <3>3. QED BY <2>1, <3>1, <3>2
  <2>5. \A q \in Pipes : children[q] \subseteq Pipes
    BY <1>0 DEF TypeOK
  <2>6. SUFFICES ASSUME NEW q \in Pipes, NEW k \in children'[q],
                        NEW i \in 1 .. Len(Stream(k)')
                 PROVE  \E j \in 1 .. Len(taken'[q]) : Stream(k)'[i] = taken'[q][j]
    BY DEF Inherited
  <2>7. CASE k = c
    BY <2>1, <2>2, <2>4, <2>7
  <2>9. CASE k # c
    <3>1. k \in children[q] /\ Stream(k)' = Stream(k) /\ i \in 1 .. Len(Stream(k))
      BY <2>1, <2>5, <2>9
    <3>2. PICK j \in 1 .. Len(taken[q]) : Stream(k)[i] = taken[q][j]
      BY <3>1 DEF IInv, OrderInv, Inherited
    <3>3. QED BY <2>1, <3>1, <3>2
  <2>10. QED BY <2>7, <2>9
<1>10. ASSUME NEW p \in Pipes, LookWhatIsLeft(p) PROVE Inherited'
  <2>1. \A q \in Pipes : children'[q] \subseteq children[q]
    BY <1>0, <1>10, LookWhatIsLeftEffect DEF Alone
  <2>2. \A q \in Pipes : \A k \in children[q] :
          Stream(k)' = Stream(k) /\ taken'[q] = taken[q]
    BY <1>0, <1>10, LookWhatIsLeftEffect, StreamSame DEF TypeOK
  <2>3. QED
    BY <1>0, <2>1, <2>2, InheritedKept DEF IInv, OrderInv
<1>11. ASSUME NEW p \in Pipes, NEW c \in Pipes, NotifyChild(p, c)
      PROVE  Inherited'
  <2>1. \A q \in Pipes : children'[q] \subseteq children[q]
    BY <1>0, <1>11, NotifyChildEffect DEF Alone
  <2>2. \A q \in Pipes : \A k \in children[q] :
          Stream(k)' = Stream(k) /\ taken'[q] = taken[q]
    BY <1>0, <1>11, NotifyChildEffect, StreamSame DEF TypeOK
  <2>3. QED
    BY <1>0, <2>1, <2>2, InheritedKept DEF IInv, OrderInv
<1>12. CASE \/ SourceDoneSet \/ UNCHANGED vars
           \/ \E p \in Pipes : GetEnd(p) \/ SinkDoneSet(p)
  <2>1. \A q \in Pipes : children'[q] \subseteq children[q]
    BY <1>0, <1>12, OtherEffect
  <2>2. \A q \in Pipes : \A k \in children[q] :
          Stream(k)' = Stream(k) /\ taken'[q] = taken[q]
    BY <1>0, <1>12, OtherEffect, StreamSame DEF TypeOK
  <2>3. QED
    BY <1>0, <2>1, <2>2, InheritedKept DEF IInv, OrderInv
<1>13. QED
  BY <1>1, <1>2, <1>3, <1>4, <1>5, <1>6, <1>7, <1>8, <1>9, <1>10, <1>11,
     <1>12
  DEF Next, toPushTry

\* The entries at hand stay as new as they are in a step that begins to send
\* none and fills no queue.
LEMMA EntriesStay ==
  ASSUME TypeOK, EntryIsNew, UNCHANGED <<taken, entry>>,
         \A q \in Pipes : pc'[q] = "send" => pc[q] = "send" /\ todo'[q] = todo[q],
         \A q \in Pipes : Stream(q)' = Stream(q)
  PROVE  EntryIsNew'
<1>1. SUFFICES ASSUME NEW q \in Pipes, pc'[q] = "send"
               PROVE  /\ \E j \in 1 .. Len(taken'[q]) : entry'[q] = taken'[q][j]
                      /\ \A c \in todo'[q] : \A i \in 1 .. Len(Stream(c)') :
                           Stream(c)'[i] < entry'[q]
  BY DEF EntryIsNew
<1>2. pc[q] = "send" /\ todo'[q] = todo[q]
  BY <1>1
<1>3. \A c \in todo[q] : Stream(c)' = Stream(c)
  BY DEF TypeOK
<1>4. QED BY <1>2, <1>3 DEF EntryIsNew

\* So do they in a step of p that ends outside of the loop that sends.
LEMMA NoNewEntry ==
  ASSUME TypeOK, EntryIsNew, NEW p \in Pipes, Alone(p), UNCHANGED <<taken, entry>>,
         pc'[p] # "send", \A q \in Pipes : Stream(q)' = Stream(q)
  PROVE  EntryIsNew'
<1>1. \A q \in Pipes : pc'[q] = "send" => pc[q] = "send" /\ todo'[q] = todo[q]
  BY DEF Alone
<1>2. QED BY <1>1, EntriesStay

\* What the children have is what was taken before, and that is older.
LEMMA EntryIsNewStep ==
  ASSUME IInv, [Next]_vars
  PROVE  EntryIsNew'
<1>0. TypeInv /\ TypeOK
  BY DEF TypeInv, IInv
<1>1. ASSUME Commit PROVE EntryIsNew'
  <2>1. \A q \in Pipes : pc[q] = "send" => todo[q] \subseteq Pipes \ {Source}
    BY <1>0 DEF TypeInv, TypeOK, Linked, Position
  <2>2. /\ UNCHANGED <<taken, pc, todo, entry>>
        /\ \A q \in Pipes \ {Source} : Stream(q)' = Stream(q)
    BY <1>0, <1>1, CommitEffect
  <2>3. QED
    BY <2>1, <2>2 DEF IInv, OrderInv, EntryIsNew
<1>2. ASSUME NEW p \in Pipes, Get(p) PROVE EntryIsNew'
  <2>1. pc[p] # "send"
    BY <1>0, <1>2, GetEffect DEF TypeInv, Position
  <2>2. /\ UNCHANGED <<pc, todo, entry>>
        /\ \A q \in Pipes : Stream(q)' = Stream(q)
        /\ \A q \in Pipes \ {p} : taken'[q] = taken[q]
    BY <1>0, <1>2, GetEffect
  <2>3. \A q \in Pipes : todo[q] \subseteq Pipes
    BY <1>0 DEF TypeOK
  <2>4. QED
    BY <2>1, <2>2, <2>3 DEF IInv, OrderInv, EntryIsNew
<1>3. ASSUME NEW c \in Pipes, ParentDisconnect(c) PROVE EntryIsNew'
  <2>1. /\ UNCHANGED <<taken, entry, pc, todo>>
        /\ \A q \in Pipes : Stream(q)' = Stream(q)
    BY <1>0, <1>3, ParentDisconnectEffect, StreamSame
  <2>2. QED
    BY <1>0, <2>1, EntriesStay DEF IInv, OrderInv
<1>4. ASSUME NEW p \in Pipes, NEW c \in Pipes, Connect(p, c)
      PROVE  EntryIsNew'
  <2>1. /\ UNCHANGED <<taken, entry, pc, todo>>
        /\ \A q \in Pipes : Stream(q)' = Stream(q)
    BY <1>0, <1>4, ConnectEffect, StreamSame
  <2>2. QED
    BY <1>0, <2>1, EntriesStay DEF IInv, OrderInv
<1>5. ASSUME NEW p \in Pipes, PushBegins(p) PROVE EntryIsNew'
  <2>1. /\ Alone(p) /\ UNCHANGED <<taken, entry>> /\ pc'[p] # "send"
        /\ \A q \in Pipes : Stream(q)' = Stream(q)
    BY <1>0, <1>5, PushBeginsEffect, StreamSame
  <2>2. QED
    BY <1>0, <2>1, NoNewEntry DEF IInv, OrderInv
<1>6. ASSUME NEW p \in Pipes, LookForEntry(p) PROVE EntryIsNew'
  <2>1. /\ Alone(p) /\ UNCHANGED <<taken, entry>> /\ pc'[p] # "send"
        /\ \A q \in Pipes : Stream(q)' = Stream(q)
    BY <1>0, <1>6, LookForEntryEffect, StreamSame
  <2>2. QED
    BY <1>0, <2>1, NoNewEntry DEF IInv, OrderInv
<1>7. ASSUME NEW p \in Pipes, NEW c \in Pipes, LookAtChild(p, c)
      PROVE  EntryIsNew'
  <2>1. /\ Alone(p) /\ UNCHANGED <<taken, entry>> /\ pc'[p] # "send"
        /\ \A q \in Pipes : Stream(q)' = Stream(q)
    BY <1>0, <1>7, LookAtChildEffect, StreamSame
  <2>2. QED
    BY <1>0, <2>1, NoNewEntry DEF IInv, OrderInv
<1>8. ASSUME NEW p \in Pipes, TakeEntry(p) PROVE EntryIsNew'
  <2>1. /\ Alone(p) /\ \A q \in Pipes : Stream(q)' = Stream(q)
        /\ \A q \in Pipes \ {p} : taken'[q] = taken[q]
        /\ taken'[p] = Append(taken[p], Head(queue[p]))
        /\ Head(queue[p]) \in Particles /\ queue[p] # <<>>
        /\ entry'[p] = Head(queue[p]) /\ todo'[p] = children[p]
    BY <1>0, <1>8, TakeEntryEffect
  <2>2. \E j \in 1 .. Len(taken'[p]) : entry'[p] = taken'[p][j]
    <3>1. taken[p] \in Seq(Particles)
      BY <1>0 DEF TypeOK
    <3>2. /\ Len(taken'[p]) = Len(taken[p]) + 1 /\ Len(taken[p]) \in Nat
          /\ taken'[p][Len(taken[p]) + 1] = entry'[p]
      BY <2>1, <3>1, ElementsOfAppend
    <3>3. Len(taken[p]) + 1 \in 1 .. Len(taken'[p])
      BY <3>2
    <3>4. QED BY <3>2, <3>3
  <2>3. ASSUME NEW c \in children[p], NEW i \in 1 .. Len(Stream(c))
        PROVE  Stream(c)[i] < entry'[p]
    <3>0. Inherited
      BY DEF IInv, OrderInv
    <3>1. PICK j \in 1 .. Len(taken[p]) : Stream(c)[i] = taken[p][j]
      BY <2>3, <3>0 DEF Inherited
    <3>2. /\ Len(taken[p]) \in Nat /\ Len(Stream(p)) \in Nat
          /\ Len(taken[p]) + 1 <= Len(Stream(p))
          /\ Stream(p)[j] = taken[p][j]
          /\ Stream(p)[Len(taken[p]) + 1] = entry'[p]
      BY <1>0, <2>1, StreamType
    <3>3. /\ j \in 1 .. Len(Stream(p)) /\ Len(taken[p]) + 1 \in 1 .. Len(Stream(p))
          /\ j < Len(taken[p]) + 1
      BY <3>2
    <3>4. Stream(p)[j] < Stream(p)[Len(taken[p]) + 1]
      BY <3>3 DEF IInv, OrderInv, InOrder
    <3>5. QED
      BY <3>1, <3>2, <3>4
  <2>4. \A q \in Pipes : todo[q] \subseteq Pipes /\ children[q] \subseteq Pipes
    BY <1>0 DEF TypeOK
  <2>5. ASSUME NEW q \in Pipes \ {p}, pc'[q] = "send"
        PROVE  /\ \E j \in 1 .. Len(taken'[q]) : entry'[q] = taken'[q][j]
               /\ \A c \in todo'[q] : \A i \in 1 .. Len(Stream(c)') :
                    Stream(c)'[i] < entry'[q]
    <3>1. /\ pc[q] = "send" /\ todo'[q] = todo[q] /\ entry'[q] = entry[q]
          /\ taken'[q] = taken[q] /\ \A c \in todo[q] : Stream(c)' = Stream(c)
      BY <2>1, <2>4, <2>5 DEF Alone
    <3>2. QED BY <3>1 DEF IInv, OrderInv, EntryIsNew
  <2>6. \A c \in todo'[p] : \A i \in 1 .. Len(Stream(c)') :
          Stream(c)'[i] < entry'[p]
    BY <2>1, <2>3, <2>4
  <2>7. QED
    BY <2>2, <2>5, <2>6 DEF EntryIsNew
<1>9. ASSUME NEW p \in Pipes, NEW c \in Pipes, SendToChild(p, c)
      PROVE  EntryIsNew'
  <2>1. /\ Alone(p) /\ UNCHANGED taken /\ c \in children[p] /\ pc[p] = "send"
        /\ \A q \in Pipes \ {c} : Stream(q)' = Stream(q)
        /\ todo'[p] = todo[p] \ {c}
        /\ pc'[p] = "top" \/ entry'[p] = entry[p]
    BY <1>0, <1>9, SendToChildEffect
  <2>2. \A q \in Pipes \ {p} : pc[q] = "send" => c \notin todo[q]
    BY <1>0, <2>1 DEF TypeInv, Linked, Position
  <2>3. \A q \in Pipes : todo[q] \subseteq Pipes
    BY <1>0 DEF TypeOK
  <2>4. SUFFICES ASSUME NEW q \in Pipes, pc'[q] = "send"
                 PROVE  /\ \E j \in 1 .. Len(taken'[q]) : entry'[q] = taken'[q][j]
                        /\ \A k \in todo'[q] : \A i \in 1 .. Len(Stream(k)') :
                             Stream(k)'[i] < entry'[q]
    BY DEF EntryIsNew
  <2>5. /\ pc[q] = "send" /\ todo'[q] \subseteq todo[q] /\ entry'[q] = entry[q]
        /\ taken'[q] = taken[q] /\ c \notin todo'[q]
    BY <2>1, <2>2, <2>4 DEF Alone
  <2>6. \A k \in todo'[q] : Stream(k)' = Stream(k)
    BY <2>1, <2>3, <2>5
  <2>7. QED BY <2>5, <2>6 DEF IInv, OrderInv, EntryIsNew
<1>10. ASSUME NEW p \in Pipes, LookWhatIsLeft(p) PROVE EntryIsNew'
  <2>1. /\ Alone(p) /\ UNCHANGED <<taken, entry>> /\ pc'[p] # "send"
        /\ \A q \in Pipes : Stream(q)' = Stream(q)
    BY <1>0, <1>10, LookWhatIsLeftEffect, StreamSame
  <2>2. QED
    BY <1>0, <2>1, NoNewEntry DEF IInv, OrderInv
<1>11. ASSUME NEW p \in Pipes, NEW c \in Pipes, NotifyChild(p, c)
      PROVE  EntryIsNew'
  <2>1. /\ Alone(p) /\ UNCHANGED <<taken, entry>> /\ pc'[p] # "send"
        /\ \A q \in Pipes : Stream(q)' = Stream(q)
    BY <1>0, <1>11, NotifyChildEffect, StreamSame
  <2>2. QED
    BY <1>0, <2>1, NoNewEntry DEF IInv, OrderInv
<1>12. CASE \/ SourceDoneSet \/ UNCHANGED vars
           \/ \E p \in Pipes : GetEnd(p) \/ SinkDoneSet(p)
  <2>1. /\ UNCHANGED <<taken, entry, pc, todo>>
        /\ \A q \in Pipes : Stream(q)' = Stream(q)
    BY <1>0, <1>12, OtherEffect, StreamSame
  <2>2. QED
    BY <1>0, <2>1, EntriesStay DEF IInv, OrderInv
<1>13. QED
  BY <1>1, <1>2, <1>3, <1>4, <1>5, <1>6, <1>7, <1>8, <1>9, <1>10, <1>11,
     <1>12
  DEF Next, toPushTry

\* The sender numbers what it sends, and nobody else commits to the source.
LEMMA SentSoFarStep ==
  ASSUME IInv, [Next]_vars
  PROVE  SentSoFar'
<1>0. TypeInv /\ TypeOK /\ SentSoFar
  BY DEF TypeInv, IInv, OrderInv
<1>1. CASE Commit
  <2>1. /\ Stream(Source)' = Append(Stream(Source), sent + 1)
        /\ sent' = sent + 1 /\ sent + 1 \in Particles /\ sent \in Nat
    BY <1>0, <1>1, CommitEffect DEF TypeOK
  <2>2. Stream(Source) \in Seq(Particles)
    BY <1>0, StreamType
  <2>3. ASSUME NEW i \in 1 .. Len(Stream(Source)')
        PROVE  Stream(Source)'[i] <= sent'
    <3>1. CASE i \in 1 .. Len(Stream(Source)) /\ Stream(Source)'[i] = Stream(Source)[i]
      <4>1. Stream(Source)[i] <= sent /\ Stream(Source)[i] \in Nat
        BY <1>0, <2>2, <3>1 DEF SentSoFar
      <4>2. QED BY <2>1, <3>1, <4>1
    <3>2. CASE Stream(Source)'[i] = sent + 1
      BY <2>1, <3>2
    <3>3. QED BY <2>1, <2>2, <2>3, <3>1, <3>2, OldOrLast
  <2>4. QED BY <2>3 DEF SentSoFar
<1>2. CASE UNCHANGED sent /\ Stream(Source)' = Stream(Source)
  BY <1>0, <1>2 DEF SentSoFar
<1>3. ASSUME NEW p \in Pipes, Get(p) PROVE Stream(Source)' = Stream(Source) /\ UNCHANGED sent
  BY <1>0, <1>3, GetEffect
<1>4. ASSUME NEW c \in Pipes, ParentDisconnect(c)
      PROVE  Stream(Source)' = Stream(Source) /\ UNCHANGED sent
  BY <1>0, <1>4, ParentDisconnectEffect, StreamSame
<1>5. ASSUME NEW p \in Pipes, NEW c \in Pipes, Connect(p, c)
      PROVE  Stream(Source)' = Stream(Source) /\ UNCHANGED sent
  BY <1>0, <1>5, ConnectEffect, StreamSame
<1>6. ASSUME NEW p \in Pipes, toPushTry(p)
      PROVE  Stream(Source)' = Stream(Source) /\ UNCHANGED sent
  <2>1. UNCHANGED sent
    BY <1>0, <1>6, OneThread DEF Alone
  <2>2. CASE PushBegins(p) \/ LookForEntry(p) \/ LookWhatIsLeft(p)
    BY <1>0, <2>1, <2>2, PushBeginsEffect, LookForEntryEffect, LookWhatIsLeftEffect,
       StreamSame
  <2>3. CASE TakeEntry(p)
    BY <1>0, <2>1, <2>3, TakeEntryEffect
  <2>4. ASSUME NEW c \in Pipes, LookAtChild(p, c) \/ NotifyChild(p, c)
        PROVE  Stream(Source)' = Stream(Source)
    BY <1>0, <2>4, LookAtChildEffect, NotifyChildEffect, StreamSame
  <2>5. ASSUME NEW c \in Pipes, SendToChild(p, c)
        PROVE  Stream(Source)' = Stream(Source)
    <3>1. c # Source
      BY <1>0, <2>5, SendToChildEffect DEF TypeInv, Linked
    <3>2. QED BY <1>0, <2>5, <3>1, SendToChildEffect
  <2>6. QED
    BY <1>6, <2>1, <2>2, <2>3, <2>4, <2>5 DEF toPushTry
<1>7. CASE \/ SourceDoneSet \/ UNCHANGED vars
           \/ \E p \in Pipes : GetEnd(p) \/ SinkDoneSet(p)
  BY <1>2, <1>7, OtherEffect, StreamSame
<1>8. QED
  BY <1>1, <1>2, <1>3, <1>4, <1>5, <1>6, <1>7 DEF Next

LEMMA OrderKept ==
  ASSUME InOrder, \A q \in Pipes : Stream(q)' = Stream(q)
  PROVE  InOrder'
BY DEF InOrder

LEMMA OrderExtended ==
  ASSUME TypeOK, InOrder, NEW c \in Pipes, NEW e \in Particles,
         Stream(c)' = Append(Stream(c), e),
         \A i \in 1 .. Len(Stream(c)) : Stream(c)[i] < e,
         \A q \in Pipes \ {c} : Stream(q)' = Stream(q)
  PROVE  InOrder'
<1>1. ASSUME NEW i \in 1 .. Len(Stream(c)'), NEW j \in 1 .. Len(Stream(c)'), i < j
      PROVE  Stream(c)'[i] < Stream(c)'[j]
  <2>1. Stream(c) \in Seq(Particles) /\ Len(Stream(c)) \in Nat
    BY StreamType
  <2>2. \A k \in 1 .. Len(Stream(c)') :
          \/ k \in 1 .. Len(Stream(c)) /\ Stream(c)'[k] = Stream(c)[k]
          \/ k = Len(Stream(c)) + 1 /\ Stream(c)'[k] = e
    BY <2>1, OldOrLast
  <2>3. i \in 1 .. Len(Stream(c)) /\ Stream(c)'[i] = Stream(c)[i]
    <3>1. i # Len(Stream(c)) + 1
      <4>1. j \in 1 .. Len(Stream(c)) \/ j = Len(Stream(c)) + 1
        BY <2>2
      <4>2. QED BY <1>1, <2>1, <4>1
    <3>2. QED BY <2>2, <3>1
  <2>4. CASE j \in 1 .. Len(Stream(c)) /\ Stream(c)'[j] = Stream(c)[j]
    BY <1>1, <2>3, <2>4 DEF InOrder
  <2>5. CASE Stream(c)'[j] = e
    BY <2>3, <2>5
  <2>6. QED BY <2>2, <2>4, <2>5
<1>2. QED
  BY <1>1 DEF InOrder


\* What is committed is newer than all the child has.
LEMMA InOrderStep ==
  ASSUME IInv, [Next]_vars
  PROVE  InOrder'
<1>0. TypeInv /\ TypeOK /\ OrderInv /\ InOrder
  BY DEF TypeInv, IInv, OrderInv
<1>1. ASSUME Commit PROVE InOrder'
  <2>1. /\ Stream(Source)' = Append(Stream(Source), sent + 1)
        /\ \A q \in Pipes \ {Source} : Stream(q)' = Stream(q)
        /\ sent + 1 \in Particles /\ sent \in Nat
    BY <1>0, <1>1, CommitEffect DEF TypeOK
  <2>2. ASSUME NEW i \in 1 .. Len(Stream(Source)) PROVE Stream(Source)[i] < sent + 1
    <3>1. Stream(Source)[i] \in Nat
      BY <1>0, StreamType
    <3>2. Stream(Source)[i] <= sent
      BY <1>0, <2>2 DEF OrderInv, SentSoFar
    <3>3. QED BY <2>1, <3>1, <3>2
  <2>3. QED
    BY <1>0, <2>1, <2>2, OrderExtended
<1>2. ASSUME NEW p \in Pipes, Get(p) PROVE InOrder'
  BY <1>0, <1>2, GetEffect, OrderKept
<1>3. ASSUME NEW c \in Pipes, ParentDisconnect(c) PROVE InOrder'
  BY <1>0, <1>3, ParentDisconnectEffect, StreamSame, OrderKept
<1>4. ASSUME NEW p \in Pipes, NEW c \in Pipes, Connect(p, c) PROVE InOrder'
  BY <1>0, <1>4, ConnectEffect, StreamSame, OrderKept
<1>5. ASSUME NEW p \in Pipes, PushBegins(p) PROVE InOrder'
  BY <1>0, <1>5, PushBeginsEffect, StreamSame, OrderKept
<1>6. ASSUME NEW p \in Pipes, LookForEntry(p) PROVE InOrder'
  BY <1>0, <1>6, LookForEntryEffect, StreamSame, OrderKept
<1>7. ASSUME NEW p \in Pipes, NEW c \in Pipes, LookAtChild(p, c)
      PROVE  InOrder'
  BY <1>0, <1>7, LookAtChildEffect, StreamSame, OrderKept
<1>8. ASSUME NEW p \in Pipes, TakeEntry(p) PROVE InOrder'
  BY <1>0, <1>8, TakeEntryEffect, OrderKept
<1>9. ASSUME NEW p \in Pipes, NEW c \in Pipes, SendToChild(p, c)
      PROVE  InOrder'
  <2>1. /\ pc[p] = "send" /\ c \in todo[p] /\ entry[p] \in Particles
        /\ Stream(c)' \in {Stream(c), Append(Stream(c), entry[p])}
        /\ \A q \in Pipes \ {c} : Stream(q)' = Stream(q)
    BY <1>0, <1>9, SendToChildEffect
  <2>2. \A i \in 1 .. Len(Stream(c)) : Stream(c)[i] < entry[p]
    BY <1>0, <2>1 DEF OrderInv, EntryIsNew
  <2>3. CASE Stream(c)' = Stream(c)
    BY <1>0, <2>1, <2>3, OrderKept
  <2>4. CASE Stream(c)' = Append(Stream(c), entry[p])
    BY <1>0, <2>1, <2>2, <2>4, OrderExtended
  <2>5. QED BY <2>1, <2>3, <2>4
<1>10. ASSUME NEW p \in Pipes, LookWhatIsLeft(p) PROVE InOrder'
  BY <1>0, <1>10, LookWhatIsLeftEffect, StreamSame, OrderKept
<1>11. ASSUME NEW p \in Pipes, NEW c \in Pipes, NotifyChild(p, c)
      PROVE  InOrder'
  BY <1>0, <1>11, NotifyChildEffect, StreamSame, OrderKept
<1>12. CASE \/ SourceDoneSet \/ UNCHANGED vars
           \/ \E p \in Pipes : GetEnd(p) \/ SinkDoneSet(p)
  BY <1>0, <1>12, OtherEffect, StreamSame, OrderKept
<1>13. QED
  BY <1>1, <1>2, <1>3, <1>4, <1>5, <1>6, <1>7, <1>8, <1>9, <1>10, <1>11,
     <1>12
  DEF Next, toPushTry

\* A pipe that was told the end with an empty queue gets nothing more, so what it
\* tells its children is true.
LEMMA EndIsCompleteStep ==
  ASSUME IInv, [Next]_vars
  PROVE  EndIsComplete'
<1>0. TypeInv /\ TypeOK
  BY DEF TypeInv, IInv
<1>1. ASSUME Commit PROVE EndIsComplete'
  <2>1. /\ UNCHANGED <<taken, sourceDone, sinkDone, children, pc>>
        /\ Source \notin sourceDone
        /\ \A q \in Pipes \ {Source} : Stream(q)' = Stream(q) /\ queue'[q] = queue[q]
    BY <1>0, <1>1, CommitEffect DEF Accepts
  <2>2. \A q \in Pipes : children[q] \subseteq Pipes \ {Source}
    BY <1>0 DEF TypeInv, TypeOK, Linked
  <2>3. QED
    BY <2>1, <2>2 DEF IInv, EndIsComplete
<1>2. ASSUME NEW p \in Pipes, Get(p) PROVE EndIsComplete'
  <2>1. /\ UNCHANGED <<sourceDone, sinkDone, children, pc>>
        /\ \A q \in Pipes : Stream(q)' = Stream(q)
        /\ \A q \in Pipes \ {p} : taken'[q] = taken[q] /\ queue'[q] = queue[q]
    BY <1>0, <1>2, GetEffect
  <2>2. children[p] = {} /\ \A q \in Pipes : children[q] \subseteq Pipes
    <3>1. p \in Readers
      BY <1>0, <1>2, GetEffect
    <3>2. children[p] \subseteq Wired[p] \cup Late[p]
      BY <1>0 DEF TypeInv, Linked
    <3>3. Wired[p] = {} /\ Late[p] = {}
      BY <3>1, PipeAssumption
    <3>4. QED BY <1>0, <3>2, <3>3 DEF TypeOK
  <2>3. QED
    BY <2>1, <2>2 DEF IInv, EndIsComplete
<1>3. ASSUME NEW c \in Pipes, ParentDisconnect(c) PROVE EndIsComplete'
  <2>1. /\ UNCHANGED <<queue, taken, sourceDone, sinkDone, pc>>
        /\ \A q \in Pipes : Stream(q)' = Stream(q)
        /\ \A q \in Pipes : children'[q] \subseteq children[q]
    BY <1>0, <1>3, ParentDisconnectEffect, StreamSame
  <2>2. \A q \in Pipes : children[q] \subseteq Pipes
    BY <1>0 DEF TypeOK
  <2>3. QED
    BY <2>1, <2>2 DEF IInv, EndIsComplete
<1>4. ASSUME NEW p \in Pipes, NEW c \in Pipes, Connect(p, c)
      PROVE  EndIsComplete'
  <2>1. /\ UNCHANGED <<queue, taken, sourceDone, sinkDone, pc>>
        /\ \A q \in Pipes : Stream(q)' = Stream(q)
        /\ \A q \in Pipes : children'[q] \subseteq children[q] \cup {c}
    BY <1>0, <1>4, ConnectEffect, StreamSame
  <2>2. c \notin sourceDone
    BY <1>0, <1>4, ConnectEffect DEF IInv, OrderInv, Fresh
  <2>3. \A q \in Pipes : children[q] \subseteq Pipes
    BY <1>0 DEF TypeOK
  <2>4. QED
    BY <2>1, <2>2, <2>3 DEF IInv, EndIsComplete
<1>5. ASSUME NEW p \in Pipes, PushBegins(p) PROVE EndIsComplete'
  <2>1. /\ Alone(p) /\ UNCHANGED <<queue, taken, sourceDone>>
        /\ \A q \in Pipes : Stream(q)' = Stream(q)
        /\ pc'[p] \in {"scan", "pop", "send"} => FALSE
    BY <1>0, <1>5, PushBeginsEffect, StreamSame
  <2>2. /\ pc'[p] \in {"scan", "pop", "send"} => children[p] \cap sourceDone = {}
        /\ \A q \in Pipes : children[q] \subseteq Pipes
    BY <1>0, <2>1 DEF IInv, TypeOK, EndIsComplete
  <2>3. QED
    BY <2>1, <2>2 DEF IInv, EndIsComplete, Alone
<1>6. ASSUME NEW p \in Pipes, LookForEntry(p) PROVE EndIsComplete'
  <2>1. /\ Alone(p) /\ UNCHANGED <<queue, taken, sourceDone>>
        /\ \A q \in Pipes : Stream(q)' = Stream(q)
        /\ pc'[p] \in {"scan", "pop", "send"} => queue[p] # <<>>
    BY <1>0, <1>6, LookForEntryEffect, StreamSame
  <2>2. /\ pc'[p] \in {"scan", "pop", "send"} => children[p] \cap sourceDone = {}
        /\ \A q \in Pipes : children[q] \subseteq Pipes
    BY <1>0, <2>1 DEF IInv, TypeOK, EndIsComplete
  <2>3. QED
    BY <2>1, <2>2 DEF IInv, EndIsComplete, Alone
<1>7. ASSUME NEW p \in Pipes, NEW c \in Pipes, LookAtChild(p, c)
      PROVE  EndIsComplete'
  <2>1. /\ Alone(p) /\ UNCHANGED <<queue, taken, sourceDone>>
        /\ \A q \in Pipes : Stream(q)' = Stream(q)
        /\ pc'[p] \in {"scan", "pop", "send"} => pc[p] = "scan"
    BY <1>0, <1>7, LookAtChildEffect, StreamSame
  <2>2. /\ pc'[p] \in {"scan", "pop", "send"} => children[p] \cap sourceDone = {}
        /\ \A q \in Pipes : children[q] \subseteq Pipes
    BY <1>0, <2>1 DEF IInv, TypeOK, EndIsComplete
  <2>3. QED
    BY <2>1, <2>2 DEF IInv, EndIsComplete, Alone
<1>8. ASSUME NEW p \in Pipes, TakeEntry(p) PROVE EndIsComplete'
  <2>1. /\ Alone(p) /\ UNCHANGED sourceDone /\ pc[p] = "pop"
        /\ \A q \in Pipes : Stream(q)' = Stream(q)
        /\ \A q \in Pipes \ {p} : taken'[q] = taken[q] /\ queue'[q] = queue[q]
    BY <1>0, <1>8, TakeEntryEffect
  <2>2. /\ children[p] \cap sourceDone = {}
        /\ \A q \in Pipes : children[q] \subseteq Pipes
    BY <1>0, <2>1 DEF IInv, EndIsComplete, TypeOK
  <2>3. QED
    BY <2>1, <2>2 DEF IInv, EndIsComplete, Alone
<1>9. ASSUME NEW p \in Pipes, NEW c \in Pipes, SendToChild(p, c)
      PROVE  EndIsComplete'
  <2>1. /\ Alone(p) /\ UNCHANGED <<taken, sourceDone>>
        /\ pc[p] = "send" /\ c \in children[p]
        /\ \A q \in Pipes \ {c} : Stream(q)' = Stream(q) /\ queue'[q] = queue[q]
        /\ c \in sourceDone => queue'[c] = queue[c]
    BY <1>0, <1>9, SendToChildEffect DEF Accepts
  <2>2. /\ children[p] \cap sourceDone = {}
        /\ \A q \in Pipes \ {p} : c \notin children[q]
        /\ \A q \in Pipes : children[q] \subseteq Pipes
    BY <1>0, <2>1 DEF IInv, EndIsComplete, TypeInv, TypeOK, Linked
  <2>3. QED
    BY <2>1, <2>2 DEF IInv, EndIsComplete, Alone
<1>10. ASSUME NEW p \in Pipes, LookWhatIsLeft(p) PROVE EndIsComplete'
  <2>1. /\ Alone(p) /\ UNCHANGED <<queue, taken, sourceDone>>
        /\ \A q \in Pipes : Stream(q)' = Stream(q)
        /\ pc'[p] \in {"scan", "pop", "send"} => FALSE
    BY <1>0, <1>10, LookWhatIsLeftEffect, StreamSame
  <2>2. /\ pc'[p] \in {"scan", "pop", "send"} => children[p] \cap sourceDone = {}
        /\ \A q \in Pipes : children[q] \subseteq Pipes
    BY <1>0, <2>1 DEF IInv, TypeOK, EndIsComplete
  <2>3. QED
    BY <2>1, <2>2 DEF IInv, EndIsComplete, Alone
<1>11. ASSUME NEW p \in Pipes, NEW c \in Pipes, NotifyChild(p, c)
      PROVE  EndIsComplete'
  <2>1. /\ Alone(p) /\ UNCHANGED <<queue, taken>>
        /\ pc[p] = "notify" /\ c \in children[p]
        /\ pc'[p] \in {"idle", "notify"} /\ p \in sourceDone /\ queue[p] = <<>>
        /\ sourceDone' = sourceDone \cup {c}
        /\ \A q \in Pipes : Stream(q)' = Stream(q)
    BY <1>0, <1>11, NotifyChildEffect, StreamSame
  <2>2. /\ \A q \in Pipes \ {p} : c \notin children[q]
        /\ \A q \in Pipes : children[q] \subseteq Pipes
    BY <1>0, <2>1 DEF TypeInv, TypeOK, Linked
  <2>3. p \in Blocking /\ c \in Wired[p] \ sinkDone => Stream(c) = taken[p]
    BY <2>1 DEF IInv, NothingIsLost
  <2>4. QED
    BY <2>1, <2>2, <2>3 DEF IInv, EndIsComplete, Alone
<1>12. CASE \/ SourceDoneSet \/ UNCHANGED vars
           \/ \E p \in Pipes : GetEnd(p) \/ SinkDoneSet(p)
  <2>1. /\ UNCHANGED <<queue, taken, children, pc>>
        /\ \A q \in Pipes : Stream(q)' = Stream(q)
        /\ sourceDone' \in {sourceDone, sourceDone \cup {Source}}
        /\ sinkDone \subseteq sinkDone'
    BY <1>12, OtherEffect, StreamSame
  <2>2. \A q \in Pipes : children[q] \subseteq Pipes \ {Source}
    BY <1>0 DEF TypeInv, TypeOK, Linked
  <2>3. QED
    BY <2>1, <2>2 DEF IInv, EndIsComplete
<1>13. QED
  BY <1>1, <1>2, <1>3, <1>4, <1>5, <1>6, <1>7, <1>8, <1>9, <1>10, <1>11,
     <1>12
  DEF Next, toPushTry

\* The child that is sent the entry takes it: there is room for it, it has not
\* been told the end, and it wants it.
LEMMA NothingIsLostStep ==
  ASSUME IInv, [Next]_vars
  PROVE  NothingIsLost'
<1>0. TypeInv /\ TypeOK
  BY DEF TypeInv, IInv
<1>1. ASSUME Commit PROVE NothingIsLost'
  <2>1. /\ UNCHANGED <<taken, pc, todo, entry, sinkDone>>
        /\ \A q \in Pipes \ {Source} : Stream(q)' = Stream(q)
    BY <1>0, <1>1, CommitEffect
  <2>2. QED
    BY <2>1 DEF IInv, NothingIsLost
<1>2. ASSUME NEW p \in Pipes, Get(p) PROVE NothingIsLost'
  <2>1. /\ UNCHANGED <<pc, todo, entry, sinkDone>> /\ Wired[p] = {}
        /\ \A q \in Pipes : Stream(q)' = Stream(q)
        /\ \A q \in Pipes \ {p} : taken'[q] = taken[q]
    BY <1>0, <1>2, GetEffect
  <2>2. QED
    BY <2>1 DEF IInv, NothingIsLost
<1>3. ASSUME NEW c \in Pipes, ParentDisconnect(c) PROVE NothingIsLost'
  <2>1. /\ UNCHANGED <<taken, pc, todo, entry>> /\ sinkDone \subseteq sinkDone'
        /\ \A q \in Pipes : Stream(q)' = Stream(q)
    BY <1>0, <1>3, ParentDisconnectEffect, StreamSame
  <2>2. QED
    BY <2>1 DEF IInv, NothingIsLost
<1>4. ASSUME NEW p \in Pipes, NEW c \in Pipes, Connect(p, c)
      PROVE  NothingIsLost'
  <2>1. /\ UNCHANGED <<taken, pc, todo, entry>> /\ sinkDone \subseteq sinkDone'
        /\ \A q \in Pipes : Stream(q)' = Stream(q)
    BY <1>0, <1>4, ConnectEffect, StreamSame
  <2>2. QED
    BY <2>1 DEF IInv, NothingIsLost
<1>5. ASSUME NEW p \in Pipes, PushBegins(p) PROVE NothingIsLost'
  <2>1. /\ Alone(p) /\ UNCHANGED taken /\ pc[p] # "send" /\ pc'[p] # "send"
        /\ \A q \in Pipes : Stream(q)' = Stream(q)
    BY <1>0, <1>5, PushBeginsEffect, StreamSame
  <2>2. QED
    BY <2>1 DEF IInv, NothingIsLost, Alone
<1>6. ASSUME NEW p \in Pipes, LookForEntry(p) PROVE NothingIsLost'
  <2>1. /\ Alone(p) /\ UNCHANGED taken /\ pc[p] # "send" /\ pc'[p] # "send"
        /\ \A q \in Pipes : Stream(q)' = Stream(q)
    BY <1>0, <1>6, LookForEntryEffect, StreamSame
  <2>2. QED
    BY <2>1 DEF IInv, NothingIsLost, Alone
<1>7. ASSUME NEW p \in Pipes, NEW c \in Pipes, LookAtChild(p, c)
      PROVE  NothingIsLost'
  <2>1. /\ Alone(p) /\ UNCHANGED taken /\ pc[p] # "send" /\ pc'[p] # "send"
        /\ \A q \in Pipes : Stream(q)' = Stream(q)
    BY <1>0, <1>7, LookAtChildEffect, StreamSame
  <2>2. QED
    BY <2>1 DEF IInv, NothingIsLost, Alone
<1>8. ASSUME NEW p \in Pipes, TakeEntry(p) PROVE NothingIsLost'
  <2>1. /\ Alone(p) /\ pc[p] = "pop" /\ pc'[p] = "send" /\ todo'[p] = children[p]
        /\ \A q \in Pipes : Stream(q)' = Stream(q)
        /\ \A q \in Pipes \ {p} : taken'[q] = taken[q]
        /\ taken'[p] = Append(taken[p], entry'[p])
    BY <1>0, <1>8, TakeEntryEffect
  <2>2. ASSUME p \in Blocking, NEW k \in Wired[p] \ sinkDone
        PROVE  k \in todo'[p] /\ taken'[p] = Append(Stream(k)', entry'[p])
    <3>1. k \in children[p] /\ k \in Pipes
      BY <1>0, <2>2 DEF TypeInv, Linked
    <3>2. taken[p] = Stream(k)
      BY <2>1, <2>2 DEF IInv, NothingIsLost
    <3>3. QED BY <2>1, <3>1, <3>2
  <2>3. SUFFICES ASSUME NEW q \in Blocking, NEW k \in Wired[q] \ sinkDone
                 PROVE  taken'[q] = IF pc'[q] = "send" /\ k \in todo'[q]
                                    THEN Append(Stream(k)', entry'[q]) ELSE Stream(k)'
    BY <2>1 DEF NothingIsLost, Alone
  <2>4. CASE q = p
    BY <2>1, <2>2, <2>3, <2>4
  <2>5. CASE q # p
    <3>1. /\ pc'[q] = pc[q] /\ todo'[q] = todo[q] /\ entry'[q] = entry[q]
          /\ taken'[q] = taken[q] /\ Stream(k)' = Stream(k)
      BY <2>1, <2>5 DEF Alone
    <3>2. QED BY <3>1 DEF IInv, NothingIsLost
  <2>6. QED BY <2>4, <2>5
<1>9. ASSUME NEW p \in Pipes, NEW c \in Pipes, SendToChild(p, c)
      PROVE  NothingIsLost'
  <2>1. /\ Alone(p) /\ UNCHANGED taken /\ pc[p] = "send"
        /\ c \in todo[p] /\ c \in children[p] /\ todo'[p] = todo[p] \ {c}
        /\ \/ pc'[p] = "top" /\ todo[p] = {c}
           \/ pc'[p] = "send" /\ entry'[p] = entry[p]
        /\ \A q \in Pipes \ {c} : Stream(q)' = Stream(q)
        /\ Accepts(c) => Stream(c)' = Append(Stream(c), entry[p])
    BY <1>0, <1>9, SendToChildEffect
  <2>2. ASSUME p \in Blocking, c \notin sinkDone PROVE Accepts(c)
    <3>1. ~isFull(c)
      BY <2>1, <2>2 DEF IInv, HasRoom
    <3>2. c \notin sourceDone
      BY <2>1 DEF IInv, EndIsComplete
    <3>3. QED BY <2>2, <3>1, <3>2 DEF Accepts
  <2>3. \A q \in Pipes \ {p} : c \notin Wired[q] \ sinkDone
    BY <1>0, <2>1 DEF TypeInv, Linked
  <2>4. SUFFICES ASSUME NEW q \in Blocking, NEW k \in Wired[q] \ sinkDone
                 PROVE  taken'[q] = IF pc'[q] = "send" /\ k \in todo'[q]
                                    THEN Append(Stream(k)', entry'[q]) ELSE Stream(k)'
    BY <2>1 DEF NothingIsLost, Alone
  <2>5. taken[q] = IF pc[q] = "send" /\ k \in todo[q]
                   THEN Append(Stream(k), entry[q]) ELSE Stream(k)
    BY DEF IInv, NothingIsLost
  <2>6. CASE q # p
    BY <2>1, <2>3, <2>5, <2>6 DEF Alone
  <2>7. CASE q = p /\ k = c
    BY <2>1, <2>2, <2>5, <2>7
  <2>8. CASE q = p /\ k # c
    BY <2>1, <2>5, <2>8
  <2>9. QED BY <2>6, <2>7, <2>8
<1>10. ASSUME NEW p \in Pipes, LookWhatIsLeft(p) PROVE NothingIsLost'
  <2>1. /\ Alone(p) /\ UNCHANGED taken /\ pc[p] # "send" /\ pc'[p] # "send"
        /\ \A q \in Pipes : Stream(q)' = Stream(q)
    BY <1>0, <1>10, LookWhatIsLeftEffect, StreamSame
  <2>2. QED
    BY <2>1 DEF IInv, NothingIsLost, Alone
<1>11. ASSUME NEW p \in Pipes, NEW c \in Pipes, NotifyChild(p, c)
      PROVE  NothingIsLost'
  <2>1. /\ Alone(p) /\ UNCHANGED taken /\ pc[p] # "send" /\ pc'[p] # "send"
        /\ \A q \in Pipes : Stream(q)' = Stream(q)
    BY <1>0, <1>11, NotifyChildEffect, StreamSame
  <2>2. QED
    BY <2>1 DEF IInv, NothingIsLost, Alone
<1>12. CASE \/ SourceDoneSet \/ UNCHANGED vars
           \/ \E p \in Pipes : GetEnd(p) \/ SinkDoneSet(p)
  <2>1. /\ UNCHANGED <<taken, pc, todo, entry>> /\ sinkDone \subseteq sinkDone'
        /\ \A q \in Pipes : Stream(q)' = Stream(q)
    BY <1>0, <1>12, OtherEffect, StreamSame
  <2>2. QED
    BY <2>1 DEF IInv, NothingIsLost
<1>13. QED
  BY <1>1, <1>2, <1>3, <1>4, <1>5, <1>6, <1>7, <1>8, <1>9, <1>10, <1>11,
     <1>12
  DEF Next, toPushTry

-----------------------------------------------------------------------------
(***************************************************************************)
(* The invariant.                                                          *)
(***************************************************************************)

LEMMA InitInv == Init => IInv
<1>1. SUFFICES ASSUME Init PROVE IInv
  OBVIOUS
<1>2. TypeOK
  BY <1>1 DEF Init, TypeOK
<1>3. Linked /\ Position
  BY <1>1 DEF Init, Linked, Position
<1>4. /\ \A p \in Pipes : taken[p] = <<>> /\ Stream(p) = <<>> /\ pc[p] = "idle"
      /\ sourceDone = {}
  BY <1>1 DEF Init, Stream
<1>5. \A p \in Pipes : Len(Stream(p)) = 0
  <2>1. Len(<<>>) = 0
    OBVIOUS
  <2>2. QED BY <1>4, <2>1, Zenon
<1>6. HasRoom /\ OrderInv
  <2>1. \A p \in Pipes : 1 .. Len(Stream(p)) = {}
    BY <1>5
  <2>2. children = Wired
    BY <1>1 DEF Init
  <2>3. InOrder /\ SentSoFar
    BY <2>1 DEF InOrder, SentSoFar
  <2>4. Inherited
    BY <2>1, <2>2 DEF Inherited
  <2>5. HasRoom /\ Fresh /\ EntryIsNew
    BY <1>4 DEF HasRoom, Fresh, EntryIsNew
  <2>6. QED BY <2>3, <2>4, <2>5 DEF OrderInv
<1>7. EndIsComplete /\ NothingIsLost
  BY <1>4 DEF EndIsComplete, NothingIsLost
<1>8. QED
  BY <1>2, <1>3, <1>6, <1>7 DEF IInv, TypeInv

LEMMA StepInv == IInv /\ [Next]_vars => IInv'
<1>1. SUFFICES ASSUME IInv, [Next]_vars PROVE IInv'
  OBVIOUS
<1>2. TypeInv'
  BY <1>1, TypeStep, LinkedStep, PositionStep DEF IInv, TypeInv
<1>3. OrderInv'
  BY <1>1, InOrderStep, FreshStep, InheritedStep, EntryIsNewStep, SentSoFarStep
  DEF OrderInv
<1>4. QED
  BY <1>1, <1>2, <1>3, HasRoomStep, EndIsCompleteStep, NothingIsLostStep DEF IInv

\* The links, the positions and the streams fit together in every state of every
\* tree of pipes (all of Pipe.h:140-441).
THEOREM PipeInvariant == Spec => []IInv
<1>1. QED
  BY InitInv, StepInv, PTL DEF Spec

\* The sizes are kept and the activations stay where toPushTry() can be
\* (Pipe.h:377-441).
THEOREM TypeCorrect == Spec => []TypeOK
<1>1. IInv => TypeOK
  BY DEF IInv, TypeInv
<1>2. QED BY <1>1, PipeInvariant, PTL

\* For any sizes and any tree, a pipe with mDataBlocking gives each child that
\* was there from the start and is not done everything it takes (Pipe.h:399-427).
THEOREM NothingLost == Spec => []NothingIsLost
<1>1. IInv => NothingIsLost
  BY DEF IInv
<1>2. QED BY <1>1, PipeInvariant, PTL

\* Nothing follows the end that a child is told (Pipe.h:432-441, 347).
THEOREM EndComplete == Spec => []EndIsComplete
<1>1. IInv => EndIsComplete
  BY DEF IInv
<1>2. QED BY <1>1, PipeInvariant, PTL

\* No pipe ever gets particles out of order or twice, blocking or not, however
\* late it is connected (Pipe.h:377-429).
THEOREM Ordered == Spec => []InOrder
<1>1. IInv => InOrder
  BY DEF IInv, OrderInv
<1>2. QED BY <1>1, PipeInvariant, PTL

=============================================================================
