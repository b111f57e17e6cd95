-------------------------- MODULE SystemCommanding --------------------------
(***************************************************************************)
(* The interactive terminal of SystemCommanding.cpp: bytes of a telnet     *)
(* client become keys (ansiFilter), keys edit a line, complete it, walk    *)
(* through a ring buffer of earlier lines, or execute it.                  *)
(*                                                                         *)
(* A line buffer is a sequence of characters; mIdxColLineEnd, which the    *)
(* code keeps beside it, is a variable of its own.  Everything runs in the *)
(* thread that drives the process; the transport it starts is another      *)
(* process, of which only what this one can see is left: `trans'.  What is *)
(* printed is left out, except which line and cursor the terminal shows.   *)
(* In the auto mode a connection carries one command and no terminal.      *)
(***************************************************************************)
EXTENDS Naturals, SequencesExt

CONSTANTS
  NumLines,     \* cNumCmdInBuffer
  ColMax,       \* cIdxColMax
  AlphaNum,     \* the characters keyIsAlphaNum() accepts ...
  Others,       \* ... and the others that keyIsInsert() does
  Commands,     \* the ids of the registered commands
  ChunkMax      \* how many bytes dataReceive() reads at once

ASSUME CommandingAssumption ==
  /\ NumLines \in Nat /\ NumLines >= 2
  /\ ColMax \in Nat \ {0}
  /\ AlphaNum \cap Others = {} /\ " " \in Others
  /\ \A id \in Commands : id \in Seq(AlphaNum) /\ id # <<>>
  /\ ChunkMax \in Nat \ {0, 1}

VARIABLES
  mState,       \* mState; "StEnd" when process() has returned a result
  trans,        \* mpTrans: "none", "starting", "ready", "failed", "released"
  keyState,     \* mStateKey
  lastTab,      \* mLastKeyWasTab, as "yes" or "no"
  buf,          \* mCmdInBuf
  idxEdit, idxView, idxLast, \* mIdxLineEdit, mIdxLineView, mIdxLineLast
  cursor, lineEnd,           \* mIdxColCursor, mIdxColLineEnd
  chunk, changed,            \* dataReceive(): the bytes handled, its `changed'
  shown,        \* the line and the cursor the terminal shows
  executed      \* history: the line executed in this chunk

lineVars  == <<buf, cursor, lineEnd>>
ringVars  == <<idxEdit, idxView, idxLast>>
outVars   == <<shown, executed>>
vars == <<mState, trans, keyState, lastTab, lineVars, ringVars, chunk,
          changed, outVars>>

Indices == 0 .. NumLines - 1
Chars == AlphaNum \cup Others
States == {"StStart", "StSendReadyWait", "StCmdAutoReceiveWait",
           "StTelnetInit", "StWelcomeSend", "StMain", "StEnd", "StDown"}
KeyStates == {"Main", "EscMain", "EscBracket", "Esc1", "EscSemi", "EscSemi5",
              "Esc2", "Esc3", "EscTilde", "Iac", "IacDo", "IacWont"}

TypeOK ==
  /\ mState \in States
  /\ trans \in {"none", "starting", "ready", "failed", "released"}
  /\ keyState \in KeyStates
  /\ lastTab \in {"yes", "no"}
  /\ buf \in [Indices -> Seq(Chars)]
  /\ idxEdit \in Indices /\ idxView \in Indices
  /\ idxLast \in Indices \cup {NumLines}
  /\ cursor \in 0 .. ColMax /\ lineEnd \in 0 .. ColMax
  /\ chunk \in 0 .. ChunkMax
  /\ changed \in {"yes", "no"}

\* mIdxLineLast is -1 at the start; NumLines stands for it.
Init ==
  /\ mState = "StStart"
  /\ trans = "none"
  /\ keyState = "Main"
  /\ lastTab = "no"
  /\ buf = [i \in Indices |-> <<>>]
  /\ idxEdit = 0 /\ idxView = 0 /\ idxLast = NumLines
  /\ cursor = 0 /\ lineEnd = 0
  /\ chunk = 0 /\ changed = "no"
  /\ shown = <<<<>>, 0>>
  /\ executed = <<>>

-----------------------------------------------------------------------------
(***************************************************************************)
(* ansiFilter(): from bytes to keys.                                       *)
(***************************************************************************)

\* <<state, byte, next state, key>>
KeyTable ==
  {<<"EscBracket", "A", "Main", "Up">>, <<"EscBracket", "B", "Main", "Down">>,
   <<"EscBracket", "C", "Main", "Right">>, <<"EscBracket", "D", "Main", "Left">>,
   <<"EscBracket", "F", "Main", "End">>, <<"EscBracket", "H", "Main", "Home">>,
   <<"EscBracket", "Z", "Main", "ShiftTab">>,
   <<"EscBracket", "4", "EscTilde", "End">>, <<"EscBracket", "8", "EscTilde", "End">>,
   <<"EscBracket", "5", "EscTilde", "PgUp">>, <<"EscBracket", "6", "EscTilde", "PgDn">>,
   <<"EscBracket", "7", "EscTilde", "Home">>,
   <<"Esc1", "~", "Main", "Home">>, <<"Esc2", "~", "Main", "Insert">>,
   <<"Esc3", "~", "Main", "Delete">>,
   <<"EscSemi5", "C", "Main", "JumpRight">>, <<"EscSemi5", "D", "Main", "JumpLeft">>}
  \cup {<<"Esc1", d, "EscTilde", "Fn">> : d \in {"0", "1", "2", "3", "4", "5", "7", "8", "9"}}
  \cup {<<"Esc1", d, "Main", "Fn">> : d \in {"P", "Q", "R", "S"}}
  \cup {<<"Esc2", d, "EscTilde", "Fn">> : d \in {"0", "1", "3", "4", "5", "6", "8", "9"}}
  \cup {<<"Esc3", d, "EscTilde", "Fn">> : d \in {"1", "2", "3", "4"}}

\* <<state, byte, next state>>: nothing to hand out yet.
PendingTable ==
  {<<"Main", "IAC", "Iac">>, <<"Main", "ESC", "EscMain">>,
   <<"EscMain", "[", "EscBracket">>,
   <<"EscBracket", "1", "Esc1">>, <<"EscBracket", "2", "Esc2">>,
   <<"EscBracket", "3", "Esc3">>,
   <<"Esc1", ";", "EscSemi">>, <<"EscSemi", "5", "EscSemi5">>,
   <<"EscTilde", "~", "Main">>,
   <<"Iac", "DO", "IacDo">>,
   <<"IacDo", "ECHO", "Main">>, <<"IacDo", "SUPP_GO_AHEAD", "Main">>,
   <<"IacDo", "STATUS", "Main">>,
   <<"IacWont", "LINEMODE", "Main">>}

ControlBytes == {"Enter", "Tab", "Backspace", "NUL"}

\* What a client sends; in the middle of a sequence every byte that some
\* sequence has.
MainBytes == Chars \cup ControlBytes \cup {"IAC", "ESC", "CtrlC"}
SequenceBytes ==
  {t[2] : t \in KeyTable} \cup {t[2] : t \in PendingTable} \cup {"CtrlC"}

Bytes == IF keyState = "Main" THEN MainBytes ELSE SequenceBytes

\* The next state and the key, "none" while there is none; nothing for a byte
\* that is refused.
FilterTable ==
  [s \in KeyStates |-> [b \in MainBytes \cup SequenceBytes |->
    {<<t[3], t[4]>> : t \in {u \in KeyTable : u[1] = s /\ u[2] = b}}
    \cup {<<t[3], "none">> : t \in {u \in PendingTable : u[1] = s /\ u[2] = b}}
    \cup (IF s = "Main" /\ b \notin {"IAC", "ESC", "CtrlC"} THEN {<<"Main", b>>}
          ELSE IF s = "Iac" /\ b # "DO" THEN {<<"Iac", "none">>} ELSE {})]]

Filtered(b) == FilterTable[keyState][b]

-----------------------------------------------------------------------------
(***************************************************************************)
(* The line.  Each operator is one key, with the `changed' it returns.     *)
(***************************************************************************)
Line == buf[idxEdit]

LineBecomes(l, c) ==
  /\ buf' = [buf EXCEPT ![idxEdit] = l]
  /\ cursor' = c

CursorBecomes(c) ==
  /\ cursor' = c
  /\ UNCHANGED <<buf, lineEnd, ringVars>>

\* The columns where cursorJump() stops: the end of a word on the way right,
\* its start on the way left, and the end of the way.
JumpStops(right) ==
  IF right
  THEN {lineEnd} \cup {c \in (cursor + 1) .. lineEnd :
         c < lineEnd /\ Line[c] \in AlphaNum /\ Line[c + 1] \notin AlphaNum}
  ELSE {0} \cup {c \in 1 .. cursor - 1 :
         Line[c] \notin AlphaNum /\ Line[c + 1] \in AlphaNum}

Navigates(key) ==
  \/ key = "Home" /\ CursorBecomes(0)
  \/ key = "End" /\ CursorBecomes(lineEnd)
  \/ key = "Left" /\ cursor > 0 /\ CursorBecomes(cursor - 1)
  \/ key = "Right" /\ cursor < lineEnd /\ CursorBecomes(cursor + 1)
  \/ key = "JumpLeft" /\ cursor > 0 /\ CursorBecomes(Max(JumpStops(FALSE)))
  \/ key = "JumpRight" /\ cursor < lineEnd /\ CursorBecomes(Min(JumpStops(TRUE)))

\* The line that historyNavigate() wants to show.
ViewNew(key) ==
  IF key = "Up" THEN (idxView + NumLines - 1) % NumLines
  ELSE (idxView + 1) % NumLines

\* Mutant: the up key goes on past the oldest line.
CanNavigateHistory_Around(key) ==
  /\ key = "Down" => idxView # idxEdit
  /\ buf[ViewNew(key)] # <<>>

CanNavigateHistory(key) ==
  /\ key = "Down" => idxView # idxEdit
  /\ key = "Up" => ViewNew(key) # idxEdit
  /\ buf[ViewNew(key)] # <<>>

historyNavigate(key) ==
  /\ key \in {"Up", "Down"} /\ CanNavigateHistory(key)
  /\ idxView' = ViewNew(key)
  /\ buf' = [buf EXCEPT ![idxEdit] = IF ViewNew(key) = idxEdit THEN <<>>
                                     ELSE buf[ViewNew(key)]]
  /\ lineEnd' = Len(buf'[idxEdit])
  /\ cursor' = lineEnd'
  /\ UNCHANGED <<idxEdit, idxLast>>

\* Mutant: the delete key does not shorten the line.
chRemove_EndKept(key) ==
  /\ \/ key = "Backspace" /\ cursor > 0
        /\ LineBecomes(RemoveAt(Line, cursor), cursor - 1)
        /\ lineEnd' = lineEnd - 1
     \/ key = "Delete" /\ cursor < Len(Line)
        /\ LineBecomes(RemoveAt(Line, cursor + 1), cursor)
        /\ UNCHANGED lineEnd
  /\ UNCHANGED ringVars

chRemove(key) ==
  /\ \/ key = "Backspace" /\ cursor > 0
        /\ LineBecomes(RemoveAt(Line, cursor), cursor - 1)
     \/ key = "Delete" /\ cursor < Len(Line)
        /\ LineBecomes(RemoveAt(Line, cursor + 1), cursor)
  /\ lineEnd' = lineEnd - 1
  /\ UNCHANGED ringVars

\* Mutant: a full line takes a character.
chInsert_NoLimit(key) ==
  /\ key \in Chars
  /\ LineBecomes(InsertAt(Line, cursor + 1, key), cursor + 1)
  /\ lineEnd' = lineEnd + 1
  /\ UNCHANGED ringVars

chInsert(key) ==
  /\ key \in Chars /\ lineEnd < ColMax
  /\ LineBecomes(InsertAt(Line, cursor + 1, key), cursor + 1)
  /\ lineEnd' = lineEnd + 1
  /\ UNCHANGED ringVars

\* bufferEdit() returns true ...
Edits(key) ==
  Navigates(key) \/ historyNavigate(key) \/ chRemove(key) \/ chInsert(key)

\* ... or the key has no effect.
NoEffect(key) ==
  \/ key \in {"Left", "JumpLeft", "Backspace"} /\ cursor = 0
  \/ key \in {"Right", "JumpRight"} /\ cursor >= lineEnd
  \/ key = "Delete" /\ cursor = Len(Line)
  \/ key \in {"Up", "Down"} /\ ~CanNavigateHistory(key)
  \/ key \in Chars /\ lineEnd >= ColMax
  \/ key \in {"NUL", "ShiftTab", "PgUp", "PgDn", "Insert", "Fn"}

bufferEdit(key) ==
  /\ \/ Edits(key) /\ changed' = "yes"
     \/ NoEffect(key) /\ UNCHANGED <<lineVars, ringVars, changed>>
  /\ lastTab' = "no"
  /\ UNCHANGED outVars

-----------------------------------------------------------------------------
(***************************************************************************)
(* Tab and enter.                                                          *)
(***************************************************************************)
Candidates == {id \in Commands : cursor <= Len(Line) /\
                 IsPrefix(SubSeq(Line, 1, cursor), id)}

\* What all candidates go on with, and a space when only one is left.
Completion ==
  IF Candidates = {} THEN <<>>
  ELSE SubSeq(LongestCommonPrefix(Candidates), cursor + 1,
              Len(LongestCommonPrefix(Candidates)))
       \o (IF Cardinality(Candidates) = 1 THEN <<" ">> ELSE <<>>)

\* Mutant: the completed line is not shown.
Completes_NotShown(n) ==
  /\ n = Min({Len(Completion), ColMax - lineEnd})
  /\ LineBecomes(SubSeq(Line, 1, cursor) \o SubSeq(Completion, 1, n)
                   \o SubSeq(Line, cursor + 1, Len(Line)), cursor + n)
  /\ lineEnd' = lineEnd + n
  /\ lastTab' = "yes"
  /\ UNCHANGED shown

\* As much of it as the line has room for.
Completes(n) ==
  /\ n = Min({Len(Completion), ColMax - lineEnd})
  /\ LineBecomes(SubSeq(Line, 1, cursor) \o SubSeq(Completion, 1, n)
                   \o SubSeq(Line, cursor + 1, Len(Line)), cursor + n)
  /\ lineEnd' = lineEnd + n
  /\ shown' = <<buf'[idxEdit], cursor'>>
  /\ lastTab' = "yes"

tabProcess ==
  /\ \/ cursor = 0 /\ UNCHANGED <<lineVars, lastTab, shown>>
     \/ /\ cursor > 0 /\ lastTab = "yes"
        /\ shown' = IF Candidates = {} THEN shown ELSE <<Line, cursor>>
        /\ UNCHANGED <<lineVars, lastTab>>
     \/ cursor > 0 /\ lastTab = "no" /\ \E n \in 0 .. ColMax : Completes(n)
  /\ UNCHANGED <<ringVars, changed, executed>>

\* historyInsert() refuses an empty line and a repetition of the last one.
Inserts == Line # <<>> /\ (idxLast = NumLines \/ Line # buf[idxLast])

historyInsert ==
  IF Inserts
  THEN /\ idxLast' = idxEdit
       /\ idxEdit' = (idxEdit + 1) % NumLines
  ELSE UNCHANGED <<idxLast, idxEdit>>

\* Mutant: the line before is executed.
ExecutedLine_Previous ==
  IF Inserts /\ idxLast # NumLines THEN buf[idxLast] ELSE Line

\* commandExecute() takes the last line when historyInsert() has moved on.
ExecutedLine == IF Inserts THEN buf[idxLast'] ELSE Line

lineAck ==
  /\ historyInsert
  /\ executed' = IF Line = <<>> THEN executed ELSE ExecutedLine
  /\ buf' = [buf EXCEPT ![idxEdit'] = <<>>]
  /\ idxView' = idxEdit'
  /\ cursor' = 0 /\ lineEnd' = 0
  /\ lastTab' = "no"
  /\ shown' = <<<<>>, 0>>
  /\ UNCHANGED changed

-----------------------------------------------------------------------------
(***************************************************************************)
(* dataReceive(), one byte after the other.                                *)
(***************************************************************************)

\* read() finds bytes: the loop over them begins or goes on.
Receives(b) ==
  /\ mState = "StMain" /\ b \in Bytes
  /\ chunk < ChunkMax
  /\ chunk = 0 => trans = "ready"
  /\ chunk' = chunk + 1
  /\ UNCHANGED trans

\* A chunk that is one ESC is ignored, so an ESC that begins a chunk counts
\* only with a byte after it.
LoneEsc ==
  /\ mState = "StMain" /\ chunk = 0 /\ trans = "ready"
  /\ UNCHANGED vars

PendingByte(b) ==
  /\ Receives(b)
  /\ \E f \in Filtered(b) : f[2] = "none" /\ keyState' = f[1]
  /\ UNCHANGED <<mState, lastTab, lineVars, ringVars, changed, outVars>>

Key(b) ==
  /\ Receives(b)
  /\ \E f \in Filtered(b) :
       /\ keyState' = f[1]
       /\ \/ f[2] = "Tab" /\ tabProcess
          \/ f[2] = "Enter" /\ lineAck
          \/ f[2] \notin {"none", "Tab", "Enter"} /\ bufferEdit(f[2])
  /\ UNCHANGED mState

\* ansiFilter() refuses the byte: mDone, and process() is Positive.
RefusedByte(b) ==
  /\ Receives(b) /\ Filtered(b) = {}
  /\ mState' = "StEnd"
  /\ UNCHANGED <<keyState, lastTab, lineVars, ringVars, changed, outVars>>

\* All bytes read are handled: the line is shown if it has changed.
ChunkEnds ==
  /\ mState = "StMain" /\ chunk > 0
  /\ ~(chunk = 1 /\ keyState = "EscMain")
  /\ chunk' = 0 /\ changed' = "no"
  /\ shown' = IF changed = "yes" THEN <<Line, cursor>> ELSE shown
  /\ executed' = <<>>
  /\ UNCHANGED <<mState, trans, keyState, lastTab, lineVars, ringVars>>

-----------------------------------------------------------------------------
(***************************************************************************)
(* process() and shutdown().                                               *)
(***************************************************************************)
unchangedLine == <<keyState, lastTab, lineVars, ringVars, chunk, changed, outVars>>

Start ==
  /\ mState = "StStart"
  /\ mState' = "StSendReadyWait" /\ trans' = "starting"
  /\ UNCHANGED unchangedLine

\* The transport, a process of its own, gets ready or ends; this process
\* looks at it between two reads.
TransportChanges ==
  /\ chunk = 0
  /\ \/ trans = "starting" /\ trans' \in {"ready", "failed"}
     \/ trans = "ready" /\ trans' = "failed"
  /\ UNCHANGED <<mState, unchangedLine>>

\* The creator has set mModeAuto, or not.
Connected ==
  /\ mState = "StSendReadyWait" /\ trans = "ready"
  /\ mState' \in {"StTelnetInit", "StCmdAutoReceiveWait"}
  /\ UNCHANGED <<trans, unchangedLine>>

\* What one read() can find in front of a line end: as much as the buffer
\* takes, without its zero, which goes to the next line then.
AutoLines == UNION {[1 .. n -> Chars] : n \in 0 .. ColMax + 1}

\* The command is executed as far as it has come.  Of an empty one the code
\* reads what lies in front of the lines: mIdxLineLast is -1.
autoCommandReceive ==
  /\ mState = "StCmdAutoReceiveWait" /\ trans = "ready"
  /\ \E l \in AutoLines :
       executed' \in IF l # <<>> THEN {l} ELSE {<<>>} \cup {<<c>> : c \in Chars}
  /\ buf' = [buf EXCEPT ![0] = executed']
  /\ mState' = "StEnd"
  /\ UNCHANGED <<trans, keyState, lastTab, cursor, lineEnd, ringVars, chunk,
                 changed, shown>>

\* cTmoCmdAuto has passed, or read() is negative.
AutoFails ==
  /\ mState = "StCmdAutoReceiveWait"
  /\ mState' = "StEnd"
  /\ UNCHANGED <<trans, unchangedLine>>

TelnetInit ==
  /\ mState = "StTelnetInit"
  /\ mState' = "StWelcomeSend"
  /\ UNCHANGED <<trans, unchangedLine>>

Welcome ==
  /\ mState = "StWelcomeSend"
  /\ mState' = "StMain"
  /\ shown' = <<Line, cursor>>
  /\ UNCHANGED <<trans, keyState, lastTab, lineVars, ringVars, chunk, changed,
                 executed>>

\* The transport has ended: so does process().
Disconnected ==
  /\ mState \in {"StSendReadyWait", "StMain"} /\ trans = "failed" /\ chunk = 0
  /\ mState' = "StEnd"
  /\ UNCHANGED <<trans, unchangedLine>>

\* shutdown(), after process() has ended or the process was canceled.
Shutdown ==
  /\ mState # "StDown" /\ (chunk = 0 \/ mState = "StEnd")
  /\ mState' = "StDown"
  /\ trans' = IF trans = "none" THEN trans ELSE "released"
  /\ UNCHANGED unchangedLine

Terminated == mState = "StDown" /\ UNCHANGED vars

Next ==
  \/ Start \/ TransportChanges \/ Connected \/ autoCommandReceive \/ AutoFails
  \/ TelnetInit \/ Welcome \/ Disconnected \/ Shutdown \/ Terminated
  \/ LoneEsc \/ ChunkEnds
  \/ \E b \in Bytes : PendingByte(b) \/ Key(b) \/ RefusedByte(b)

Spec == Init /\ [][Next]_vars

-----------------------------------------------------------------------------
(***************************************************************************)
(* Properties.                                                             *)
(***************************************************************************)

\* On a terminal, mIdxColLineEnd and the NUL that ends the edited line agree,
\* the cursor is in the line, and no line outgrows its buffer, whatever keys
\* edit, complete, recall and enter lines (SystemCommanding.cpp:827-893,
\* 756-762).
LineIsConsistent ==
  mState = "StMain" =>
  /\ lineEnd = Len(Line) /\ cursor <= lineEnd
  /\ \A i \in Indices : Len(buf[i]) <= ColMax

\* The terminal shows the line and the cursor as they are once the bytes of a
\* read() are handled, although promptSend() is called at the end only when
\* some key reported a change (SystemCommanding.cpp:449-463).
PromptIsCurrent ==
  mState = "StMain" /\ chunk = 0 => shown = <<Line, cursor>>

\* What is executed is the line that was on display, although historyInsert()
\* has moved the edited line away by then (SystemCommanding.cpp:601-640).
ExecutesTheLine ==
  [][mState = "StMain" /\ executed' \notin {executed, <<>>}
       => executed' = Line]_vars

\* The ring buffer implements the history.
PastLength ==
  Max({n \in 0 .. NumLines - 1 :
         \A i \in 1 .. n : buf[(idxEdit + NumLines - i) % NumLines] # <<>>})

pastBar == [i \in 1 .. PastLength |-> buf[(idxEdit + NumLines - i) % NumLines]]

History == INSTANCE CommandHistory WITH
  Lines <- Seq(Chars), Depth <- NumLines - 1,
  line <- Line, past <- pastBar,
  pos <- (idxEdit + NumLines - idxView) % NumLines

ImplementsHistory == History!Spec
=============================================================================
