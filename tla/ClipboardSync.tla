---- MODULE ClipboardSync ----
(***************************************************************************)
(* The clipboard of a macOS Host session (media/clipboard-sync.m and       *)
(* plank_clipboard_wire.h).  receive, tick and stop run on the session's   *)
(* queue; the pasteboard is used on the main queue, one task at a time,    *)
(* and other programs of the desktop use it too.  A text is a sequence of  *)
(* units of PLANK_CLIPBOARD_EVENT_BYTES; each unit says whose text it is   *)
(* part of, and where.                                                     *)
(***************************************************************************)
EXTENDS Integers, Sequences, SequencesExt

CONSTANTS
    MaxRemote,       \* generations a Client sends
    MaxUnits,        \* PLANK_CLIPBOARD_TEXT_LIMIT, in units
    MaxCopies        \* times another program copies something

VARIABLES
    board,           \* the general pasteboard: [text, changeCount]
    copies,          \* texts other programs have put there
    allowed,         \* the session streams and its lease is valid
    clipboardStopped, mainPending, inGeneration, lastGeneration, outGeneration, revision, inTotal,
    outOffset, assembly, pendingRemote, outgoing, lastChange, ownedChange,
    mainQueue,       \* the tasks dispatched to the main queue
    task,            \* where the task at its head is: [at, count, local], and in `seen' (for the
                     \* property only) the generation received last when it read the text
    results,         \* what finished tasks have dispatched back to the session's queue
    lastSent         \* the frames the last tick that sent any handed to the transport

sessionVars == <<clipboardStopped, mainPending, inGeneration, lastGeneration, outGeneration, revision,
                 inTotal, outOffset, assembly, pendingRemote, outgoing>>
mainVars == <<lastChange, ownedChange, mainQueue, task>>
clipboardVars == <<board, copies, allowed, sessionVars, mainVars, results, lastSent>>

Nil == <<>>
Idle == [at |-> "idle", count |-> -1, local |-> Nil, seen |-> 0]
RemoteText(g, total) == [i \in 1..total |-> <<"remote", g, total, i>>]
LocalText(n) == [i \in 1..MaxUnits |-> <<"local", n, MaxUnits, i>>]
IsRemote(text) == text # Nil /\ text[1][1] = "remote"

-----------------------------------------------------------------------------
(* The wire format *)

\* plank_clipboard_header, and the bytes that follow it.
FrameOf(generation, text, offset, size) ==
    [generation |-> generation, total |-> Len(text), offset |-> offset, size |-> size,
     first |-> offset = 0, last |-> offset + size = Len(text),
     bytes |-> SubSeq(text, offset + 1, offset + size)]

\* What a Client may send: parts of its texts, in any order and with any flags.
Frames ==
    {[generation |-> g, total |-> total, offset |-> offset, size |-> 1, first |-> first, last |-> last,
      bytes |-> <<<<"remote", g, total, offset + 1>>>>] :
       g \in 1..MaxRemote, total \in 1..MaxUnits, offset \in 0..MaxUnits, first, last \in BOOLEAN}

\* plank_clipboard_decode.
Decodes(f) ==
    /\ f.generation # 0 /\ f.total \in 1..MaxUnits /\ f.size # 0
    /\ f.offset <= f.total /\ f.size <= f.total - f.offset /\ Len(f.bytes) = f.size
    /\ f.first => f.offset = 0
    /\ f.last <=> f.offset + f.size = f.total

-----------------------------------------------------------------------------
(* The session's queue *)

\* stop: the remote text is cleared later, on the main queue.
StopEffect ==
    /\ clipboardStopped' = TRUE /\ assembly' = Nil /\ pendingRemote' = Nil /\ outgoing' = Nil
    /\ mainQueue' = Append(mainQueue, [kind |-> "clear", incoming |-> Nil, revision |-> 0])
    /\ UNCHANGED <<mainPending, inGeneration, lastGeneration, outGeneration, revision, inTotal, outOffset>>

\* The end of tick: one task at a time for the main queue, with the text it is to write
\* or, when there is none and the time has come, to look at what is there.
Dispatch(remote, rev, due) ==
    IF mainPending \/ (remote = Nil /\ ~due)
    THEN pendingRemote' = remote /\ UNCHANGED <<mainPending, mainQueue>>
    ELSE /\ mainPending' = TRUE /\ pendingRemote' = Nil
         /\ mainQueue' = Append(mainQueue, [kind |-> "use", incoming |-> remote, revision |-> rev])

\* receive of a frame of the Client; a frame it refuses ends the session.
Receive(f) ==
    LET opened == IF f.first THEN Nil ELSE assembly
        generation == IF f.first THEN f.generation ELSE inGeneration
        total == IF f.first THEN f.total ELSE inTotal
        started == f.first \/ assembly # Nil
        text == opened \o f.bytes
    IN  /\ ~clipboardStopped /\ allowed
        /\ UNCHANGED <<board, copies, allowed, lastChange, ownedChange, task, results, lastSent>>
        /\ \/ /\ Decodes(f) /\ f.generation <= lastGeneration
              /\ UNCHANGED <<sessionVars, mainQueue>>
           \/ /\ \/ ~Decodes(f)
                 \/ /\ f.generation > lastGeneration
                    /\ ~started \/ f.generation # generation \/ f.total # total \/ f.offset # Len(opened)
              /\ StopEffect
           \/ /\ Decodes(f) /\ f.generation > lastGeneration /\ started
              /\ f.generation = generation /\ f.total = total /\ f.offset = Len(opened)
              /\ inGeneration' = generation /\ inTotal' = total
              /\ \/ /\ ~f.last /\ assembly' = text
                    /\ UNCHANGED <<clipboardStopped, mainPending, lastGeneration, outGeneration, revision,
                                   outOffset, pendingRemote, outgoing, mainQueue>>
                 \/ /\ f.last /\ assembly' = Nil /\ lastGeneration' = f.generation
                    /\ revision' = revision + 1 /\ outgoing' = Nil /\ outOffset' = 0
                    /\ Dispatch(text, revision + 1, FALSE)
                    /\ UNCHANGED <<clipboardStopped, outGeneration>>

\* The frames of the next n units of the text that is being sent.
NextFrames(n) == [i \in 1..n |-> FrameOf(outGeneration, outgoing, outOffset + i - 1, 1)]

\* tick sends at most two frames, fewer when the transport has no room, and then looks
\* after the main queue.
Tick(n, due) ==
    LET end == outOffset + n IN
    /\ ~clipboardStopped /\ allowed
    /\ n > 0 => outgoing # Nil /\ end <= Len(outgoing)
    /\ lastSent' = IF n = 0 THEN lastSent ELSE NextFrames(n)
    /\ IF n > 0 /\ end = Len(outgoing) THEN outgoing' = Nil /\ outOffset' = 0
       ELSE outgoing' = outgoing /\ outOffset' = end
    /\ Dispatch(pendingRemote, revision, due)
    /\ UNCHANGED <<board, copies, allowed, clipboardStopped, inGeneration, lastGeneration, outGeneration,
                   revision, inTotal, assembly, lastChange, ownedChange, task, results>>

\* tick without the lease, a transport that fails, or the end of the session.
Stop ==
    /\ ~clipboardStopped /\ StopEffect
    /\ UNCHANGED <<board, copies, allowed, lastChange, ownedChange, task, results, lastSent>>

\* Mutation: a text is sent although another has been received since it was read.
IsCurrentAlways(result) == TRUE

\* What a task found is sent only if nothing was received meanwhile.
IsCurrent(result) == result.revision = revision

TakeResult ==
    /\ results # <<>> /\ results' = Tail(results) /\ mainPending' = FALSE
    /\ LET result == Head(results)
           use == ~clipboardStopped /\ allowed /\ result.local # Nil /\ IsCurrent(result)
       IN  /\ outgoing' = IF use THEN result.local ELSE outgoing
           /\ outOffset' = IF use THEN 0 ELSE outOffset
           /\ outGeneration' = IF use THEN outGeneration + 1 ELSE outGeneration
    /\ UNCHANGED <<board, copies, allowed, clipboardStopped, inGeneration, lastGeneration, revision, inTotal,
                   assembly, pendingRemote, mainVars, lastSent>>

-----------------------------------------------------------------------------
(* The main queue *)

Now == Head(mainQueue)
At(kind, at) == mainQueue # <<>> /\ Now.kind = kind /\ task.at = at
Goto(at, count, local) ==
    /\ task' = [at |-> at, count |-> count, local |-> local, seen |-> lastGeneration]
    /\ UNCHANGED mainQueue
Finish(local) ==
    /\ task' = Idle /\ mainQueue' = Tail(mainQueue)
    /\ results' = IF Now.kind = "use"
                  THEN Append(results, [local |-> local, revision |-> Now.revision, seen |-> task.seen])
                  ELSE results
Put(text) == board' = [text |-> text, changeCount |-> board.changeCount + 1]

MainBegins ==
    /\ At("use", "idle")
    /\ IF clipboardStopped \/ ~allowed THEN Finish(Nil)
       ELSE /\ UNCHANGED results
            /\ Goto(IF Now.incoming # Nil THEN "clear" ELSE "look", -1, Nil)
    /\ UNCHANGED <<board, copies, allowed, sessionVars, lastChange, ownedChange, lastSent>>

MainClears ==
    /\ At("use", "clear") /\ Put(Nil) /\ Goto("set", board.changeCount + 1, Nil)
    /\ UNCHANGED <<copies, allowed, sessionVars, lastChange, ownedChange, results, lastSent>>

\* setString fails once another program has taken the pasteboard.
MainSets ==
    /\ At("use", "set")
    /\ IF board.changeCount # task.count THEN Finish(Nil) /\ UNCHANGED board
       ELSE board' = [board EXCEPT !.text = Now.incoming] /\ Goto("own", -1, Nil) /\ UNCHANGED results
    /\ UNCHANGED <<copies, allowed, sessionVars, lastChange, ownedChange, lastSent>>

MainOwns ==
    /\ At("use", "own") /\ Finish(Nil)
    /\ lastChange' = board.changeCount /\ ownedChange' = board.changeCount
    /\ UNCHANGED <<board, copies, allowed, sessionVars, lastSent>>

MainLooks ==
    /\ At("use", "look")
    /\ IF board.changeCount = lastChange THEN Finish(Nil)
       ELSE Goto("read", board.changeCount, Nil) /\ UNCHANGED results
    /\ UNCHANGED <<board, copies, allowed, sessionVars, lastChange, ownedChange, lastSent>>

\* AlwaysDeny: the pasteboard is left alone.
MainDenied ==
    /\ At("use", "look") /\ Finish(Nil)
    /\ UNCHANGED <<board, copies, allowed, sessionVars, lastChange, ownedChange, lastSent>>

MainReads ==
    /\ At("use", "read") /\ Goto("compare", task.count, board.text)
    /\ UNCHANGED <<board, copies, allowed, sessionVars, lastChange, ownedChange, results, lastSent>>

MainCompares ==
    /\ At("use", "compare")
    /\ IF board.changeCount = task.count
       THEN Finish(task.local) /\ lastChange' = task.count /\ ownedChange' = -1
       ELSE Finish(Nil) /\ UNCHANGED <<lastChange, ownedChange>>
    /\ UNCHANGED <<board, copies, allowed, sessionVars, lastSent>>

\* The task of stop: what is there is cleared if it is still the Client's.
ClearLooks ==
    /\ At("clear", "idle")
    /\ IF ownedChange >= 0 /\ board.changeCount = ownedChange
       THEN Goto("wipe", -1, Nil) /\ UNCHANGED <<ownedChange, results>>
       ELSE Finish(Nil) /\ ownedChange' = -1
    /\ UNCHANGED <<board, copies, allowed, sessionVars, lastChange, lastSent>>
ClearWipes ==
    /\ At("clear", "wipe") /\ Put(Nil) /\ Finish(Nil) /\ ownedChange' = -1
    /\ UNCHANGED <<copies, allowed, sessionVars, lastChange, lastSent>>

-----------------------------------------------------------------------------
\* Another program copies a text; the pasteboard has held one before the session too.
Copy ==
    /\ copies < MaxCopies /\ copies' = copies + 1 /\ Put(LocalText(copies'))
    /\ UNCHANGED <<allowed, sessionVars, mainVars, results, lastSent>>

Revoke ==
    /\ allowed /\ allowed' = FALSE
    /\ UNCHANGED <<board, copies, sessionVars, mainVars, results, lastSent>>

ClipboardInit ==
    /\ board = [text |-> LocalText(0), changeCount |-> 0] /\ copies = 0 /\ allowed = TRUE
    /\ clipboardStopped = FALSE /\ mainPending = FALSE
    /\ inGeneration = 0 /\ lastGeneration = 0 /\ outGeneration = 0 /\ revision = 0
    /\ inTotal = 0 /\ outOffset = 0 /\ assembly = Nil /\ pendingRemote = Nil /\ outgoing = Nil
    /\ lastChange = -1 /\ ownedChange = -1 /\ mainQueue = <<>> /\ task = Idle /\ results = <<>>
    /\ lastSent = <<FrameOf(0, Nil, 0, 0)>>

ClipboardNext ==
    \/ (\E f \in Frames : Receive(f)) \/ (\E n \in 0..2, due \in BOOLEAN : Tick(n, due)) \/ Stop
    \/ TakeResult \/ MainBegins \/ MainClears \/ MainSets \/ MainOwns \/ MainLooks \/ MainDenied
    \/ MainReads \/ MainCompares \/ ClearLooks \/ ClearWipes \/ Copy \/ Revoke

ClipboardSpec == ClipboardInit /\ [][ClipboardNext]_clipboardVars

-----------------------------------------------------------------------------
(* Properties *)

\* The part of ClipboardFaithful that is about states.
TextsFaithful ==
    /\ IsRemote(board.text) => board.text = RemoteText(board.text[1][2], board.text[1][3])
    /\ clipboardStopped /\ mainQueue = <<>> => ~IsRemote(board.text)

\* A frame that goes on where another of the same text ended.
Continues(f, g) ==
    /\ g.generation = f.generation /\ g.total = f.total /\ g.offset = f.offset + f.size
    /\ g.bytes[1][2] = f.bytes[1][2]

\* Of receive, tick and the main queue's task: what is put on the pasteboard is one whole
\* text of the Client; when the session has stopped and the main queue has run, no text
\* of the Client is left there; a text that was received is never sent back; a text is
\* sent unit after unit from its beginning; and no text is sent that was read before the
\* text received last, so that the older of two copies does not replace the newer.
ClipboardFaithful ==
    /\ []TextsFaithful
    /\ [][lastSent' # lastSent =>
            LET frames == <<Last(lastSent)>> \o lastSent'
            IN  \A i \in DOMAIN lastSent' :
                  /\ ~IsRemote(frames[i + 1].bytes)
                  /\ \/ frames[i + 1].first /\ frames[i + 1].generation > frames[i].generation
                     \/ Continues(frames[i], frames[i + 1])]_clipboardVars
    /\ [][outgoing' # outgoing /\ outgoing' # Nil => Head(results).seen = lastGeneration]_clipboardVars

\* Of the task stop leaves on the main queue (line 120: `a newer local copy is never
\* removed'): what it clears is the Client's text, not one another program has copied.
LocalCopySurvives ==
    [][At("clear", "wipe") /\ board'.text = Nil =>
         board.text = Nil \/ IsRemote(board.text)]_clipboardVars
====
