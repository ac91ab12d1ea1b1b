------------------------------- MODULE AtemLink -------------------------------
(***************************************************************************)
(* ATEMHelper: the thread that keeps a connection to a video switcher and  *)
(* puts the monitor output on the audio of the input in preview            *)
(* (AtemClass.cpp), and the InputMonitors whose callbacks come from the    *)
(* switcher library's own thread (InputMonitor.cpp).                       *)
(*                                                                         *)
(* Abstractions.  One input is in preview; of the switcher's events only   *)
(* the disconnect matters, of an input's only the change of its preview    *)
(* tally; of the monitor output only its solo.  Audible are the inputs     *)
(* that SetAudioInput is called for.  The library (external) calls back in *)
(* the order of the changes, one at a time, and not after a RemoveCallback *)
(* that was made while the thread had COM; behind CoUninitialize() it may  *)
(* succeed, fail, or end the process.                                      *)
(***************************************************************************)
EXTENDS Naturals, Sequences

CONSTANTS
  Inputs,        \* the switcher's inputs
  Audible,       \* those with an audio input of their own
  Nobody,        \* no input
  MaxMoves,      \* bound: changes of the preview
  MaxFaults      \* bound: lost connections and failed calls of the library

ASSUME ConstantsAssumption ==
  /\ Audible \subseteq Inputs /\ Nobody \notin Inputs
  /\ MaxMoves \in Nat /\ MaxFaults \in Nat

VARIABLES
  up,        \* the switcher can be reached
  preview,   \* the input in preview
  solo,      \* the switcher's monitor output: the input it is put on
  pending,   \* the changes the library has still to call back for
  notifying, \* Notify has set the tally and not yet pushed its event
  running,   \* bRunning
  pc,        \* atemCtrlFn
  switcher,  \* "null", "live", or "dead": its connection was lost
  callback,  \* AddCallback(this) on the switcher
  parted,    \* history: inputs was cleared after the last connection, if any
  lost,      \* evt_queue holds a disconnect
  inputEvts, \* input_evt_queue
  monitor,   \* monitorOutput is not null
  todo,      \* what the iterator still has
  cur,       \* the input being handled
  read,      \* the tally InputMonitor's constructor read
  watched,   \* inputs: "none", "on", "left" over from a connection given up, or
             \*   "orphan": called back though the monitor is destroyed
  tally,     \* previewTally
  audio,     \* audioInputId # 0
  missed,    \* history: inputs whose change nobody was called back for
  unheeded,  \* history: the preview moved while connecting, and not since
  moves, faults

hwVars == <<up, preview, solo, pending, notifying, unheeded, moves, faults>>
queueVars == <<lost, inputEvts>>
monitorVars == <<watched, tally, audio, missed>>
linkVars == <<switcher, callback, parted>>
localVars == <<monitor, todo, cur, read>>
vars == <<hwVars, queueVars, monitorVars, linkVars, localVars, running, pc>>

Init ==
  /\ up = TRUE /\ preview \in Inputs /\ solo = Nobody
  /\ pending = <<>> /\ notifying = FALSE
  /\ running = TRUE /\ pc = "start"
  /\ switcher = "null" /\ callback = FALSE /\ parted = TRUE
  /\ lost = FALSE /\ inputEvts = <<>>
  /\ monitor = FALSE /\ todo = {} /\ cur = Nobody /\ read = FALSE
  /\ watched = [i \in Inputs |-> "none"]
  /\ tally = [i \in Inputs |-> FALSE] /\ audio = [i \in Inputs |-> FALSE]
  /\ missed = {} /\ unheeded = FALSE /\ moves = 0 /\ faults = 0

-----------------------------------------------------------------------------
(* The switcher and its library.                                           *)

Fault == faults < MaxFaults /\ faults' = faults + 1

\* The elements of s that are in S, in their order (SelectSeq, as a function
\* on the positions, so that proofs can unfold it).
Only(s, S) ==
  LET only[k \in 0..Len(s)] ==
        IF k = 0 THEN <<>>
        ELSE IF s[k] \in S THEN Append(only[k - 1], s[k]) ELSE only[k - 1]
  IN  only[Len(s)]

\* The inputs whose changes the library calls back for.
Called ==
  {i \in Inputs : up /\ (watched[i] \in {"left", "orphan"}
                           \/ (watched[i] = "on" /\ switcher = "live"))}

\* From the first look at an input to the last.
Connecting == {"next", "watch", "mixer", "audioIterator", "audio", "audioSolo"}

\* The preview moves: both inputs' tallies change.
PreviewMoves(i) ==
  /\ i # preview /\ moves < MaxMoves /\ moves' = moves + 1
  /\ preview' = i
  /\ pending' = pending \o Only(<<preview, i>>, Called)
  /\ missed' = IF pc = "watch" THEN missed \cup ({cur} \cap {preview, i}) ELSE missed
  /\ unheeded' = (pc \in Connecting)
  /\ UNCHANGED <<up, solo, notifying, faults, queueVars, watched, tally, audio, linkVars,
                 localVars, running, pc>>

\* The connection is lost: Notify(bmdSwitcherEventTypeDisconnected), if asked for.
LinkLost ==
  /\ up /\ Fault /\ up' = FALSE
  /\ switcher' = IF switcher = "live" THEN "dead" ELSE switcher
  /\ lost' = (lost \/ callback)
  /\ pending' = IF notifying THEN <<Head(pending)>> ELSE <<>>
  /\ UNCHANGED <<preview, solo, notifying, unheeded, moves, inputEvts, monitorVars, callback,
                 parted, localVars, running, pc>>

LinkBack ==
  /\ ~up /\ up' = TRUE
  /\ UNCHANGED <<preview, solo, pending, notifying, unheeded, moves, faults, queueVars, monitorVars,
                 linkVars, localVars, running, pc>>

\* Seeded fault: an input that left the preview is taken for being in it.
NotifiesAnyChange ==
  /\ pending # <<>> /\ ~notifying /\ notifying' = TRUE
  /\ tally' = [tally EXCEPT ![Head(pending)] = TRUE]
  /\ missed' = missed \ {Head(pending)}
  /\ UNCHANGED <<up, preview, solo, pending, unheeded, moves, faults, queueVars, watched, audio,
                 linkVars, localVars, running, pc>>

\* InputMonitor::Notify asks the switcher for the tally as it is now.  (The
\* tally of one left over is nobody's any more.)
NotifyReads ==
  /\ pending # <<>> /\ ~notifying /\ notifying' = TRUE
  /\ watched[Head(pending)] # "orphan"
  /\ IF watched[Head(pending)] = "on"
       THEN /\ tally' = [tally EXCEPT ![Head(pending)] = (preview = Head(pending))]
            /\ missed' = missed \ {Head(pending)}
       ELSE UNCHANGED <<tally, missed>>
  /\ UNCHANGED <<up, preview, solo, pending, unheeded, moves, faults, queueVars, watched, audio,
                 linkVars, localVars, running, pc>>

\* InputNotification
NotifyPushes ==
  /\ notifying /\ notifying' = FALSE
  /\ watched[Head(pending)] # "orphan"
  /\ inputEvts' = Append(inputEvts, Head(pending)) /\ pending' = Tail(pending)
  /\ UNCHANGED <<up, preview, solo, unheeded, moves, faults, lost, monitorVars, linkVars, localVars,
                 running, pc>>

\* Notify of a monitor that is destroyed: it may do nothing, or end the process.
NotifyDestroyed ==
  /\ pending # <<>> /\ watched[Head(pending)] = "orphan"
  /\ notifying' = FALSE /\ pending' = Tail(pending)
  /\ pc' \in {pc, "crashed"}
  /\ UNCHANGED <<up, preview, solo, unheeded, moves, faults, queueVars, monitorVars, linkVars,
                 localVars, running>>

-----------------------------------------------------------------------------
(* atemCtrlFn: connecting.                                                 *)

\* Without COM, or without the switcher's drivers, the thread is through.
Start ==
  /\ pc = "start"
  /\ \/ pc' = "top" /\ UNCHANGED faults
     \/ pc' = "done" /\ Fault
  /\ UNCHANGED <<up, preview, solo, pending, notifying, unheeded, moves, queueVars, monitorVars,
                 linkVars, localVars, running>>

Top ==
  /\ pc = "top"
  /\ IF running /\ switcher = "null"
       THEN /\ pc' = "connect"
            /\ monitor' = FALSE /\ lost' = FALSE /\ inputEvts' = <<>>
       ELSE /\ pc' = IF running THEN "events" ELSE "stop"
            /\ UNCHANGED <<monitor, queueVars>>
  /\ UNCHANGED <<hwVars, monitorVars, linkVars, todo, cur, read, running>>

CouldFail == (switcher = "dead" /\ UNCHANGED faults) \/ Fault

ConnectTo ==
  /\ pc = "connect"
  /\ \/ up /\ switcher' = "live" /\ pc' = "callback" /\ UNCHANGED faults
     \/ pc' = "top" /\ UNCHANGED switcher /\ (Fault \/ (~up /\ UNCHANGED faults))
  /\ UNCHANGED <<up, preview, solo, pending, notifying, unheeded, moves, queueVars, monitorVars,
                 callback, parted, localVars, running>>

\* Seeded fault: the queues are cleared once the callback is there.
AddsThenClears ==
  /\ pc = "callback"
  /\ \/ ~callback /\ callback' = TRUE /\ UNCHANGED <<pc, switcher, faults, lost>>
     \/ callback /\ lost' = FALSE /\ pc' = "iterator" /\ UNCHANGED <<callback, switcher, faults>>
     \/ CouldFail /\ switcher' = "null" /\ pc' = "top" /\ UNCHANGED <<callback, lost>>
  /\ UNCHANGED <<up, preview, solo, pending, notifying, unheeded, moves, inputEvts, monitorVars,
                 parted, localVars, running>>

AddCallback ==
  /\ pc = "callback"
  /\ \/ callback' = TRUE /\ pc' = "iterator" /\ UNCHANGED <<switcher, faults>>
     \/ CouldFail /\ switcher' = "null" /\ pc' = "top" /\ UNCHANGED callback
  /\ UNCHANGED <<up, preview, solo, pending, notifying, unheeded, moves, queueVars, monitorVars,
                 parted, localVars, running>>

\* An iterator cannot be made: the connection is given up, inputs is kept.
GiveUp ==
  /\ CouldFail
  /\ callback' = FALSE /\ switcher' = "null" /\ pc' = "top"
  /\ watched' = [i \in Inputs |-> IF watched[i] = "on" THEN "left" ELSE watched[i]]
  /\ UNCHANGED <<up, preview, solo, pending, notifying, unheeded, moves, queueVars, tally, audio,
                 missed, parted, localVars, running>>

InputIterator ==
  /\ pc = "iterator"
  /\ \/ GiveUp
     \/ /\ todo' = Inputs /\ pc' = "next" /\ unheeded' = FALSE /\ parted' = FALSE
        /\ UNCHANGED <<up, preview, solo, pending, notifying, moves, faults, queueVars,
                       monitorVars, switcher, callback, monitor, cur, read, running>>

\* The constructor of an InputMonitor reads the tally ...
ReadTally ==
  /\ pc = "next"
  /\ \E i \in todo : cur' = i /\ todo' = todo \ {i} /\ read' = (preview = i)
  /\ pc' = "watch"
  /\ UNCHANGED <<hwVars, queueVars, monitorVars, linkVars, monitor, running>>

\* RemoveCallback of the inputs S; it waits for a Notify that has begun.
Forget(S) ==
  /\ ~(notifying /\ Head(pending) \in S)
  /\ pending' = Only(pending, Inputs \ S)

\* ... and only then asks to be called back; it takes the place of one left over.
Watch ==
  /\ pc = "watch" /\ pc' = "next"
  /\ Forget({cur})
  /\ watched' = [watched EXCEPT ![cur] = "on"]
  /\ tally' = [tally EXCEPT ![cur] = read] /\ audio' = [audio EXCEPT ![cur] = FALSE]
  /\ cur' = Nobody /\ read' = FALSE
  /\ UNCHANGED <<up, preview, solo, notifying, unheeded, moves, faults, queueVars, missed, linkVars,
                 monitor, todo, running>>

InputsDone ==
  /\ pc = "next" /\ todo = {} /\ pc' = "mixer"
  /\ UNCHANGED <<hwVars, queueVars, monitorVars, linkVars, localVars, running>>

\* The switcher may have no mixer, the mixer no monitor output; the output found
\* is put on no input.
Mixer ==
  /\ pc = "mixer"
  /\ \/ GiveUp
     \/ /\ pc' = "top"
        /\ UNCHANGED <<hwVars, queueVars, monitorVars, linkVars, localVars, running>>
     \/ /\ pc' = "audioIterator" /\ monitor' \in BOOLEAN
        /\ solo' = IF monitor' /\ switcher = "live" THEN Nobody ELSE solo
        /\ UNCHANGED <<up, preview, pending, notifying, unheeded, moves, faults, queueVars,
                       monitorVars, linkVars, todo, cur, read, running>>

AudioIterator ==
  /\ pc = "audioIterator"
  /\ \/ GiveUp
     \/ /\ todo' = Audible /\ pc' = "audio"
        /\ UNCHANGED <<hwVars, queueVars, monitorVars, linkVars, monitor, cur, read, running>>

\* Seeded fault: the audio input is set, the tally it already has is not heeded.
AudioOnly ==
  /\ pc = "audio"
  /\ \E i \in todo : todo' = todo \ {i} /\ audio' = [audio EXCEPT ![i] = TRUE]
  /\ UNCHANGED <<hwVars, queueVars, watched, tally, missed, linkVars, monitor, cur, read,
                 running, pc>>

\* SetAudioInput, and the output is put on the input if that is in preview.
AudioInput ==
  /\ pc = "audio"
  /\ \E i \in todo :
       /\ todo' = todo \ {i} /\ audio' = [audio EXCEPT ![i] = TRUE]
       /\ IF tally[i] /\ monitor THEN pc' = "audioSolo" /\ cur' = i ELSE UNCHANGED <<pc, cur>>
  /\ UNCHANGED <<hwVars, queueVars, watched, tally, missed, linkVars, monitor, read, running>>

AudioDone ==
  /\ pc = "audio" /\ todo = {} /\ pc' = "top"
  /\ UNCHANGED <<hwVars, queueVars, monitorVars, linkVars, localVars, running>>

SoloOf ==
  IF switcher # "live" THEN solo ELSE IF audio[cur] THEN cur ELSE Nobody

SetAudioInputMonitorSolo ==
  /\ pc \in {"audioSolo", "solo"}
  /\ pc' = IF pc = "solo" THEN "inputs" ELSE "audio"
  /\ solo' = SoloOf /\ cur' = Nobody
  /\ UNCHANGED <<up, preview, pending, notifying, unheeded, moves, faults, queueVars, monitorVars,
                 linkVars, monitor, todo, read, running>>

-----------------------------------------------------------------------------
(* atemCtrlFn: connected.                                                  *)

\* The monitors are destroyed.
Clear ==
  /\ Forget(Inputs)
  /\ watched' = [i \in Inputs |-> "none"]
  /\ tally' = [i \in Inputs |-> FALSE] /\ audio' = [i \in Inputs |-> FALSE]
  /\ missed' = {}

\* Seeded fault: inputs.clear() is left to the next connection.
KeepsMonitors ==
  /\ pc = "events" /\ pc' = "inputs"
  /\ IF lost
       THEN /\ lost' = FALSE /\ callback' = FALSE /\ switcher' = "null" /\ parted' = TRUE
            /\ watched' = [i \in Inputs |-> IF watched[i] = "on" THEN "left" ELSE watched[i]]
            /\ UNCHANGED <<tally, audio, missed, pending>>
       ELSE UNCHANGED <<lost, linkVars, monitorVars, pending>>
  /\ UNCHANGED <<up, preview, solo, notifying, unheeded, moves, faults, inputEvts, localVars,
                 running>>

SwitcherEvents ==
  /\ pc = "events" /\ pc' = "inputs"
  /\ IF lost
       THEN lost' = FALSE /\ callback' = FALSE /\ switcher' = "null" /\ parted' = TRUE /\ Clear
       ELSE UNCHANGED <<lost, linkVars, monitorVars, pending>>
  /\ UNCHANGED <<up, preview, solo, notifying, unheeded, moves, faults, inputEvts, localVars,
                 running>>

\* The tally is the input's at the moment the event is handled.
InputEvent ==
  /\ pc = "inputs" /\ inputEvts # <<>>
  /\ inputEvts' = Tail(inputEvts)
  /\ LET i == Head(inputEvts)
     IN  IF watched[i] # "none" /\ tally[i] /\ monitor
           THEN pc' = "solo" /\ cur' = i
           ELSE UNCHANGED <<pc, cur>>
  /\ UNCHANGED <<hwVars, lost, monitorVars, linkVars, monitor, todo, read, running>>

InputEventsDone ==
  /\ pc = "inputs" /\ inputEvts = <<>> /\ pc' = "top"
  /\ UNCHANGED <<hwVars, queueVars, monitorVars, linkVars, localVars, running>>

-----------------------------------------------------------------------------
(* The end.                                                                *)

Destroy ==
  /\ running /\ running' = FALSE
  /\ UNCHANGED <<hwVars, queueVars, monitorVars, linkVars, localVars, pc>>

\* RemoveCallback(this); CoUninitialize().
Stop ==
  /\ pc = "stop" /\ pc' = "release"
  /\ callback' = FALSE /\ switcher' = "null"
  /\ UNCHANGED <<hwVars, queueVars, monitorVars, parted, localVars, running>>

\* Only now are the locals destroyed, inputs and switcherDiscovery with them: the
\* RemoveCallback of some monitors may fail, and if COM has unloaded the library
\* the calls end the process.
Release ==
  /\ pc = "release"
  /\ \/ /\ pc' = "done"
        /\ \E failed \in SUBSET {i \in Inputs : watched[i] # "none"} :
             /\ Forget(Inputs \ failed)
             /\ watched' = [i \in Inputs |-> IF i \in failed THEN "orphan" ELSE "none"]
        /\ tally' = [i \in Inputs |-> FALSE] /\ audio' = [i \in Inputs |-> FALSE]
        /\ missed' = {}
     \/ pc' = "crashed" /\ UNCHANGED <<monitorVars, pending>>
  /\ UNCHANGED <<up, preview, solo, notifying, unheeded, moves, faults, queueVars, linkVars,
                 localVars, running>>

-----------------------------------------------------------------------------
AtemCtrlFn ==
  \/ Start \/ Top \/ ConnectTo \/ AddCallback \/ InputIterator
  \/ ReadTally \/ Watch \/ InputsDone \/ Mixer \/ AudioIterator \/ AudioInput \/ AudioDone
  \/ SetAudioInputMonitorSolo \/ SwitcherEvents \/ InputEvent \/ InputEventsDone
  \/ Stop \/ Release

Library == NotifyReads \/ NotifyPushes

Next ==
  \/ \E i \in Inputs : PreviewMoves(i)
  \/ LinkLost \/ LinkBack \/ Library \/ NotifyDestroyed \/ AtemCtrlFn \/ Destroy

Spec == Init /\ [][Next]_vars

\* The thread runs, and the library calls back.
FairSpec == Spec /\ WF_vars(AtemCtrlFn) /\ WF_vars(Library)

-----------------------------------------------------------------------------
(* Properties.                                                             *)

\* A monitor that nothing is on the way to has the input's tally, except for a
\* change between the constructor's look at the tally and its AddCallback.
TallyCurrent ==
  \A i \in Inputs :
    /\ switcher = "live" /\ watched[i] = "on" /\ i \notin missed
    /\ \A k \in DOMAIN pending : pending[k] # i
    => tally[i] = (preview = i)

\* However the moves of the preview, the callbacks and the thread interleave,
\* when everything has been handled the monitor output is on the preview, unless
\* the preview moved while the inputs were looked at one after the other.
SoloFollows ==
  /\ switcher = "live" /\ monitor /\ pc = "events"
  /\ pending = <<>> /\ inputEvts = <<>> /\ ~unheeded
  => solo = IF preview \in Audible THEN preview ELSE Nobody

\* What the switcher told is what the monitors hold and what the output does.
MonitorsRight == TallyCurrent /\ SoloFollows

\* When the destructor is through, the switcher has no one left to call back.  An
\* input has, at worst, the monitor that was destroyed behind CoUninitialize(), and
\* none if the last connection, if there was one, ended with a disconnect that the
\* thread handled: it destroyed the monitors while it still had COM.
QuietWhenDone ==
  pc = "done" =>
    /\ ~callback
    /\ \A k \in DOMAIN pending : watched[pending[k]] = "orphan"
    /\ \A i \in Inputs : watched[i] = "none" \/ (watched[i] = "orphan" /\ ~parted)

\* A disconnect that was reported always ends the connection: no clearing of the
\* queue and no work on the connection in the meantime loses it.
LossNoticed == lost ~> (switcher = "null")

\* The destructor's join returns, whatever the thread is doing, or the process ends
\* over what is released behind CoUninitialize().
StopEnds == ~running ~> pc \in {"done", "crashed"}

\* Whoever ends the connection, it ends: the switcher by its report, the
\* destructor by its flag, wherever the thread is when that comes.
LinkEnds == LossNoticed /\ StopEnds

=============================================================================
