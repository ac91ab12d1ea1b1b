-------------------------------- MODULE Logger --------------------------------
(***************************************************************************)
(* The logger every program of the repository uses: CLogger                *)
(* (LibLogging/LoggingClass.h) and the Event it sleeps on                  *)
(* (Common/Events.h).  A message is dumped by its caller, or pushed on dq  *)
(* for async_transmit, the thread SetAsyncLogging starts and joins.        *)
(*                                                                         *)
(* Abstractions.  A message is <<its thread, its number>>.  The debug      *)
(* output is always on (no caller turns it off), so a message always has   *)
(* a destination and `out' is what reached it; of the log files only the   *)
(* mutex taken for them is kept.  A section of mtx that nobody else's      *)
(* unlocked accesses can tell apart is one step, taken when mtx is free.   *)
(***************************************************************************)
EXTENDS Naturals, Sequences

CONSTANTS
  Threads,       \* the threads that log
  MaxMsgs,       \* bound: messages of a thread
  MaxSwitches,   \* bound: calls of SetAsyncLogging and SetFileLogging
  FileSwitches   \* what SetFileLogging is called with: a subset of BOOLEAN

ASSUME ConstantsAssumption ==
  MaxMsgs \in Nat /\ MaxSwitches \in Nat /\ FileSwitches \subseteq BOOLEAN

VARIABLES
  pc,        \* pc[t]: "idle", "id", "mode", "push", "signal", "dump", "file", "join"
  sent,      \* sent[t]: the messages t has handed to LogEvent
  dq,        \* concurrent_queue<MESSAGE_DATA_t>
  event,     \* state of we_have_messages
  useFile,   \* useFileLogging
  mode,      \* use_async_mode
  exit,      \* exit_async
  joining,   \* SetAsyncLogging(false) holds mtx and waits for the thread
  worker,    \* async_transmit: "none", "pop", "dump", "file", "check", "wait"
  md,        \* md of async_transmit_func
  over,      \* the static CLogger: "no", "ending" (its destructor), "gone"
  out,       \* the messages that reached the output, in order
  unseen,    \* history: the messages pushed since a thread last looked at dq
  left,      \* history: the messages a new thread found in dq
  switches

clientVars == <<pc, sent>>
workerVars == <<worker, md>>
setVars == <<useFile, mode, joining, switches>>
histories == <<unseen, left>>
vars == <<clientVars, dq, event, exit, workerVars, setVars, over, out, histories>>

Messages == Threads \X (1..MaxMsgs)

Init ==
  /\ pc = [t \in Threads |-> "idle"] /\ sent = [t \in Threads |-> 0]
  /\ dq = <<>> /\ event = FALSE
  /\ useFile = FALSE /\ mode = FALSE /\ exit = FALSE /\ joining = FALSE
  /\ worker = "none" /\ md = <<>>
  /\ over = "no" /\ out = <<>> /\ unseen = {} /\ left = {} /\ switches = 0

-----------------------------------------------------------------------------
(* LogEvent and LogEventToFile, step by step.                              *)

\* mtx: only the join keeps it across steps.
Free == ~joining

Goto(t, from, to) == pc[t] = from /\ pc' = [pc EXCEPT ![t] = to]

\* The call, up to GetInstanceId.
LogEvent(t) ==
  /\ over = "no" /\ sent[t] < MaxMsgs
  /\ Goto(t, "idle", "id")
  /\ sent' = [sent EXCEPT ![t] = @ + 1]
  /\ UNCHANGED <<dq, event, exit, workerVars, setVars, over, out, histories>>

\* GetInstanceId takes mtx; LogEventToFile goes on to LogToFile.
GetInstanceId(t) ==
  /\ Free /\ (Goto(t, "id", "mode") \/ Goto(t, "id", "file"))
  /\ UNCHANGED <<sent, dq, event, exit, workerVars, setVars, over, out, histories>>

\* use_async_mode is read without mtx.
ReadMode(t) ==
  /\ Goto(t, "mode", IF mode THEN "push" ELSE "dump")
  /\ UNCHANGED <<sent, dq, event, exit, workerVars, setVars, over, out, histories>>

Push(t) ==
  /\ Goto(t, "push", "signal")
  /\ dq' = Append(dq, <<t, sent[t]>>)
  /\ unseen' = unseen \cup {<<t, sent[t]>>}
  /\ UNCHANGED <<sent, event, exit, workerVars, setVars, over, out, left>>

\* Seeded fault: the event is set only for a queue that is not empty yet.
SignalIfSeen(t) ==
  /\ Goto(t, "signal", "idle")
  /\ event' = (event \/ Len(dq) > 1)
  /\ UNCHANGED <<sent, dq, exit, workerVars, setVars, over, out, histories>>

\* we_have_messages.set_all()
Signal(t) ==
  /\ Goto(t, "signal", "idle")
  /\ event' = TRUE
  /\ UNCHANGED <<sent, dq, exit, workerVars, setVars, over, out, histories>>

\* LogToFile turns file logging off when it cannot make the folder.
LogToFile == useFile' \in {useFile, FALSE}

\* dump_message on the caller's thread, under mtx.
Dump(t) ==
  /\ Free /\ Goto(t, "dump", "idle")
  /\ out' = Append(out, <<t, sent[t]>>)
  /\ LogToFile
  /\ UNCHANGED <<sent, dq, event, exit, workerVars, mode, joining, switches, over, histories>>

ToFile(t) ==
  /\ Free /\ Goto(t, "file", "idle")
  /\ LogToFile
  /\ UNCHANGED <<sent, dq, event, exit, workerVars, mode, joining, switches, over, out, histories>>

-----------------------------------------------------------------------------
(* The settings.  SetAsyncLogging changes nothing when the mode is the one *)
(* it is called for.                                                       *)

Switch == over = "no" /\ switches < MaxSwitches /\ switches' = switches + 1

SetFileLogging(t, b) ==
  /\ Free /\ pc[t] = "idle" /\ Switch
  /\ useFile' = b
  /\ UNCHANGED <<clientVars, dq, event, exit, workerVars, mode, joining, over, out, histories>>

\* SetAsyncLogging(true)
EnableAsync(t) ==
  /\ Free /\ ~mode /\ pc[t] = "idle" /\ Switch
  /\ exit' = FALSE /\ worker' = "pop" /\ mode' = TRUE
  /\ left' = left \cup {dq[i] : i \in DOMAIN dq}
  /\ UNCHANGED <<clientVars, dq, event, md, useFile, joining, over, out, unseen>>

\* SetAsyncLogging(false): asks the thread to exit, and waits with mtx held.
DisableAsync(t) ==
  /\ Free /\ mode /\ Switch
  /\ Goto(t, "idle", "join")
  /\ exit' = TRUE /\ event' = TRUE /\ joining' = TRUE
  /\ UNCHANGED <<sent, dq, workerVars, useFile, mode, over, out, histories>>

\* Seeded fault: the thread is not waited for.
Detached(t) ==
  /\ Goto(t, "join", "idle")
  /\ mode' = FALSE /\ joining' = FALSE
  /\ UNCHANGED <<sent, dq, event, exit, workerVars, useFile, switches, over, out, histories>>

Joined(t) ==
  /\ worker = "none" /\ Goto(t, "join", "idle")
  /\ mode' = FALSE /\ joining' = FALSE
  /\ UNCHANGED <<sent, dq, event, exit, workerVars, useFile, switches, over, out, histories>>

\* ~CLogger, at the end of the program, when only its thread may be left.
Destructor ==
  /\ over = "no" /\ \A t \in Threads : pc[t] = "idle"
  /\ over' = "ending"
  /\ exit' = TRUE /\ event' = TRUE
  /\ UNCHANGED <<clientVars, dq, workerVars, setVars, out, histories>>

Destroyed ==
  /\ over = "ending" /\ worker = "none"
  /\ over' = "gone"
  /\ UNCHANGED <<clientVars, dq, event, exit, workerVars, setVars, out, histories>>

-----------------------------------------------------------------------------
(* async_transmit_func.                                                    *)

\* Seeded fault: the request to exit is looked for first.
ExitsFirst ==
  /\ worker = "pop"
  /\ \/ exit /\ worker' = "none" /\ UNCHANGED <<dq, md, unseen>>
     \/ ~exit /\ dq = <<>> /\ worker' = "check" /\ unseen' = {} /\ UNCHANGED <<dq, md>>
     \/ ~exit /\ dq # <<>> /\ worker' = "dump" /\ unseen' = {}
        /\ md' = Head(dq) /\ dq' = Tail(dq)
  /\ UNCHANGED <<clientVars, event, exit, setVars, over, out, left>>

TryPop ==
  /\ worker = "pop"
  /\ IF dq = <<>>
       THEN worker' = "check" /\ UNCHANGED <<dq, md>>
       ELSE worker' = "dump" /\ md' = Head(dq) /\ dq' = Tail(dq)
  /\ unseen' = {}
  /\ UNCHANGED <<clientVars, event, exit, setVars, over, out, left>>

\* dump_message, without mtx.
DumpMd ==
  /\ worker = "dump"
  /\ out' = Append(out, md)
  /\ IF useFile THEN worker' = "file" /\ UNCHANGED md ELSE worker' = "pop" /\ md' = <<>>
  /\ UNCHANGED <<clientVars, dq, event, exit, setVars, over, histories>>

\* LogToFile needs mtx.
FileMd ==
  /\ worker = "file" /\ Free
  /\ LogToFile
  /\ worker' = "pop" /\ md' = <<>>
  /\ UNCHANGED <<clientVars, dq, event, exit, mode, joining, switches, over, out, histories>>

\* Seeded fault: a request to exit is not looked for.
NeverExits ==
  /\ worker = "check" /\ worker' = "wait"
  /\ UNCHANGED <<clientVars, dq, event, exit, md, setVars, over, out, histories>>

\* Seeded fault: the thread leaves when it has nothing to do.
ExitsWhenEmpty ==
  /\ worker = "check" /\ worker' = "none"
  /\ UNCHANGED <<clientVars, dq, event, exit, md, setVars, over, out, histories>>

CheckExit ==
  /\ worker = "check"
  /\ worker' = IF exit THEN "none" ELSE "wait"
  /\ UNCHANGED <<clientVars, dq, event, exit, md, setVars, over, out, histories>>

\* wait(250): ends with the event, which resets itself, or after the time.
Wait ==
  /\ worker = "wait" /\ worker' = "pop"
  /\ event' = FALSE
  /\ UNCHANGED <<clientVars, dq, exit, md, setVars, over, out, histories>>

-----------------------------------------------------------------------------
Call(t) ==
  \/ LogEvent(t) \/ EnableAsync(t) \/ DisableAsync(t)
  \/ \E b \in FileSwitches : SetFileLogging(t, b)

Step(t) ==
  \/ GetInstanceId(t) \/ ReadMode(t) \/ Push(t) \/ Signal(t)
  \/ Dump(t) \/ ToFile(t) \/ Joined(t)

Transmit == TryPop \/ DumpMd \/ FileMd \/ CheckExit \/ Wait

Next == (\E t \in Threads : Call(t) \/ Step(t)) \/ Transmit \/ Destructor \/ Destroyed

Spec == Init /\ [][Next]_vars

\* A call that has begun goes on, and the thread runs and its waits end.
FairSpec == Spec /\ (\A t \in Threads : WF_vars(Step(t))) /\ WF_vars(Transmit)

-----------------------------------------------------------------------------
(* Properties.                                                             *)

Steps == {"idle", "id", "mode", "push", "signal", "dump", "file", "join"}

TypeOK ==
  /\ pc \in [Threads -> Steps] /\ sent \in [Threads -> 0..MaxMsgs]
  /\ dq \in Seq(Messages) /\ out \in Seq(Messages) /\ unseen \cup left \subseteq Messages
  /\ event \in BOOLEAN /\ useFile \in BOOLEAN /\ mode \in BOOLEAN
  /\ exit \in BOOLEAN /\ joining \in BOOLEAN
  /\ worker \in {"none", "pop", "dump", "file", "check", "wait"}
  /\ md \in Messages \cup {<<>>}
  /\ over \in {"no", "ending", "gone"} /\ switches \in 0..MaxSwitches

\* The queue and the event are two things: whenever the thread is about to wait
\* with something in the queue, the event is set or the thread that pushed it is
\* about to set it, so the 250 ms of the wait are never needed.
WakeupPending ==
  worker \in {"check", "wait"} /\ dq # <<>> =>
    event \/ \E t \in Threads : pc[t] = "signal"

\* The thread empties the queue before it obeys exit_async: what is left behind
\* it was pushed after it had found the queue empty.  (The push may well
\* come before the request to exit: only a new thread would bring it out.)
DrainedAtExit ==
  worker = "none" => \A i \in DOMAIN dq : dq[i] \in unseen

\* A thread's messages come out in the order it logged them, across changes
\* between the two ways of logging, except those an earlier thread left behind.
InOrder ==
  \A i, j \in DOMAIN out :
    i < j /\ out[i][1] = out[j][1] => out[i][2] < out[j][2] \/ out[j] \in left

\* The thread waits for mtx, which the call that waits for the thread holds.
Deadlocked == joining /\ worker = "file"

\* The join is made with mtx held, and everything else waits for it: every call
\* comes back, except when the thread is in LogToFile and needs mtx itself.
CallsReturn == \A t \in Threads : (pc[t] # "idle") ~> (pc[t] = "idle" \/ Deadlocked)

\* While asynchronous logging is on, what is queued comes out.
Delivered ==
  \A m \in Messages :
    (\E i \in DOMAIN dq : dq[i] = m) ~> (exit \/ \E i \in DOMAIN out : out[i] = m)

\* What is asked of the logger ends, the call itself and the message's way out.
CallsEnd == CallsReturn /\ Delivered

\* "exit request": the thread ends once it is asked to.
ExitServed == exit ~> (worker = "none")

=============================================================================
