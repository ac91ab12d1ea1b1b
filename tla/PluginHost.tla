------------------------------ MODULE PluginHost ------------------------------
(***************************************************************************)
(* The play-out plugin (LogoControlPlugin/LogoControlPlugin.cpp): the      *)
(* calls of IPlayBoxOut, made by the host's thread one after the other,    *)
(* and ExecutionThreadFn, which sends the commands to the LogoControl      *)
(* service.                                                                *)
(*                                                                         *)
(* Abstractions.  A command is its number.  Of the settings only whether   *)
(* a command can be sent with them and which ones they are counts; the     *)
(* service's list of boards is used for a warning only and left out, as    *)
(* are the texts (the command's, the dialogs', last_error).                *)
(***************************************************************************)
EXTENDS Integers, Sequences

CONSTANTS
  Settings,      \* the settings there can be
  Sendable,      \* those with a valid address and a logo id
  MaxCommands,   \* bound: calls of Execute
  MaxCalls       \* bound: other calls of the host

ASSUME ConstantsAssumption ==
  /\ Sendable \subseteq Settings /\ Settings \ Sendable # {}
  /\ MaxCommands \in Nat /\ MaxCalls \in Nat

VARIABLES
  host,          \* the host's thread: "ready", "setEvent", "done", "delete", "deleted"
  inited,
  bRunning,
  config,        \* config.json
  plg_settings,
  cmdQueue,
  event,         \* eventCheckForData, which resets itself
  thread,        \* execution_thread: "top", "pop", "send", "poll", "wait", "gone"
  local,         \* the copy of the settings
  cmd,           \* the command popped
  requests,      \* history: <<command, settings>> of the requests made
  dropped,       \* history: the commands no request was made for
  finished,      \* history: Done or Release has returned
  inForce,       \* history: the settings there were since a command was given
  executed, calls

settingsVars == <<config, plg_settings, inForce>>
hostVars == <<inited, settingsVars, finished, executed, calls>>
threadVars == <<local, cmd, requests, dropped>>
vars == <<host, hostVars, bRunning, cmdQueue, event, thread, threadVars>>

\* The constructor starts the thread and sets inited; the settings are empty.
Init ==
  /\ host = "ready" /\ inited = 1
  /\ config \in Settings /\ plg_settings \in Settings \ Sendable
  /\ bRunning = TRUE /\ cmdQueue = <<>> /\ event = FALSE
  /\ thread = "top" /\ local = plg_settings /\ cmd = 0
  /\ requests = {} /\ dropped = {} /\ finished = FALSE
  /\ inForce = [n \in 1..MaxCommands |-> {}]
  /\ executed = 0 /\ calls = 0

-----------------------------------------------------------------------------
(* The host's calls.                                                       *)

Called == host = "ready" /\ calls < MaxCalls /\ calls' = calls + 1

\* The settings change, for the commands given already too.
Changes(s) ==
  /\ plg_settings' = s
  /\ inForce' = [n \in 1..MaxCommands |->
                  IF n <= executed THEN inForce[n] \cup {s} ELSE {}]

Reinited == IF inited < 0 THEN 0 ELSE inited

\* The file when it cannot be read, or was cut off while it was written: LoadSettings
\* returns settings without values then.
Unread == Settings \ Sendable

\* IPlayBoxOut::Init
InitCall ==
  /\ Called
  /\ \E s \in {config} \cup Unread : Changes(s)
  /\ inited' = Reinited
  /\ UNCHANGED <<host, bRunning, config, finished, executed, cmdQueue, event, thread, threadVars>>

Activate ==
  /\ Called /\ inited' = inited + 1
  /\ UNCHANGED <<host, bRunning, settingsVars, finished, executed, cmdQueue,
                 event, thread, threadVars>>

Deactivate ==
  /\ Called /\ inited' = inited - 1
  /\ UNCHANGED <<host, bRunning, settingsVars, finished, executed, cmdQueue,
                 event, thread, threadVars>>

\* The dialog may be canceled, and then nothing changes.  SaveSettings may fail to
\* open the file, and does not look at what came of writing it: the settings are
\* in force all the same.
Config(s) ==
  /\ Called /\ Changes(s)
  /\ config' \in {s, config} \cup Unread
  /\ UNCHANGED <<host, bRunning, inited, finished, executed, cmdQueue, event, thread,
                 threadVars>>

\* The settings a command can be sent with: from now on, and the thread's copy if
\* it will pop this command with it.
Given(n) ==
  inForce' = [inForce EXCEPT ![n] =
    {plg_settings} \cup (IF thread = "pop" /\ cmdQueue = <<>> THEN {local} ELSE {})]

\* SendCommand: the queue, then the event.
Execute ==
  /\ host = "ready" /\ executed < MaxCommands
  /\ executed' = executed + 1 /\ cmdQueue' = Append(cmdQueue, executed')
  /\ Given(executed')
  /\ host' = "setEvent"
  /\ UNCHANGED <<inited, bRunning, config, plg_settings, finished, calls, event, thread,
                 threadVars>>

\* Seeded fault: the event is set only for a queue that was empty.
SetsIfOne ==
  /\ host = "setEvent" /\ host' = "ready"
  /\ event' = (event \/ Len(cmdQueue) > 1)
  /\ UNCHANGED <<hostVars, bRunning, cmdQueue, thread, threadVars>>

SetEvent ==
  /\ host = "setEvent" /\ host' = "ready"
  /\ event' = TRUE
  /\ UNCHANGED <<hostVars, bRunning, cmdQueue, thread, threadVars>>

\* Done, and Release of the last reference: the thread is told to end ...
Finish(how) ==
  /\ host = "ready" /\ host' = how
  /\ bRunning' = FALSE /\ event' = TRUE
  /\ UNCHANGED <<hostVars, cmdQueue, thread, threadVars>>

\* Seeded fault: the thread is not waited for.
FinishesAtOnce ==
  /\ host \in {"done", "delete"}
  /\ IF host = "done" THEN host' = "ready" /\ inited' = -1
                      ELSE host' = "deleted" /\ UNCHANGED inited
  /\ finished' = TRUE
  /\ UNCHANGED <<settingsVars, executed, calls, bRunning, cmdQueue, event,
                 thread, threadVars>>

\* ... and joined.
Finished ==
  /\ thread = "gone" /\ host \in {"done", "delete"}
  /\ IF host = "done" THEN host' = "ready" /\ inited' = -1
                      ELSE host' = "deleted" /\ UNCHANGED inited
  /\ finished' = TRUE
  /\ UNCHANGED <<settingsVars, executed, calls, bRunning, cmdQueue, event,
                 thread, threadVars>>

-----------------------------------------------------------------------------
(* ExecutionThreadFn.                                                      *)

\* Seeded fault: the settings are copied only when nothing is to be sent.
CopiesWhenIdle ==
  /\ thread = "top"
  /\ IF bRunning
       THEN thread' = "pop" /\ local' = IF cmdQueue = <<>> THEN plg_settings ELSE local
       ELSE thread' = "gone" /\ UNCHANGED local
  /\ UNCHANGED <<host, hostVars, bRunning, cmdQueue, event, cmd, requests, dropped>>

\* Seeded fault: bRunning is looked at only when there are commands.
LoopsOn ==
  /\ thread = "top"
  /\ IF bRunning \/ cmdQueue = <<>>
       THEN thread' = "pop" /\ local' = plg_settings
       ELSE thread' = "gone" /\ UNCHANGED local
  /\ UNCHANGED <<host, hostVars, bRunning, cmdQueue, event, cmd, requests, dropped>>

LoopTop ==
  /\ thread = "top"
  /\ IF bRunning THEN thread' = "pop" /\ local' = plg_settings
                 ELSE thread' = "gone" /\ UNCHANGED local
  /\ UNCHANGED <<host, hostVars, bRunning, cmdQueue, event, cmd, requests, dropped>>

\* Seeded fault: one command is sent for all that wait.
PopsAll ==
  /\ thread = "pop"
  /\ IF cmdQueue = <<>> \/ local \notin Sendable
       THEN thread' = "poll" /\ UNCHANGED <<cmdQueue, cmd>>
       ELSE thread' = "send" /\ cmd' = Head(cmdQueue) /\ cmdQueue' = <<>>
  /\ UNCHANGED <<host, hostVars, bRunning, event, local, requests, dropped>>

\* try_pop; a command that cannot be sent with these settings is dropped.
TryPop ==
  /\ thread = "pop"
  /\ IF cmdQueue = <<>>
       THEN thread' = "poll" /\ UNCHANGED <<cmdQueue, cmd, dropped>>
       ELSE /\ cmdQueue' = Tail(cmdQueue)
            /\ IF local \in Sendable
                 THEN thread' = "send" /\ cmd' = Head(cmdQueue) /\ UNCHANGED dropped
                 ELSE /\ thread' = "top" /\ dropped' = dropped \cup {Head(cmdQueue)}
                      /\ UNCHANGED cmd
  /\ UNCHANGED <<host, hostVars, bRunning, event, local, requests>>

\* ExecuteGet, which is not repeated whatever comes of it.
Send ==
  /\ thread = "send" /\ thread' = "top"
  /\ requests' = requests \cup {<<cmd, local>>} /\ cmd' = 0
  /\ UNCHANGED <<host, hostVars, bRunning, cmdQueue, event, local, dropped>>

\* The list of boards, which takes up to half a second.
GetBoards ==
  /\ thread = "poll" /\ thread' = "wait"
  /\ UNCHANGED <<host, hostVars, bRunning, cmdQueue, event, threadVars>>

\* WaitForSingleObject(eventCheckForData, 2000)
Wait ==
  /\ thread = "wait" /\ thread' = "top"
  /\ event' = FALSE
  /\ UNCHANGED <<host, hostVars, bRunning, cmdQueue, threadVars>>

-----------------------------------------------------------------------------
Executing == LoopTop \/ TryPop \/ Send \/ GetBoards \/ Wait

Host ==
  \/ InitCall \/ Activate \/ Deactivate \/ \E s \in Settings : Config(s)
  \/ Execute \/ SetEvent \/ Finished
  \/ \E how \in {"done", "delete"} : Finish(how)

Next == Host \/ Executing

Spec == Init /\ [][Next]_vars

\* The thread runs, its requests and waits end, and a call that has begun goes on.
FairSpec == Spec /\ WF_vars(Executing) /\ WF_vars(SetEvent \/ Finished)

-----------------------------------------------------------------------------
(* Properties.                                                             *)

TypeOK ==
  /\ host \in {"ready", "setEvent", "done", "delete", "deleted"}
  /\ inited \in Int
  /\ bRunning \in BOOLEAN /\ event \in BOOLEAN /\ finished \in BOOLEAN
  /\ config \in Settings /\ plg_settings \in Settings /\ local \in Settings
  /\ cmdQueue \in Seq(1..MaxCommands) /\ cmd \in 0..MaxCommands
  /\ thread \in {"top", "pop", "send", "poll", "wait", "gone"}
  /\ inForce \in [1..MaxCommands -> SUBSET Settings]
  /\ requests \subseteq (1..MaxCommands) \X Sendable /\ dropped \subseteq 1..MaxCommands
  /\ executed \in 0..MaxCommands /\ calls \in 0..MaxCalls

\* A command waiting beside a sleeping thread has woken it, or is about to: the
\* 2000 ms of the wait are for the list of boards only.
WakeupPending ==
  thread = "wait" /\ (cmdQueue # <<>> \/ ~bRunning) =>
    event \/ host = "setEvent"

\* The plugin keeps CommandSender's promise to its host.
Promise == INSTANCE CommandSender
  WITH given <- executed, waiting <- cmdQueue, sending <- cmd, ended <- finished

ImplementsSender == Promise!SenderSpec

\* A command goes out with settings there were when it was given or after that,
\* never with older ones, but in the one case of a thread that had copied its
\* settings and was about to find the queue empty.
SettingsInForce == \A r \in requests : r[2] \in inForce[r[1]]

\* After Done or the last Release has returned no request is made any more: the
\* host may unload the module.
QuietWhenFinished == [][finished => requests' = requests]_vars

\* A command given to a plugin that was not told to end is asked for or dropped.
CommandsHandled ==
  \A n \in 1..MaxCommands :
    (executed >= n) ~> (~bRunning \/ n \in dropped \/ \E r \in requests : r[1] = n)

\* Done and Release return.
FinishReturns == (host \in {"done", "delete"}) ~> (host \in {"ready", "deleted"})

\* Every call has its effect: neither a command nor the end waits for ever on the
\* thread, wherever it was when the call came.
CallsTakeEffect == CommandsHandled /\ FinishReturns

=============================================================================
