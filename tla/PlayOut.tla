------------------------------- MODULE PlayOut -------------------------------
(***************************************************************************)
(* From the play-out host to the card and back to the list of boards: the  *)
(* commands of the plugin (CommandSender, which PluginHost implements),    *)
(* the logo requests it and the web page make (SetLogoAPI), the boards     *)
(* that take them (LogoClass), what the cards tell of their lights, and    *)
(* the logo the list shows (GetBoards).                                    *)
(*                                                                         *)
(* Abstractions.  The plugin's settings name any of Targets at any time.   *)
(* The HTTP server is the set of the requests it has: its callbacks run on *)
(* many threads, so any may come next; veclock lets one of them at a time  *)
(* look at the boards, and keeps no board's thread from going on.  A board *)
(* is here what the orders and the list need of LogoBoard, whose steps     *)
(* these are made of: no addresses, no object ids; while it is not ready   *)
(* its paths take any of the values told, as ids left over from another    *)
(* card may let them.  A light vector is the set of the lights that are    *)
(* on; the cards have four lights on each path.                            *)
(***************************************************************************)
EXTENDS CommandSender

CONSTANTS
  NBoards,       \* the boards of the configuration, in order
  Cards, NoCard,
  Targets,       \* the ids the plugin's settings may name
  Logos,         \* what a command may ask for
  Buttons,       \* what a button of the page may ask for
  Vectors,       \* what other clients of a card set
  MaxPresses,    \* bound: buttons pressed
  MaxTroubles    \* bound: lost connections and orders, refusals, other clients,
                 \*   incomplete infos, requests that fail or last too long

ASSUME PlayOutAssumption ==
  /\ NBoards \in Nat \ {0} /\ MaxPresses \in Nat /\ MaxTroubles \in Nat
  /\ NoCard \notin Cards \cup Targets
  /\ Logos \subseteq Nat /\ Buttons \subseteq 0..2 /\ Vectors \subseteq SUBSET (1..4)

Boards == 1..NBoards
Paths == {1, 2}

VARIABLES
  asked,         \* the logo of each command given
  http,          \* the plugin's request: "none", "sent", "answered"
  atServer,      \* the requests the server has not handled yet
  doing,         \* what the holder of veclock is at: "nothing" while it is free,
                 \*   "look" and "push" in SetLogoAPI, "list" and "second" in GetBoards
  turn,          \* the board its loop has come to
  order,         \* the request SetLogoAPI handles
  first,         \* logo1path of GetBoards
  link,          \* link[b]: "away", "trying", "linked", "ready"
  at,            \* the card at the other end, NoCard when it is gone
  id,            \* cardUUID, NoCard while it is empty
  shown,         \* shown[b][p]: the data of path1 and path2
  pending,       \* the orders accepted and not carried out: tx_queue and the wire
  inbox,         \* what the card has told and the board not handled
  lights,        \* lights[c][path]
  firm,          \* history: the board found was ready then and has been since
  newest,        \* history: the latest of the plugin's commands accepted
  late,          \* history: the commands whose request timed out
  expected,      \* history: the logo last ordered of a card; NoLogo if that order
                 \*   may have been lost, or somebody else set the card
  presses, troubles

requestVars == <<asked, http, atServer, presses, late>>
lockVars == <<doing, turn, order, first, firm>>
linkVars == <<link, at, id>>
dataVars == <<shown, pending, inbox, lights>>
historyVars == <<newest, expected>>
playVars == <<senderVars, requestVars, lockVars, linkVars, dataVars, historyVars, troubles>>

NoLogo == 9
NoData == {0}                             \* the empty vector of a path nobody reported
NoRequest == [by |-> 0, to |-> NoCard, logo |-> 0]

PlayInit ==
  /\ SenderInit
  /\ asked = <<>> /\ http = "none" /\ atServer = {} /\ presses = 0 /\ late = {}
  /\ doing = "nothing" /\ turn = 1 /\ order = NoRequest /\ first = NoData /\ firm = FALSE
  /\ link = [b \in Boards |-> "away"] /\ at = [b \in Boards |-> NoCard]
  /\ id = [b \in Boards |-> NoCard] /\ shown = [b \in Boards |-> [p \in Paths |-> NoData]]
  /\ pending = [b \in Boards |-> <<>>] /\ inbox = [b \in Boards |-> <<>>]
  /\ lights = [c \in Cards |-> [p \in Paths |-> {}]]
  /\ newest = 0 /\ expected = [c \in Cards |-> NoLogo]
  /\ troubles = 0

Trouble == troubles < MaxTroubles /\ troubles' = troubles + 1

-----------------------------------------------------------------------------
(* The plugin and its requests.                                            *)

\* These steps leave veclock, the boards and the cards alone.
BeforeServer == UNCHANGED <<lockVars, linkVars, dataVars, historyVars>>

PluginStep ==
  /\ TakeUp \/ Drop \/ End
  /\ BeforeServer /\ UNCHANGED <<requestVars, troubles>>

\* The command's text names a logo (deserialize); one it cannot read is logo 0.
PluginExecute(l) ==
  /\ Give /\ asked' = Append(asked, l)
  /\ BeforeServer /\ UNCHANGED <<http, atServer, presses, late, troubles>>

\* ExecuteGet: the request reaches the server ...
PluginAsks(c) ==
  /\ sending # 0 /\ http = "none" /\ http' = "sent"
  /\ atServer' = atServer \cup {[by |-> sending, to |-> c, logo |-> asked[sending]]}
  /\ BeforeServer /\ UNCHANGED <<senderVars, asked, presses, late, troubles>>

\* Seeded fault: the answer is not waited for.
PluginGoesOn ==
  /\ http = "sent" /\ Sent /\ http' = "none"
  /\ BeforeServer /\ UNCHANGED <<asked, atServer, presses, late, troubles>>

\* ... and is answered,
PluginAnswered ==
  /\ http = "answered" /\ Sent /\ http' = "none"
  /\ BeforeServer /\ UNCHANGED <<asked, atServer, presses, late, troubles>>

\* or it fails, or there is no answer in 500 ms.
PluginGivesUp ==
  /\ http # "answered" /\ Sent /\ http' = "none" /\ Trouble
  /\ late' = IF http = "sent" THEN late \cup {sending} ELSE late
  /\ BeforeServer /\ UNCHANGED <<asked, atServer, presses>>

\* SetLogo of the page, for a board of its list.
PageAsks(l) ==
  /\ presses < MaxPresses /\ presses' = presses + 1
  /\ \E b \in Boards :
       /\ id[b] # NoCard
       /\ atServer' = atServer \cup {[by |-> MaxCommands + presses', to |-> id[b], logo |-> l]}
  /\ BeforeServer /\ UNCHANGED <<senderVars, asked, http, late, troubles>>

-----------------------------------------------------------------------------
(* SetLogoAPI.  The boards' threads go on between any two of these steps.  *)

IsPlugins(r) == r.by <= MaxCommands

Answers(r) == http' = IF http = "sent" /\ r.by = sending THEN "answered" ELSE http

Releases == doing' = "nothing" /\ turn' = 1 /\ order' = NoRequest /\ firm' = FALSE

\* What SetLogoAPI leaves alone before it pushes.
Looking == UNCHANGED <<senderVars, asked, presses, late, first, linkVars, dataVars,
                       historyVars, troubles>>

\* A logo there is not is refused before the lock is taken.
Refuses(r) ==
  /\ r \in atServer /\ r.logo > 2 /\ atServer' = atServer \ {r}
  /\ Answers(r)
  /\ Looking /\ UNCHANGED <<doing, turn, order, firm>>

TakesLock(r) ==
  /\ r \in atServer /\ r.logo <= 2 /\ atServer' = atServer \ {r}
  /\ doing = "nothing" /\ doing' = "look" /\ order' = r
  /\ Looking /\ UNCHANGED <<http, turn, firm>>

\* elm->Id() == brdId, under the board's own lock, which is free again at once.
Finds ==
  /\ doing = "look" /\ id[turn] = order.to
  /\ doing' = "push" /\ firm' = (link[turn] = "ready")
  /\ Looking /\ UNCHANGED <<http, atServer, turn, order>>

PassesOn ==
  /\ doing = "look" /\ turn < NBoards /\ id[turn] # order.to
  /\ turn' = turn + 1
  /\ Looking /\ UNCHANGED <<http, atServer, doing, order, firm>>

\* BoardNotFound.
NotFound ==
  /\ doing = "look" /\ turn = NBoards /\ id[turn] # order.to
  /\ Answers(order) /\ Releases
  /\ Looking /\ UNCHANGED atServer

\* SetLogos: the order is queued, whatever has become of the board since.
Pushes ==
  /\ doing = "push"
  /\ pending' = [pending EXCEPT ![turn] =
                   Append(@, [to |-> order.to, logo |-> order.logo, firm |-> firm])]
  /\ newest' = IF order.by > newest /\ IsPlugins(order) THEN order.by ELSE newest
  /\ expected' = [expected EXCEPT ![order.to] =
                    IF firm /\ at[turn] = order.to THEN order.logo ELSE NoLogo]
  /\ Answers(order) /\ Releases
  /\ UNCHANGED <<senderVars, asked, atServer, presses, late, first, linkVars, shown, inbox,
                 lights, troubles>>

-----------------------------------------------------------------------------
(* GetBoards, for the page's list and for its poll.                        *)

Reading == UNCHANGED <<senderVars, requestVars, order, firm, linkVars, dataVars,
                       historyVars, troubles>>

\* The first read of a list takes veclock; a board without an id is left out.
ReadsPath1(b) ==
  /\ doing = "nothing" \/ (doing = "list" /\ b >= turn)
  /\ id[b] # NoCard
  /\ doing' = "second" /\ turn' = b /\ first' = shown[b][1]
  /\ Reading

\* GetLogosStatus(2), for which the board's lock is taken a second time.
ReadsPath2 ==
  /\ doing = "second" /\ first' = NoData
  /\ IF turn = NBoards THEN doing' = "nothing" /\ turn' = 1
                       ELSE doing' = "list" /\ turn' = turn + 1
  /\ Reading

\* The boards that are left have no id.
Listed ==
  /\ doing = "list" /\ doing' = "nothing" /\ turn' = 1
  /\ Reading /\ UNCHANGED first

\* Seeded fault: the lights of the other half are not looked at.
InvalidIfBoth(p1, p2) == {1, 2} \subseteq p1 \/ {3, 4} \subseteq p2

\* invalid
Invalid(p1, p2) ==
  \/ {3, 4} \cap p1 # {} \/ {1, 2} \cap p2 # {}
  \/ {1, 2} \subseteq p1 \/ {3, 4} \subseteq p2
  \/ (1 \in p1) # (3 \in p2) \/ (2 \in p1) # (4 \in p2)

\* api.activeLogo; NoLogo stands for -1, which is all that is said of paths that do
\* not have four lights each.
ActiveLogo(p1, p2) ==
  LET logo1On == 1 \in p1 /\ 3 \in p2
      logo2On == 2 \in p1 /\ 4 \in p2
      valid == p1 \subseteq 1..4 /\ p2 \subseteq 1..4 /\ ~Invalid(p1, p2)
  IN  CASE valid /\ logo1On /\ ~logo2On -> 1
        [] valid /\ ~logo1On /\ logo2On -> 2
        [] valid /\ ~logo1On /\ ~logo2On -> 0
        [] OTHER -> NoLogo

-----------------------------------------------------------------------------
(* The boards' connections.                                                *)

Away == UNCHANGED <<senderVars, requestVars, doing, turn, order, first, newest>>

\* The cards that orders of a sequence name: what they show is uncertain when
\* these orders are lost.
Named(s) == {s[i].to : i \in DOMAIN s}

Uncertain(cards) ==
  expected' = [c \in Cards |-> IF c \in cards THEN NoLogo ELSE expected[c]]

Goes(b, from, to) == link[b] \in from /\ link' = [link EXCEPT ![b] = to]

\* Seeded fault: the queue is cleared when the object is made only.
KeepsQueue(b) ==
  /\ Goes(b, {"away"}, "trying")
  /\ Away /\ UNCHANGED <<at, id, dataVars, firm, expected, troubles>>

\* tx_queue.clear(), before each attempt.
ClearQueue(b) ==
  /\ Goes(b, {"away"}, "trying")
  /\ pending' = [pending EXCEPT ![b] = <<>>] /\ Uncertain(Named(pending[b]))
  /\ Away /\ UNCHANGED <<at, id, shown, inbox, lights, firm, troubles>>

ConnectFails(b) ==
  /\ Goes(b, {"trying"}, "away")
  /\ Away /\ UNCHANGED <<at, id, dataVars, firm, expected, troubles>>

\* A card has one address, but may be given the one another card had.
Connects(b, c) ==
  /\ Goes(b, {"trying"}, "linked")
  /\ \A d \in Boards : at[d] # c
  /\ at' = [at EXCEPT ![b] = c]
  /\ Away /\ UNCHANGED <<id, dataVars, firm, expected, troubles>>

\* The card is gone, and the board does not know it.
CardLeaves(b) ==
  /\ at[b] # NoCard /\ Trouble
  /\ at' = [at EXCEPT ![b] = NoCard]
  /\ Uncertain(Named(pending[b]))
  /\ Away /\ UNCHANGED <<link, id, dataVars, firm>>

\* The socket is CLOSED and given up.  The orders it had will be cleared away.
LosesCard(b) ==
  /\ Goes(b, {"linked", "ready"}, "away")
  /\ IF at[b] = NoCard THEN UNCHANGED troubles ELSE Trouble
  /\ at' = [at EXCEPT ![b] = NoCard]
  /\ inbox' = [inbox EXCEPT ![b] = <<>>]
  /\ firm' = (firm /\ turn # b)
  /\ Uncertain(Named(pending[b]))
  /\ Away /\ UNCHANGED <<id, shown, pending, lights>>

-----------------------------------------------------------------------------
(* What a board is told.  A message tells the values of some paths; a      *)
(* device info tells both.                                                 *)

Message(c, info, tells) == [from |-> c, info |-> info, tells |-> tells]

Told(b, m) == inbox' = [inbox EXCEPT ![b] = Append(@, m)]

\* The board asks once per answer, until the device info is complete.
CardTellsInfo(b, info) ==
  /\ link[b] = "linked" /\ at[b] # NoCard
  /\ \A i \in DOMAIN inbox[b] : inbox[b][i].info = "none"
  /\ Told(b, Message(at[b], info, lights[at[b]]))
  /\ IF info = "complete" THEN UNCHANGED troubles ELSE Trouble
  /\ Away /\ UNCHANGED <<linkVars, shown, pending, lights, firm, expected>>

\* While the board is not ready, ids of another card, or elements that are missing,
\* may bring a value to the wrong path or to none.
Mixes(b, m) ==
  \E s \in [Paths -> {shown[b][p] : p \in Paths} \cup {m.tells[p] : p \in DOMAIN m.tells}] :
    shown' = [shown EXCEPT ![b] = s]

\* Seeded fault: only the first of the values of a reply is looked at.
StoresFirst(b, m) ==
  shown' = [shown EXCEPT ![b] =
             [p \in Paths |-> IF p \in DOMAIN m.tells /\ (p = 1 \/ 1 \notin DOMAIN m.tells)
                                THEN m.tells[p] ELSE @[p]]]

Overrides(b, m) ==
  shown' = [shown EXCEPT ![b] =
             [p \in Paths |-> IF p \in DOMAIN m.tells THEN m.tells[p] ELSE @[p]]]

Handled(b) == link[b] \in {"linked", "ready"} /\ inbox[b] # <<>>
              /\ inbox' = [inbox EXCEPT ![b] = Tail(@)]

\* The uuid is stored before the elements are looked at, even if they do not
\* suffice; when they do, commands are sent from now on.
HandlesInfo(b) ==
  LET m == Head(inbox[b]) IN
  /\ Handled(b) /\ m.info # "none"
  /\ id' = [id EXCEPT ![b] = m.from]
  /\ \/ m.info = "complete" /\ Goes(b, {"linked"}, "ready") /\ Overrides(b, m)
     \/ m.info = "partial" /\ UNCHANGED link /\ Mixes(b, m)
  /\ Away /\ UNCHANGED <<at, pending, lights, firm, expected, troubles>>

\* setOids, updates, data_updates.
HandlesValues(b) ==
  LET m == Head(inbox[b]) IN
  /\ Handled(b) /\ m.info = "none"
  /\ IF link[b] = "ready" THEN Overrides(b, m) ELSE Mixes(b, m)
  /\ Away /\ UNCHANGED <<linkVars, pending, lights, firm, expected, troubles>>

-----------------------------------------------------------------------------
(* The orders and the cards.                                               *)

\* The one-hot vector commsFn makes of a logo number.
Hot(n) == IF n = 0 THEN {} ELSE {n}

\* Seeded fault: the second path is given the same number.
SameForBoth(l) == l

\* The number SetLogoAPI gives SetLogos for the second path.
Second(l) == IF l = 0 THEN 0 ELSE l + 2

\* What an order for logo l sets.
Ordered(l) == [p \in Paths |-> Hot(IF p = 1 THEN l ELSE Second(l))]

\* An order the card took whole, when it was the board's, makes its lights certain.
MakesCertain(b, r, S) == S = Paths /\ r.to = at[b] /\ r.firm

\* The card takes the order, or only the paths S of it, and tells what it took; a
\* path behind one in error is taken for refused (T).
Carries(b, S, T) ==
  LET r == Head(pending[b]) IN
  /\ link[b] = "ready" /\ at[b] # NoCard /\ pending[b] # <<>>
  /\ T = S \/ (T = {} /\ S = {2})
  /\ pending' = [pending EXCEPT ![b] = Tail(@)]
  /\ lights' = [lights EXCEPT ![at[b]] =
                  [p \in Paths |-> IF p \in S THEN Ordered(r.logo)[p] ELSE @[p]]]
  /\ Told(b, Message(at[b], "none", [p \in T |-> Ordered(r.logo)[p]]))
  /\ IF S = Paths THEN UNCHANGED troubles ELSE Trouble
  /\ Uncertain(IF MakesCertain(b, r, S) THEN {} ELSE {r.to, at[b]} \ Named(Tail(pending[b])))
  /\ Away /\ UNCHANGED <<linkVars, shown, firm>>

\* sendData on a socket that is CLOSING, or an order lost on the wire.
LosesOrder(b) ==
  /\ pending[b] # <<>> /\ link[b] = "ready" /\ Trouble
  /\ pending' = [pending EXCEPT ![b] = Tail(@)]
  /\ Uncertain({Head(pending[b]).to} \ Named(Tail(pending[b])))
  /\ Away /\ UNCHANGED <<linkVars, shown, inbox, lights, firm>>

\* The card tells the board that is connected.
SomebodyElse(c, p, v) ==
  /\ Trouble
  /\ lights' = [lights EXCEPT ![c][p] = v]
  /\ inbox' = [b \in Boards |-> IF at[b] = c
                 THEN Append(inbox[b], Message(c, "none", [q \in {p} |-> v])) ELSE inbox[b]]
  /\ Uncertain({c})
  /\ Away /\ UNCHANGED <<linkVars, shown, pending, firm>>

-----------------------------------------------------------------------------
Requests ==
  \/ \E l \in Logos : PluginExecute(l)
  \/ \E c \in Targets : PluginAsks(c)
  \/ PluginAnswered \/ PluginGivesUp
  \/ \E l \in Buttons : PageAsks(l)

SetLogoAPI ==
  \/ \E r \in atServer : Refuses(r) \/ TakesLock(r)
  \/ Finds \/ PassesOn \/ NotFound \/ Pushes

GetBoards == (\E b \in Boards : ReadsPath1(b)) \/ ReadsPath2 \/ Listed

BoardSteps ==
  \E b \in Boards :
    \/ ClearQueue(b) \/ ConnectFails(b) \/ CardLeaves(b) \/ LosesCard(b)
    \/ \E c \in Cards : Connects(b, c)
    \/ \E info \in {"complete", "partial"} : CardTellsInfo(b, info)
    \/ HandlesInfo(b) \/ HandlesValues(b) \/ LosesOrder(b)
    \/ \E S, T \in SUBSET Paths : Carries(b, S, T)

OtherClients == \E c \in Cards, p \in Paths, v \in Vectors : SomebodyElse(c, p, v)

PlayNext == PluginStep \/ Requests \/ SetLogoAPI \/ GetBoards \/ BoardSteps \/ OtherClients

PlaySpec == PlayInit /\ [][PlayNext]_playVars

-----------------------------------------------------------------------------
(* Properties.                                                             *)

\* The orders of the plugin are accepted in the order of its commands, and none
\* after Done or the last Release.  Only one whose request timed out may come late:
\* the server still has it, or waits for veclock with it.
InCommandOrder ==
  [][Pushes /\ IsPlugins(order) =>
       (order.by > newest /\ ~ended) \/ order.by \in late]_playVars

\* An order is carried out by the card it names or by none, although addresses move
\* and boards go on answering for the last card they knew: unless the board was not
\* ready when SetLogoAPI compared its id, or lost its connection between that and
\* the push.  Such an order may meet the next card, whose id nobody compared.
RightCard ==
  [][\A b \in Boards, S, T \in SUBSET Paths :
       Carries(b, S, T) /\ Head(pending[b]).firm => Head(pending[b]).to = at[b]]_playVars

\* Nothing is on its way between this board and its card, whose lights are known.
Settled(b) ==
  /\ link[b] = "ready" /\ at[b] # NoCard /\ pending[b] = <<>> /\ inbox[b] = <<>>
  /\ expected[at[b]] # NoLogo

\* The list names, for a board that is settled when its second path is read, the
\* logo last ordered of its card, by whomever and whatever came before.  If path 1
\* changed between the two reads it may say -1 instead, but never another logo.
LastOrderListed ==
  [][ReadsPath2 /\ Settled(turn) =>
       \/ ActiveLogo(first, shown[turn][2]) = expected[at[turn]]
       \/ ActiveLogo(first, shown[turn][2]) = NoLogo /\ first # shown[turn][1]]_playVars

\* The list names a logo exactly when the card's lights are those an order for
\* this logo sets, whoever set them.
ActiveLogoTrue ==
  \A c \in Cards, l \in 0..2 :
    ActiveLogo(lights[c][1], lights[c][2]) = l <=> lights[c] = Ordered(l)

=============================================================================
