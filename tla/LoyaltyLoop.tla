---------------------------- MODULE LoyaltyLoop ----------------------------
(***************************************************************************)
(* The points loop of the loyalty manager and what a change of its         *)
(* configuration does to it.  Manager.update runs in a callback for every  *)
(* configuration that is written.  It hands a token to the running loop    *)
(* over an unbuffered channel, which ends the loop, then takes the chat    *)
(* commands off the bot, puts them back and starts a loop that reads the   *)
(* new configuration.  The loop wakes up every interval, asks Twitch for   *)
(* the viewers and gives points to those who are not on the ban list.      *)
(***************************************************************************)
EXTENDS Integers, Sequences

CONSTANTS
  Users,
  Banned,   \* Config.BanList, the same in every configuration here
  Configs,  \* configurations a client may write
  Active,   \* those with Enabled and Points.Interval > 0
  Updates,  \* callbacks that may run Manager.update at the same time
  Loops,    \* points loops that may exist at the same time
  None,
  Limits    \* bounds on what the rest of the world does

Budgets == {"write", "round", "bot", "close"}

ASSUME LoopAssumption ==
  /\ Banned \subseteq Users /\ Active \subseteq Configs
  /\ None \notin Configs /\ Limits \in [Budgets -> Nat]

VARIABLES
  stored,   \* ConfigKey in the database
  pushes,   \* writes of ConfigKey that have not reached Manager.update
  config,   \* Manager.Config
  banlist,  \* Manager.banlist
  update,   \* where each callback is
  loop,     \* for each points loop: where it is, its copy of the config,
            \* the viewers it is about to give points to, and those of them
            \* who get the bonus for active chatters
  bot,      \* the Twitch bot: whether there is one, whether it has the
            \* loyalty commands, how often OnMessage lists the manager
  active,   \* Manager.activeUsers
  wrote,    \* history: who wrote in chat since viewers were last picked
  live,     \* Client.IsLive()
  closed,   \* Manager.ctx is cancelled and the subscription gone
  budget

vars == <<stored, pushes, config, banlist, update, loop, bot, active, wrote,
          live, closed, budget>>
conf == <<stored, pushes, config, banlist>>
chat == <<active, wrote>>
world == <<bot, chat, live, closed, budget>>

NoLoop == [at |-> "ended", config |-> None, give |-> {}, bonus |-> {}]

\* NewManager: load the configuration, then SetupTwitch.
Init ==
  /\ stored \in Configs /\ config = stored /\ pushes = <<>>
  /\ banlist = Banned
  /\ update = [p \in Updates |-> "idle"]
  /\ bot \in {[up |-> TRUE, commands |-> TRUE, listed |-> 1],
              [up |-> FALSE, commands |-> FALSE, listed |-> 0]}
  /\ \/ ~bot.up /\ loop = [l \in Loops |-> NoLoop]
     \/ bot.up /\ \E first \in Loops :
          loop = [[l \in Loops |-> NoLoop] EXCEPT ![first].at = "spawned"]
  /\ active = {} /\ wrote = {} /\ live \in BOOLEAN /\ closed = FALSE
  /\ budget = Limits

Spend(b) == budget[b] > 0 /\ budget' = [budget EXCEPT ![b] = @ - 1]

-----------------------------------------------------------------------------
(* Manager.update on ConfigKey.                                            *)

Resume(p, from, to) ==
  update[p] = from /\ update' = [update EXCEPT ![p] = to]

\* Fault: no restart if the loyalty system stays enabled.
LoadKeepingLoop(p) ==
  /\ pushes # <<>> /\ ~closed
  /\ Resume(p, "idle", IF {config, Head(pushes)} \subseteq Active
                       THEN "idle" ELSE "clear")
  /\ config' = Head(pushes) /\ pushes' = Tail(pushes)
  /\ UNCHANGED <<stored, banlist, loop, world>>

LoadConfig(p) ==
  /\ Resume(p, "idle", "clear")
  /\ pushes # <<>> /\ ~closed
  /\ config' = Head(pushes) /\ pushes' = Tail(pushes)
  /\ UNCHANGED <<stored, banlist, loop, world>>

\* SetBanList: an empty map first, then the names.
ClearBanList(p) ==
  /\ Resume(p, "clear", "fill")
  /\ banlist' = {}
  /\ UNCHANGED <<stored, pushes, config, loop, world>>

\* Fault: the loop is only told of configurations it can run with.
FillIfActive(p) ==
  /\ Resume(p, "fill", IF config \in Active THEN "handoff" ELSE "idle")
  /\ banlist' = Banned
  /\ UNCHANGED <<stored, pushes, config, loop, world>>

FillBanList(p) ==
  /\ Resume(p, "fill", "handoff")
  /\ banlist' = Banned
  /\ UNCHANGED <<stored, pushes, config, loop, world>>

\* Fault: the token is dropped if nobody waits for it.
TryHandoff(p, l) ==
  /\ Resume(p, "handoff", "stop")
  /\ loop' = IF loop[l].at = "waiting" THEN [loop EXCEPT ![l] = NoLoop] ELSE loop
  /\ UNCHANGED <<conf, world>>

\* m.restartTwitchHandler <- struct{}{}: both sides meet, or neither moves.
Handoff(p, l) ==
  /\ Resume(p, "handoff", "stop")
  /\ loop[l].at = "waiting"
  /\ loop' = [loop EXCEPT ![l] = NoLoop]
  /\ UNCHANGED <<conf, world>>

\* Fault: the commands are removed, the message handler is not.
StopCommands(p) ==
  /\ Resume(p, "stop", "setup")
  /\ bot' = [bot EXCEPT !.commands = FALSE]
  /\ UNCHANGED <<conf, loop, chat, live, closed, budget>>

\* Fault: an entry is removed without looking whether there is one.
StopUnchecked(p) ==
  /\ Resume(p, "stop", "setup")
  /\ bot' = [bot EXCEPT !.commands = FALSE, !.listed = @ - 1]
  /\ UNCHANGED <<conf, loop, chat, live, closed, budget>>

\* OnMessage.Remove takes off one entry, if there is one.
StopTwitch(p) ==
  /\ Resume(p, "stop", "setup")
  /\ bot' = [bot EXCEPT !.commands = FALSE,
                        !.listed = IF @ > 0 THEN @ - 1 ELSE 0]
  /\ UNCHANGED <<conf, loop, chat, live, closed, budget>>

\* Without a bot SetupTwitch returns before it starts a loop.
SetupTwitch(p) ==
  /\ \/ bot.up /\ Resume(p, "setup", "spawn")
        /\ bot' = [bot EXCEPT !.commands = TRUE, !.listed = @ + 1]
     \/ ~bot.up /\ Resume(p, "setup", "idle") /\ UNCHANGED bot
  /\ UNCHANGED <<conf, loop, chat, live, closed, budget>>

SpawnLoop(p, l) ==
  /\ Resume(p, "spawn", "idle")
  /\ loop[l].at = "ended"
  /\ loop' = [loop EXCEPT ![l].at = "spawned"]
  /\ UNCHANGED <<conf, world>>

Update(p) ==
  \/ LoadConfig(p) \/ ClearBanList(p) \/ FillBanList(p)
  \/ StopTwitch(p) \/ SetupTwitch(p)
  \/ \E l \in Loops : Handoff(p, l) \/ SpawnLoop(p, l)

-----------------------------------------------------------------------------
(* The points loop.                                                        *)

LoopStep(l, from, next) ==
  loop[l].at = from /\ loop' = [loop EXCEPT ![l] = next]
Moved(l, to) == [loop[l] EXCEPT !.at = to]

\* It returns at once if the loyalty system is off.
ReadConfig(l) ==
  /\ LoopStep(l, "spawned",
       IF config \in Active THEN [NoLoop EXCEPT !.at = "waiting",
                                               !.config = config]
                            ELSE NoLoop)
  /\ UNCHANGED <<conf, update, world>>

\* Fault: the context is only looked at while the stream is online.
CancelledWhenLive(l) ==
  /\ closed /\ live
  /\ LoopStep(l, "waiting", NoLoop)
  /\ UNCHANGED <<conf, update, world>>

Cancelled(l) ==
  /\ closed
  /\ LoopStep(l, "waiting", NoLoop)
  /\ UNCHANGED <<conf, update, world>>

\* The timer of the select fires and the stream is online.
Tick(l) ==
  /\ live /\ Spend("round")
  /\ LoopStep(l, "waiting", Moved(l, "asking"))
  /\ UNCHANGED <<conf, update, bot, chat, live, closed>>

\* Any error of the Twitch API ends the loop for good.
AskFails(l) ==
  /\ LoopStep(l, "asking", NoLoop)
  /\ UNCHANGED <<conf, update, world>>

\* The viewers Twitch names, without those the ban list holds at that moment.
PickViewers(l) ==
  /\ \E viewers \in SUBSET Users :
       LoopStep(l, "asking", [Moved(l, "giving") EXCEPT
                               !.give = viewers \ banlist,
                               !.bonus = (viewers \ banlist) \cap active])
  /\ wrote' = {}
  /\ UNCHANGED <<conf, update, bot, active, live, closed, budget>>

\* Fault: no ResetActivity.
GiveWithoutReset(l) ==
  /\ LoopStep(l, "giving", [Moved(l, "waiting") EXCEPT !.give = {},
                                                      !.bonus = {}])
  /\ UNCHANGED <<conf, update, bot, active, wrote, live, closed, budget>>

\* ResetActivity and GivePoints.
GivePoints(l) ==
  /\ LoopStep(l, "giving", [Moved(l, "waiting") EXCEPT !.give = {},
                                                      !.bonus = {}])
  /\ active' = {}
  /\ UNCHANGED <<conf, update, bot, wrote, live, closed, budget>>

RunLoop(l) ==
  \/ ReadConfig(l) \/ Cancelled(l) \/ Tick(l) \/ AskFails(l)
  \/ PickViewers(l) \/ GivePoints(l)

-----------------------------------------------------------------------------
(* The rest of the world.                                                  *)

ClientWrites(c) ==
  /\ Spend("write")
  /\ stored' = c
  /\ pushes' = IF closed THEN pushes ELSE Append(pushes, c)
  /\ UNCHANGED <<config, banlist, update, loop, bot, chat, live, closed>>

\* HandleBotMessage, once for every time OnMessage lists the manager.
ChatMessage(u) ==
  /\ bot.up /\ bot.listed > 0
  /\ active' = active \cup {u} /\ wrote' = wrote \cup {u}
  /\ UNCHANGED <<conf, update, loop, bot, live, closed, budget>>

StreamChanges ==
  /\ live' = ~live
  /\ UNCHANGED <<conf, update, loop, bot, chat, closed, budget>>

\* The Twitch manager replaces its bot by a new one or by none; the new bot
\* takes over neither commands nor listeners.
BotReplaced ==
  /\ Spend("bot")
  /\ \E up \in BOOLEAN : bot' = [up |-> up, commands |-> FALSE, listed |-> 0]
  /\ UNCHANGED <<conf, update, loop, chat, live, closed>>

\* Close: unsubscribe, cancel, StopTwitch.
Close ==
  /\ ~closed /\ Spend("close")
  /\ closed' = TRUE
  /\ pushes' = <<>>
  /\ bot' = [bot EXCEPT !.commands = FALSE,
                        !.listed = IF @ > 0 THEN @ - 1 ELSE 0]
  /\ UNCHANGED <<stored, config, banlist, update, loop, chat, live>>

Next ==
  \/ \E p \in Updates : Update(p)
  \/ \E l \in Loops : RunLoop(l)
  \/ \E c \in Configs : ClientWrites(c)
  \/ \E u \in Users : ChatMessage(u)
  \/ StreamChanges \/ BotReplaced \/ Close

Spec == Init /\ [][Next]_vars

\* Goroutines that can run do, and the requests for the chatters return, with
\* them or with an error; a rendezvous that stays possible on and off between
\* two rounds happens; a cancelled select notices it.
Fairness ==
  /\ \A p \in Updates :
       /\ WF_vars(Update(p))
       /\ SF_vars(\E l \in Loops : Handoff(p, l))
  /\ \A l \in Loops :
       /\ WF_vars(ReadConfig(l) \/ AskFails(l) \/ PickViewers(l)
                   \/ GivePoints(l))
       /\ SF_vars(Cancelled(l))
FairSpec == Spec /\ Fairness

-----------------------------------------------------------------------------
(* Properties.                                                             *)

LoopStates == {"ended", "spawned", "waiting", "asking", "giving"}
UpdateStates == {"idle", "clear", "fill", "handoff", "stop", "setup", "spawn"}

\* What each variable holds.
TypeOK ==
  /\ stored \in Configs /\ config \in Configs
  /\ pushes \in Seq(Configs)
  /\ banlist \subseteq Users
  /\ update \in [Updates -> UpdateStates]
  /\ loop \in [Loops -> [at : LoopStates, config : Configs \cup {None},
                         give : SUBSET Users, bonus : SUBSET Users]]
  /\ bot \in [up : BOOLEAN, commands : BOOLEAN, listed : Nat]
  /\ active \subseteq Users /\ wrote \subseteq Users
  /\ live \in BOOLEAN /\ closed \in BOOLEAN
  /\ budget \in [Budgets -> Nat]

Running(l) == loop[l].at # "ended"

\* A callback that has ended a loop and may start another one.
Owns(p) == update[p] \in {"stop", "setup", "spawn"}

\* However configuration writes, callbacks and rounds interleave, points are
\* never handed out by two loops at a time: a callback only starts a loop
\* after it has ended one, so the channel works as a lock.
OneLoop ==
  /\ \A l, m \in Loops : Running(l) /\ Running(m) => l = m
  /\ \A p, q \in Updates : Owns(p) /\ Owns(q) => p = q
  /\ \A p \in Updates, l \in Loops : ~(Owns(p) /\ Running(l))

\* For the same reason the bot never calls the manager twice for a message,
\* although OnMessage.Add does not look for an entry that is there already,
\* and although bots come and go between a callback's StopTwitch and its
\* SetupTwitch.
ListedOnce == bot.listed <= 1

\* A viewer gets the bonus only for a message written since the last round:
\* ResetActivity empties the record, and no second loop reads it meanwhile.
BonusEarned ==
  [][\A l \in Loops :
       loop[l].at = "asking" /\ loop'[l].at = "giving"
         => loop'[l].bonus \subseteq wrote]_vars

\* A loop that waits with no callback under way works with the configuration
\* that the manager loaded last: a loop with an older copy is ended by the
\* callback of the newer one.
LoopIsCurrent ==
  \A l \in Loops :
    (loop[l].at = "waiting" /\ \A p \in Updates : update[p] = "idle")
      => loop[l].config = config

\* No loop runs and no callback will start one.
Stranded ==
  /\ \A l \in Loops : ~Running(l)
  /\ \A p \in Updates : ~Owns(p)

Applied ==
  IF stored \in Active
  THEN \E l \in Loops : Running(l) /\ loop[l].config = stored
  ELSE \A l \in Loops : ~Running(l)

\* While there is a loop, every configuration change reaches it in the end:
\* callbacks that wait for the loop get their turn, whatever it is doing.
ReloadsOrStranded == <>[](Applied \/ Stranded \/ closed)

\* CHANGELOG.md:159, "Many parts of the app should now react to configuration
\* changes without requiring a full application restart": once the last
\* configuration is written, the loop runs with it, if the bot is there.
ConfigApplied == []bot.up => <>[](Applied \/ closed)

\* After Close every loop ends, including one that a callback starts late.
LoopsEndAfterClose == closed ~> \A l \in Loops : ~Running(l)

\* loyalty/data.go:15, "Usernames to exclude from currency distribution".
BannedGetNothing == \A l \in Loops : loop[l].give \cap Banned = {}
=============================================================================
