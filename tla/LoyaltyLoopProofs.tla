------------------------- MODULE LoyaltyLoopProofs -------------------------
(***************************************************************************)
(* The unbuffered channel restartTwitchHandler works as a lock on the      *)
(* points loop: for any number of callbacks and configurations there is    *)
(* never a second loop, and the bot never lists the manager twice.         *)
(***************************************************************************)
EXTENDS LoyaltyLoop, TLAPS

LoopRecord == [at : LoopStates, config : Configs \cup {None},
               give : SUBSET Users, bonus : SUBSET Users]

\* ListedOnce alone is not inductive: only the callback between StopTwitch
\* and SetupTwitch may add the manager, and then it is not there.
Unlisted == \A p \in Updates : update[p] = "setup" => bot.listed = 0
Inv == TypeOK /\ OneLoop /\ ListedOnce /\ Unlisted

LEMMA NoLoopTyped == NoLoop \in LoopRecord
BY DEF NoLoop, LoopRecord, LoopStates

LEMMA InitInv == Init => Inv
<1> SUFFICES ASSUME Init PROVE Inv
  OBVIOUS
<1>1. \A p \in Updates : update[p] = "idle"
  BY DEF Init
<1>2. PICK l \in Loops \cup {None} :
        \A m \in Loops : loop[m] = IF m = l /\ bot.up
                                   THEN [NoLoop EXCEPT !.at = "spawned"]
                                   ELSE NoLoop
  <2>1. CASE ~bot.up
    BY <2>1 DEF Init
  <2>2. CASE bot.up
    <3>1. PICK first \in Loops :
            loop = [[m \in Loops |-> NoLoop] EXCEPT ![first].at = "spawned"]
      BY <2>2 DEF Init
    <3> QED BY <2>2, <3>1
  <2> QED BY <2>1, <2>2
<1>3. loop \in [Loops -> LoopRecord]
  <2>1. [NoLoop EXCEPT !.at = "spawned"] \in LoopRecord
    BY DEF NoLoop, LoopRecord, LoopStates
  <2>2. CASE ~bot.up
    BY <2>2, NoLoopTyped DEF Init
  <2>3. ASSUME NEW first \in Loops,
               loop = [[m \in Loops |-> NoLoop] EXCEPT
                        ![first] = [NoLoop EXCEPT !.at = "spawned"]]
        PROVE  loop \in [Loops -> LoopRecord]
    BY <2>1, <2>3, NoLoopTyped
  <2> QED BY <2>2, <2>3 DEF Init
<1>4. TypeOK
  <2>1. bot \in [up : BOOLEAN, commands : BOOLEAN, listed : Nat]
    <3>1. bot \in {[up |-> TRUE, commands |-> TRUE, listed |-> 1],
                   [up |-> FALSE, commands |-> FALSE, listed |-> 0]}
      BY DEF Init
    <3>2. CASE bot = [up |-> TRUE, commands |-> TRUE, listed |-> 1]
      BY <3>2
    <3>3. CASE bot = [up |-> FALSE, commands |-> FALSE, listed |-> 0]
      BY <3>3
    <3> QED BY <3>1, <3>2, <3>3
  <2>2. banlist \subseteq Users /\ budget \in [Budgets -> Nat]
    BY LoopAssumption DEF Init
  <2>3. update \in [Updates -> UpdateStates]
    BY DEF Init, UpdateStates
  <2>4. pushes \in Seq(Configs) /\ stored \in Configs /\ config \in Configs
    BY DEF Init
  <2> QED BY <1>3, <2>1, <2>2, <2>3, <2>4 DEF Init, TypeOK, LoopRecord
<1>5. OneLoop
  <2>1. \A m \in Loops : Running(m) => m = l
    BY <1>2 DEF Running, NoLoop
  <2> QED BY <1>1, <2>1 DEF OneLoop, Owns
<1>6. ListedOnce /\ Unlisted
  BY <1>1 DEF Init, ListedOnce, Unlisted
<1> QED BY <1>4, <1>5, <1>6 DEF Inv

-----------------------------------------------------------------------------
(* What the actions do to one callback, one loop and the bot.              *)

LEMMA ResumeTyped ==
  ASSUME Inv, NEW p \in Updates, NEW from, NEW to \in UpdateStates,
         Resume(p, from, to)
  PROVE  /\ update' \in [Updates -> UpdateStates]
         /\ update[p] = from /\ update'[p] = to
         /\ \A q \in Updates \ {p} : update'[q] = update[q]
BY DEF Inv, TypeOK, Resume

LEMMA LoopTyped ==
  ASSUME Inv, NEW l \in Loops, NEW r \in LoopRecord,
         loop' = [loop EXCEPT ![l] = r]
  PROVE  /\ loop' \in [Loops -> LoopRecord] /\ loop'[l] = r
         /\ \A m \in Loops \ {l} : loop'[m] = loop[m]
BY DEF Inv, TypeOK, LoopRecord

BotRecord == [up : BOOLEAN, commands : BOOLEAN, listed : Nat]

LEMMA BotTyped ==
  ASSUME NEW b \in BotRecord, NEW c \in BOOLEAN, NEW n \in Nat
  PROVE  /\ [b EXCEPT !.commands = c, !.listed = n] \in BotRecord
         /\ [b EXCEPT !.commands = c, !.listed = n].listed = n
BY DEF BotRecord

Unlist(b) == [b EXCEPT !.commands = FALSE,
                       !.listed = IF @ > 0 THEN @ - 1 ELSE 0]

LEMMA UnlistTyped ==
  ASSUME Inv, bot' = Unlist(bot)
  PROVE  bot' \in BotRecord /\ bot'.listed = 0
<1> DEFINE n == IF bot.listed > 0 THEN bot.listed - 1 ELSE 0
<1>1. bot \in BotRecord
  BY DEF Inv, TypeOK, BotRecord
<1>2. bot' = [bot EXCEPT !.commands = FALSE, !.listed = n]
  BY DEF Unlist
<1>3. n = 0
  <2>1. bot.listed \in Nat /\ bot.listed <= 1
    BY <1>1 DEF BotRecord, Inv, ListedOnce
  <2> QED BY <2>1
<1> HIDE DEF n
<1> QED BY <1>1, <1>2, <1>3, BotTyped

\* An action that starts no loop and makes no callback an owner.
LEMMA FewerLoops ==
  ASSUME Inv, \A l \in Loops : Running(l)' => Running(l),
         \A p \in Updates : Owns(p)' => Owns(p)
  PROVE  OneLoop'
BY DEF Inv, OneLoop

-----------------------------------------------------------------------------
(* The actions.                                                            *)

LEMMA ReloadInv ==
  ASSUME Inv, NEW p \in Updates,
         LoadConfig(p) \/ ClearBanList(p) \/ FillBanList(p)
  PROVE  Inv'
<1>1. PICK from \in {"idle", "clear", "fill"}, to \in {"clear", "fill", "handoff"} :
        Resume(p, from, to)
  BY DEF LoadConfig, ClearBanList, FillBanList
<1>2. /\ update' \in [Updates -> UpdateStates] /\ update'[p] = to
      /\ \A q \in Updates \ {p} : update'[q] = update[q]
  BY <1>1, ResumeTyped DEF UpdateStates
<1>3. UNCHANGED <<loop, stored, bot, active, wrote, live, closed, budget>>
  BY DEF LoadConfig, ClearBanList, FillBanList, world, chat
<1>4. config' \in Configs /\ pushes' \in Seq(Configs) /\ banlist' \subseteq Users
  <2>1. CASE LoadConfig(p)
    <3>1. pushes \in Seq(Configs) /\ pushes # <<>>
      BY <2>1 DEF LoadConfig, Inv, TypeOK
    <3>2. Head(pushes) \in Configs /\ Tail(pushes) \in Seq(Configs)
      BY <3>1
    <3> QED BY <2>1, <3>2 DEF LoadConfig, Inv, TypeOK
  <2>2. CASE ClearBanList(p) \/ FillBanList(p)
    BY <2>2, LoopAssumption DEF ClearBanList, FillBanList, Inv, TypeOK
  <2> QED BY <2>1, <2>2
<1>5. TypeOK'
  BY <1>2, <1>3, <1>4 DEF Inv, TypeOK
<1>6. OneLoop'
  BY <1>2, <1>3, FewerLoops DEF Running, Owns
<1>7. ListedOnce' /\ Unlisted'
  BY <1>2, <1>3 DEF Inv, ListedOnce, Unlisted
<1> QED BY <1>5, <1>6, <1>7 DEF Inv

LEMMA HandoffInv ==
  ASSUME Inv, NEW p \in Updates, NEW l \in Loops, Handoff(p, l)
  PROVE  Inv'
<1>1. /\ update' \in [Updates -> UpdateStates] /\ update'[p] = "stop"
      /\ \A q \in Updates \ {p} : update'[q] = update[q]
  BY ResumeTyped DEF Handoff, UpdateStates
<1>2. /\ loop' \in [Loops -> LoopRecord] /\ loop'[l] = NoLoop
      /\ \A m \in Loops \ {l} : loop'[m] = loop[m]
  BY LoopTyped, NoLoopTyped DEF Handoff
<1>3. TypeOK'
  BY <1>1, <1>2 DEF Handoff, conf, world, chat, Inv, TypeOK, LoopRecord
<1>4. Running(l)
  BY DEF Handoff, Running
<1>5. /\ \A m \in Loops : ~Running(m)'
      /\ \A q \in Updates \ {p} : ~Owns(q)'
  BY <1>1, <1>2, <1>4 DEF Inv, OneLoop, Running, Owns, NoLoop
<1>6. OneLoop'
  BY <1>5 DEF OneLoop
<1>7. ListedOnce' /\ Unlisted'
  BY <1>1 DEF Handoff, world, Inv, ListedOnce, Unlisted
<1> QED BY <1>3, <1>6, <1>7 DEF Inv

LEMMA StopTwitchInv ==
  ASSUME Inv, NEW p \in Updates, StopTwitch(p)
  PROVE  Inv'
<1>1. /\ update' \in [Updates -> UpdateStates]
      /\ update[p] = "stop" /\ update'[p] = "setup"
      /\ \A q \in Updates \ {p} : update'[q] = update[q]
  BY ResumeTyped DEF StopTwitch, UpdateStates
<1>2. bot' \in BotRecord /\ bot'.listed = 0
  BY UnlistTyped DEF StopTwitch, Unlist
<1>3. TypeOK'
  BY <1>1, <1>2 DEF StopTwitch, conf, chat, Inv, TypeOK, BotRecord
<1>4. OneLoop'
  BY <1>1, FewerLoops DEF StopTwitch, Running, Owns
<1> QED BY <1>2, <1>3, <1>4 DEF Inv, ListedOnce, Unlisted

LEMMA SetupTwitchInv ==
  ASSUME Inv, NEW p \in Updates, SetupTwitch(p)
  PROVE  Inv'
<1>1. PICK to \in {"spawn", "idle"} : Resume(p, "setup", to)
  BY DEF SetupTwitch
<1>2. /\ update' \in [Updates -> UpdateStates]
      /\ update[p] = "setup" /\ update'[p] = to
      /\ \A q \in Updates \ {p} : update'[q] = update[q]
  BY <1>1, ResumeTyped DEF UpdateStates
<1>3. bot.listed = 0 /\ Owns(p)
  BY <1>2 DEF Inv, Unlisted, Owns
<1>4. bot \in BotRecord
  BY DEF Inv, TypeOK, BotRecord
<1> DEFINE n == bot.listed + 1
<1>5. bot' = bot \/ bot' = [bot EXCEPT !.commands = TRUE, !.listed = n]
  BY DEF SetupTwitch
<1>n. n = 1
  BY <1>3
<1> HIDE DEF n
<1>6. bot' \in BotRecord /\ bot'.listed <= 1
  <2>1. CASE bot' = bot
    BY <1>3, <1>4, <2>1
  <2>2. CASE bot' = [bot EXCEPT !.commands = TRUE, !.listed = n]
    <3>1. n \in Nat /\ TRUE \in BOOLEAN
      BY <1>n
    <3>2. bot' \in BotRecord /\ bot'.listed = n
      BY <1>4, <2>2, <3>1, BotTyped, Zenon
    <3> QED BY <1>n, <3>2
  <2> QED BY <1>5, <2>1, <2>2
<1>7. TypeOK'
  BY <1>2, <1>6 DEF SetupTwitch, conf, chat, Inv, TypeOK, BotRecord
<1>8. OneLoop'
  BY <1>2, FewerLoops DEF SetupTwitch, Running, Owns
<1>9. Unlisted'
  BY <1>2, <1>3 DEF Inv, OneLoop, Owns, Unlisted
<1> QED BY <1>6, <1>7, <1>8, <1>9 DEF Inv, ListedOnce

LEMMA SpawnLoopInv ==
  ASSUME Inv, NEW p \in Updates, NEW l \in Loops, SpawnLoop(p, l)
  PROVE  Inv'
<1>1. /\ update' \in [Updates -> UpdateStates]
      /\ update[p] = "spawn" /\ update'[p] = "idle"
      /\ \A q \in Updates \ {p} : update'[q] = update[q]
  BY ResumeTyped DEF SpawnLoop, UpdateStates
<1>2. loop[l] \in LoopRecord /\ "spawned" \in LoopStates
  BY DEF Inv, TypeOK, LoopRecord, LoopStates
<1>3. [loop[l] EXCEPT !.at = "spawned"] \in LoopRecord
  BY <1>2 DEF LoopRecord
<1>4. loop' = [loop EXCEPT ![l] = [loop[l] EXCEPT !.at = "spawned"]]
  BY DEF SpawnLoop, Inv, TypeOK
<1>5. /\ loop' \in [Loops -> LoopRecord]
      /\ \A m \in Loops \ {l} : loop'[m] = loop[m]
  BY <1>3, <1>4, LoopTyped
<1>6. TypeOK'
  BY <1>1, <1>5 DEF SpawnLoop, conf, world, chat, Inv, TypeOK, LoopRecord
<1>7. /\ \A q \in Updates : ~Owns(q)'
      /\ \A m \in Loops \ {l} : ~Running(m)'
  BY <1>1, <1>5 DEF Inv, OneLoop, Owns, Running
<1>8. OneLoop'
  BY <1>7 DEF OneLoop
<1>9. ListedOnce' /\ Unlisted'
  BY <1>1 DEF SpawnLoop, world, Inv, ListedOnce, Unlisted
<1> QED BY <1>6, <1>8, <1>9 DEF Inv

\* A running loop goes on or ends.
LEMMA LoopStepInv ==
  ASSUME Inv, NEW l \in Loops, NEW from \in LoopStates \ {"ended"},
         NEW next \in LoopRecord, LoopStep(l, from, next),
         UNCHANGED <<conf, update, bot, live, closed>>,
         active' \subseteq Users, wrote' \subseteq Users,
         budget' \in [Budgets -> Nat]
  PROVE  Inv'
<1>1. /\ loop' \in [Loops -> LoopRecord]
      /\ \A m \in Loops \ {l} : loop'[m] = loop[m]
  BY LoopTyped DEF LoopStep
<1>2. TypeOK'
  BY <1>1 DEF conf, Inv, TypeOK, LoopRecord
<1>3. Running(l) /\ \A m \in Loops \ {l} : Running(m)' => Running(m)
  BY <1>1 DEF LoopStep, Running
<1>4. OneLoop'
  BY <1>3, FewerLoops DEF Owns
<1> QED BY <1>2, <1>4 DEF Inv, ListedOnce, Unlisted

LEMMA SpendTyped ==
  ASSUME Inv, NEW b \in {"write", "round", "bot", "close"}, Spend(b)
  PROVE  budget' \in [Budgets -> Nat]
BY DEF Inv, TypeOK, Spend, Budgets

LEMMA RunLoopInv ==
  ASSUME Inv, NEW l \in Loops, RunLoop(l)
  PROVE  Inv'
<1>1. /\ loop[l] \in LoopRecord /\ active \subseteq Users
      /\ wrote \subseteq Users /\ budget \in [Budgets -> Nat]
  BY DEF Inv, TypeOK, LoopRecord
<1>2. {"spawned", "waiting", "asking", "giving"} = LoopStates \ {"ended"}
  BY DEF LoopStates
<1>3. CASE ReadConfig(l)
  <2>1. [NoLoop EXCEPT !.at = "waiting", !.config = config] \in LoopRecord
    <3>1. config \in Configs \cup {None}
      BY DEF Inv, TypeOK
    <3> QED BY <3>1 DEF NoLoop, LoopRecord, LoopStates
  <2> QED BY <1>1, <1>2, <1>3, <2>1, NoLoopTyped, LoopStepInv
          DEF ReadConfig, world, chat
<1>4. CASE Cancelled(l) \/ AskFails(l)
  BY <1>1, <1>2, <1>4, NoLoopTyped, LoopStepInv
  DEF Cancelled, AskFails, world, chat
<1>5. CASE Tick(l)
  <2>1. Moved(l, "asking") \in LoopRecord
    BY <1>1 DEF Moved, LoopRecord, LoopStates
  <2>2. budget' \in [Budgets -> Nat]
    BY <1>5, SpendTyped DEF Tick
  <2> QED BY <1>1, <1>2, <1>5, <2>1, <2>2, LoopStepInv DEF Tick, chat
<1>6. CASE PickViewers(l)
  <2>1. PICK next : LoopStep(l, "asking", next)
                    /\ \E viewers \in SUBSET Users :
                         next = [Moved(l, "giving") EXCEPT
                                  !.give = viewers \ banlist,
                                  !.bonus = (viewers \ banlist) \cap active]
    BY <1>6 DEF PickViewers
  <2>2. next \in LoopRecord
    <3>1. PICK viewers \in SUBSET Users :
            next = [Moved(l, "giving") EXCEPT
                     !.give = viewers \ banlist,
                     !.bonus = (viewers \ banlist) \cap active]
      BY <2>1
    <3>2. Moved(l, "giving") \in LoopRecord
      BY <1>1 DEF Moved, LoopRecord, LoopStates
    <3>3. viewers \ banlist \in SUBSET Users
          /\ (viewers \ banlist) \cap active \in SUBSET Users
      OBVIOUS
    <3> QED BY <3>1, <3>2, <3>3 DEF LoopRecord
  <2>3. /\ UNCHANGED <<conf, update, bot, active, live, closed, budget>>
        /\ wrote' = {}
    BY <1>6 DEF PickViewers
  <2> QED BY <1>1, <1>2, <2>1, <2>2, <2>3, LoopStepInv
<1>7. CASE GivePoints(l)
  <2>1. Moved(l, "waiting") \in LoopRecord
    BY <1>1 DEF Moved, LoopRecord, LoopStates
  <2>2. [Moved(l, "waiting") EXCEPT !.give = {}, !.bonus = {}] \in LoopRecord
    BY <2>1 DEF LoopRecord
  <2> QED BY <1>1, <1>2, <1>7, <2>2, LoopStepInv DEF GivePoints
<1> QED BY <1>3, <1>4, <1>5, <1>6, <1>7 DEF RunLoop

\* Neither loops nor callbacks move, and the manager is listed as often as
\* before or not at all.
LEMMA ElsewhereInv ==
  ASSUME Inv, UNCHANGED <<update, loop>>, TypeOK',
         bot'.listed = bot.listed \/ bot'.listed = 0
  PROVE  Inv'
<1>1. OneLoop'
  BY FewerLoops DEF Running, Owns
<1>2. bot.listed \in Nat /\ bot'.listed \in Nat
  BY DEF Inv, TypeOK
<1> QED BY <1>1, <1>2 DEF Inv, ListedOnce, Unlisted

LEMMA WorldInv ==
  ASSUME Inv,
         \/ \E c \in Configs : ClientWrites(c)
         \/ \E u \in Users : ChatMessage(u)
         \/ StreamChanges \/ BotReplaced \/ Close
  PROVE  Inv'
<1>1. ASSUME NEW c \in Configs, ClientWrites(c) PROVE Inv'
  <2>1. pushes' \in Seq(Configs)
    BY <1>1 DEF ClientWrites, Inv, TypeOK
  <2>2. budget' \in [Budgets -> Nat]
    BY <1>1, SpendTyped DEF ClientWrites
  <2>3. TypeOK'
    BY <1>1, <2>1, <2>2 DEF ClientWrites, chat, Inv, TypeOK
  <2> QED BY <1>1, <2>3, ElsewhereInv DEF ClientWrites
<1>2. ASSUME NEW u \in Users, ChatMessage(u) PROVE Inv'
  <2>1. TypeOK'
    BY <1>2 DEF ChatMessage, conf, Inv, TypeOK
  <2> QED BY <1>2, <2>1, ElsewhereInv DEF ChatMessage
<1>3. CASE StreamChanges
  <2>1. live' \in BOOLEAN
    BY <1>3 DEF StreamChanges
  <2>2. TypeOK'
    BY <1>3, <2>1 DEF StreamChanges, conf, chat, Inv, TypeOK
  <2> QED BY <1>3, <2>2, ElsewhereInv DEF StreamChanges
<1>4. CASE BotReplaced
  <2>1. bot' \in BotRecord /\ bot'.listed = 0
    BY <1>4 DEF BotReplaced, BotRecord
  <2>2. budget' \in [Budgets -> Nat]
    BY <1>4, SpendTyped DEF BotReplaced
  <2>3. TypeOK'
    BY <1>4, <2>1, <2>2 DEF BotReplaced, conf, chat, Inv, TypeOK, BotRecord
  <2> QED BY <1>4, <2>1, <2>3, ElsewhereInv DEF BotReplaced
<1>5. CASE Close
  <2>1. bot' \in BotRecord /\ bot'.listed = 0
    BY <1>5, UnlistTyped DEF Close, Unlist
  <2>2. budget' \in [Budgets -> Nat] /\ pushes' \in Seq(Configs)
    BY <1>5, SpendTyped DEF Close
  <2>3. TypeOK'
    BY <1>5, <2>1, <2>2 DEF Close, chat, Inv, TypeOK, BotRecord
  <2> QED BY <1>5, <2>1, <2>3, ElsewhereInv DEF Close
<1> QED BY <1>1, <1>2, <1>3, <1>4, <1>5

LEMMA NextInv == Inv /\ [Next]_vars => Inv'
<1> SUFFICES ASSUME Inv, [Next]_vars PROVE Inv'
  OBVIOUS
<1>1. ASSUME NEW p \in Updates, Update(p) PROVE Inv'
  BY <1>1, ReloadInv, HandoffInv, StopTwitchInv, SetupTwitchInv, SpawnLoopInv
  DEF Update
<1>2. ASSUME NEW l \in Loops, RunLoop(l) PROVE Inv'
  BY <1>2, RunLoopInv
<1>3. CASE UNCHANGED vars
  <2>1. TypeOK'
    BY <1>3 DEF vars, Inv, TypeOK
  <2> QED BY <1>3, <2>1, ElsewhereInv DEF vars
<1> QED BY <1>1, <1>2, <1>3, WorldInv DEF Next

-----------------------------------------------------------------------------
(* What a running loop knows: its configuration and who was active.        *)

\* A loop works with the current configuration unless a callback is on its way
\* to end it; past the handoff there is no loop left that could be older.
Coming(p) == update[p] \in {"clear", "fill", "handoff"}
Works(l) == loop[l].at \in {"waiting", "asking", "giving"}
Fresh(l) ==
  Works(l) => loop[l].config = config \/ \E p \in Updates : Coming(p)
\* Chatters are on record since the last round, or a round is about to empty
\* the record.
Earned == active \subseteq wrote \/ \E l \in Loops : loop[l].at = "giving"
LoopInv == (\A l \in Loops : Fresh(l)) /\ Earned

LEMMA InitLoop == Init => LoopInv
<1> SUFFICES ASSUME Init PROVE LoopInv
  OBVIOUS
<1>1. \A l \in Loops : loop[l].at \in {"ended", "spawned"}
  BY DEF Init, NoLoop
<1> QED BY <1>1 DEF Init, LoopInv, Fresh, Works, Earned

LEMMA UpdateLoop ==
  ASSUME Inv, LoopInv, NEW p \in Updates, Update(p)
  PROVE  LoopInv'
<1>1. CASE LoadConfig(p) \/ ClearBanList(p) \/ FillBanList(p)
  <2>1. Coming(p)'
    BY <1>1 DEF LoadConfig, ClearBanList, FillBanList, Resume, Coming, Inv, TypeOK
  <2>2. UNCHANGED <<loop, active, wrote>>
    BY <1>1 DEF LoadConfig, ClearBanList, FillBanList, world, chat
  <2> QED BY <2>1, <2>2 DEF LoopInv, Fresh, Works, Earned
<1>2. ASSUME NEW l \in Loops, Handoff(p, l) PROVE LoopInv'
  <2>1. \A m \in Loops : ~Works(m)' /\ loop[m].at # "giving"
    <3>1. loop' = [loop EXCEPT ![l] = NoLoop] /\ loop[l].at = "waiting"
      BY <1>2 DEF Handoff
    <3>2. \A m \in Loops \ {l} : loop[m].at = "ended" /\ loop'[m] = loop[m]
      BY <3>1 DEF Inv, OneLoop, Running, TypeOK
    <3>3. loop'[l].at = "ended"
      BY <3>1 DEF NoLoop, Inv, TypeOK
    <3> QED BY <3>1, <3>2, <3>3 DEF Works
  <2> QED BY <1>2, <2>1 DEF Handoff, world, chat, LoopInv, Fresh, Earned
<1>3. CASE StopTwitch(p) \/ SetupTwitch(p)
  <2>1. \A q \in Updates : Coming(q) => Coming(q)'
    BY <1>3 DEF StopTwitch, SetupTwitch, Resume, Coming, Inv, TypeOK
  <2>2. UNCHANGED <<loop, config, active, wrote>>
    BY <1>3 DEF StopTwitch, SetupTwitch, conf, chat
  <2> QED BY <2>1, <2>2 DEF LoopInv, Fresh, Works, Earned
<1>4. ASSUME NEW l \in Loops, SpawnLoop(p, l) PROVE LoopInv'
  <2>1. \A q \in Updates : Coming(q) => Coming(q)'
    BY <1>4 DEF SpawnLoop, Resume, Coming, Inv, TypeOK
  <2>2. /\ loop[l].at = "ended" /\ loop'[l].at = "spawned"
        /\ \A m \in Loops \ {l} : loop'[m] = loop[m]
    BY <1>4 DEF SpawnLoop, Inv, TypeOK
  <2> QED BY <1>4, <2>1, <2>2
          DEF SpawnLoop, conf, world, chat, LoopInv, Fresh, Works, Earned
<1> QED BY <1>1, <1>2, <1>3, <1>4 DEF Update

LEMMA RunLoopLoop ==
  ASSUME Inv, LoopInv, NEW l \in Loops, RunLoop(l)
  PROVE  LoopInv'
<1>1. /\ config' = config /\ update' = update
      /\ \A m \in Loops \ {l} : loop'[m] = loop[m]
      /\ active' \subseteq active
  BY DEF RunLoop, ReadConfig, Cancelled, Tick, AskFails, PickViewers,
         GivePoints, LoopStep, conf, world, chat, Inv, TypeOK
<1>2. Fresh(l)'
  <2>1. CASE ReadConfig(l)
    <3>1. loop'[l].at = "ended" \/ loop'[l].config = config
      BY <2>1 DEF ReadConfig, LoopStep, NoLoop, Inv, TypeOK
    <3> QED BY <1>1, <3>1 DEF Fresh, Works
  <2>2. CASE Cancelled(l) \/ AskFails(l)
    BY <2>2 DEF Cancelled, AskFails, LoopStep, NoLoop, Fresh, Works, Inv, TypeOK
  <2>3. CASE Tick(l) \/ PickViewers(l) \/ GivePoints(l)
    <3>1. Works(l)
      BY <2>3 DEF Tick, PickViewers, GivePoints, LoopStep, Works
    <3>2. loop'[l].config = loop[l].config
      <4>1. loop[l] \in LoopRecord
        BY DEF Inv, TypeOK, LoopRecord
      <4>2. PICK to, give, bonus :
              loop'[l] = [loop[l] EXCEPT !.at = to, !.give = give, !.bonus = bonus]
        <5>1. CASE Tick(l)
          <6>1. loop'[l] = [loop[l] EXCEPT !.at = "asking",
                              !.give = loop[l].give, !.bonus = loop[l].bonus]
            BY <4>1, <5>1 DEF Tick, LoopStep, Moved, Inv, TypeOK, LoopRecord
          <6> QED BY <6>1
        <5>2. CASE PickViewers(l)
          <6>1. PICK viewers \in SUBSET Users :
                  LoopStep(l, "asking", [Moved(l, "giving") EXCEPT
                    !.give = viewers \ banlist,
                    !.bonus = (viewers \ banlist) \cap active])
            BY <5>2 DEF PickViewers
          <6>2. loop'[l] = [Moved(l, "giving") EXCEPT
                              !.give = viewers \ banlist,
                              !.bonus = (viewers \ banlist) \cap active]
            BY <6>1 DEF LoopStep, Inv, TypeOK
          <6>3. loop'[l] = [loop[l] EXCEPT !.at = "giving",
                              !.give = viewers \ banlist,
                              !.bonus = (viewers \ banlist) \cap active]
            BY <4>1, <6>2 DEF Moved, LoopRecord
          <6> QED BY <6>3
        <5>3. CASE GivePoints(l)
          BY <4>1, <5>3 DEF GivePoints, LoopStep, Moved, Inv, TypeOK, LoopRecord
        <5> QED BY <2>3, <5>1, <5>2, <5>3
      <4> QED BY <4>1, <4>2 DEF LoopRecord
    <3> QED BY <1>1, <3>1, <3>2 DEF Fresh, LoopInv, Coming
  <2> QED BY <2>1, <2>2, <2>3 DEF RunLoop
<1>3. Earned'
  <2>1. CASE PickViewers(l)
    <3>1. loop'[l].at = "giving"
      <4>1. loop[l] \in LoopRecord
        BY DEF Inv, TypeOK, LoopRecord
      <4> QED BY <2>1, <4>1 DEF PickViewers, LoopStep, Moved, Inv, TypeOK,
                                LoopRecord
    <3> QED BY <3>1 DEF Earned
  <2>2. CASE GivePoints(l)
    BY <2>2 DEF GivePoints, Earned
  <2>3. CASE ReadConfig(l) \/ Cancelled(l) \/ Tick(l) \/ AskFails(l)
    <3>1. loop[l].at # "giving" /\ wrote' = wrote
      BY <2>3 DEF ReadConfig, Cancelled, Tick, AskFails, LoopStep, world, chat
    <3> QED BY <1>1, <3>1 DEF LoopInv, Earned
  <2> QED BY <2>1, <2>2, <2>3 DEF RunLoop
<1> QED BY <1>1, <1>2, <1>3 DEF LoopInv, Fresh, Works, Coming

LEMMA NextLoop == Inv /\ LoopInv /\ [Next]_vars => LoopInv'
<1> SUFFICES ASSUME Inv, LoopInv, [Next]_vars PROVE LoopInv'
  OBVIOUS
<1>1. CASE \/ \E c \in Configs : ClientWrites(c)
           \/ StreamChanges \/ BotReplaced \/ Close \/ UNCHANGED vars
  <2>1. UNCHANGED <<config, update, loop, active, wrote>>
    BY <1>1 DEF ClientWrites, StreamChanges, BotReplaced, Close, vars, conf, chat
  <2> QED BY <2>1 DEF LoopInv, Fresh, Works, Coming, Earned
<1>2. ASSUME NEW u \in Users, ChatMessage(u) PROVE LoopInv'
  BY <1>2 DEF ChatMessage, conf, LoopInv, Fresh, Works, Coming, Earned
<1> QED BY <1>1, <1>2, UpdateLoop, RunLoopLoop DEF Next

LEMMA BonusStep ==
  ASSUME Inv, LoopInv, [Next]_vars, NEW l \in Loops,
         loop[l].at = "asking", loop'[l].at = "giving"
  PROVE  loop'[l].bonus \subseteq wrote
<1>1. PickViewers(l)
  <2>1. loop'[l] # loop[l]
    OBVIOUS
  <2>2. ASSUME NEW m \in Loops, RunLoop(m) PROVE m = l
    BY <2>1, <2>2 DEF RunLoop, ReadConfig, Cancelled, Tick, AskFails,
                      PickViewers, GivePoints, LoopStep, Inv, TypeOK
  <2>3. ASSUME NEW m \in Loops, NEW p \in Updates,
               Handoff(p, m) \/ SpawnLoop(p, m)
        PROVE  FALSE
    BY <2>1, <2>3 DEF Handoff, SpawnLoop, Inv, TypeOK
  <2>4. \E m \in Loops : \/ RunLoop(m)
                         \/ \E p \in Updates : Handoff(p, m) \/ SpawnLoop(p, m)
    BY <2>1 DEF Next, Update, LoadConfig, ClearBanList, FillBanList, StopTwitch,
                SetupTwitch, ClientWrites, ChatMessage, StreamChanges,
                BotReplaced, Close, world, vars
  <2>5. RunLoop(l)
    BY <2>2, <2>3, <2>4
  <2> QED BY <2>5 DEF RunLoop, ReadConfig, Cancelled, Tick, AskFails, GivePoints,
                      LoopStep, NoLoop, Inv, TypeOK
<1>2. active \subseteq wrote
  BY DEF LoopInv, Earned, Inv, OneLoop, Running
<1>3. loop'[l].bonus \subseteq active
  <2>1. loop[l] \in LoopRecord
    BY DEF Inv, TypeOK, LoopRecord
  <2>2. PICK viewers \in SUBSET Users :
          loop'[l] = [Moved(l, "giving") EXCEPT
                        !.give = viewers \ banlist,
                        !.bonus = (viewers \ banlist) \cap active]
    BY <1>1 DEF PickViewers, LoopStep, Inv, TypeOK
  <2>3. loop'[l].bonus = (viewers \ banlist) \cap active
    BY <2>1, <2>2 DEF Moved, LoopRecord
  <2> QED BY <2>3
<1> QED BY <1>2, <1>3

-----------------------------------------------------------------------------
(* The theorems.                                                           *)

\* However many callbacks, configurations and bots there are, at most one
\* points loop runs: a callback starts one only after it has ended one.
THEOREM AtMostOneLoop == Spec => []OneLoop
<1>1. Init => Inv
  BY InitInv
<1>2. Inv /\ [Next]_vars => Inv'
  BY NextInv
<1>3. Inv => OneLoop
  BY DEF Inv
<1> QED BY <1>1, <1>2, <1>3, PTL DEF Spec

\* For the same reason OnMessage lists the manager at most once, although Add
\* does not look for it.
THEOREM ListedAtMostOnce == Spec => []ListedOnce
<1>1. Init => Inv
  BY InitInv
<1>2. Inv /\ [Next]_vars => Inv'
  BY NextInv
<1>3. Inv => ListedOnce
  BY DEF Inv
<1> QED BY <1>1, <1>2, <1>3, PTL DEF Spec

\* Every variable of the loop keeps its type; the counter of OnMessage entries,
\* which StopTwitch and Close decrement, never leaves the naturals.
THEOREM LoopTyping == Spec => []TypeOK
<1>1. Init => Inv
  BY InitInv
<1>2. Inv /\ [Next]_vars => Inv'
  BY NextInv
<1>3. Inv => TypeOK
  BY DEF Inv
<1> QED BY <1>1, <1>2, <1>3, PTL DEF Spec

\* However writes, callbacks and rounds interleave, a loop that waits with no
\* callback under way has the configuration the manager loaded last.
THEOREM WaitsWithTheLatest == Spec => []LoopIsCurrent
<1>1. Init => Inv /\ LoopInv
  BY InitInv, InitLoop
<1>2. Inv /\ LoopInv /\ [Next]_vars => Inv' /\ LoopInv'
  BY NextInv, NextLoop
<1>3. LoopInv => LoopIsCurrent
  BY DEF LoopInv, Fresh, Works, Coming, LoopIsCurrent
<1> QED BY <1>1, <1>2, <1>3, PTL DEF Spec

\* No round pays the bonus for a message that an earlier round has paid: the
\* record is emptied before anybody reads it again.
THEOREM BonusOnlyOnce == Spec => BonusEarned
<1>1. Init => Inv /\ LoopInv
  BY InitInv, InitLoop
<1>2. Inv /\ LoopInv /\ [Next]_vars => Inv' /\ LoopInv'
  BY NextInv, NextLoop
<1>3. Inv /\ LoopInv /\ [Next]_vars
        => [\A l \in Loops :
              loop[l].at = "asking" /\ loop'[l].at = "giving"
                => loop'[l].bonus \subseteq wrote]_vars
  BY BonusStep
<1> QED BY <1>1, <1>2, <1>3, PTL DEF Spec, BonusEarned
=============================================================================
