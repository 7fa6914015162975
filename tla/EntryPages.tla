----------------------------- MODULE EntryPages -----------------------------
(***************************************************************************)
(* The pages that edit a table of named entries: rewards, goals, custom    *)
(* commands and timers.  Each row has buttons to toggle and delete it, and *)
(* a dialog makes an entry or edits one.  Whatever the user changes, the   *)
(* page saves the whole table, computed from its copy.  An entry is its    *)
(* switch, a text that stands for the fields of the form, and an extra     *)
(* field: what a reward asks the viewer for, what a goal has collected.    *)
(***************************************************************************)
EXTENDS DashboardStore

CONSTANTS
  Typed,   \* what the user types as a name or an ID
  SlugOf,  \* the ID made of it: lower case, other characters replaced
  Texts    \* what the user types into the other fields

\* What a goal collects is a number, what a reward asks for is a text.
EntryOf(k) ==
  [on : BOOLEAN, text : Texts \union {""},
   extra : IF k = "loyaltyGoals" THEN Nat ELSE Texts \union {""}]
IsTable(k, t) == DOMAIN t \subseteq Typed /\ t \in [DOMAIN t -> EntryOf(k)]

ASSUME EntryAssumption ==
  /\ SlugOf \in [Typed -> Typed] /\ Texts # {} /\ "" \notin Texts
  /\ \A k \in Tables :
       /\ \A saved \in Saved : saved[k] = absent \/ IsTable(k, saved[k])
       /\ \A S \in SUBSET Typed : {null, absent} \intersect [S -> EntryOf(k)] = {}

Blank(extra) == [on |-> TRUE, text |-> "", extra |-> extra]

\* kind: new or edit; old: the name of the entry that is edited; entry: the
\* values in the fields; fresh: they are no longer the store's own object;
\* taken, bad: custom validity of the name, of the response; info: the tick
\* and the text of "require viewer details"; n: which dialog this is.
Closed == [kind |-> "closed", old |-> null, id |-> "", entry |-> Blank(""),
           fresh |-> FALSE, taken |-> FALSE, bad |-> FALSE,
           info |-> [on |-> FALSE, text |-> ""], n |-> 0]

Here(p) == page = p /\ conn = "Connected"
Open(p) == Here(p) /\ local.kind # "closed"

Names(t) == IF t \in {null, absent} THEN {} ELSE DOMAIN t
Rows(k) == Names(copies[k])
\* The dialog is modal: the page is out of reach while it is open.
Free(p) == Here(p) /\ local.kind = "closed"
Row(p, k, id) == Free(p) /\ id \in Rows(k)

Toggled(t, id) == [t EXCEPT ![id].on = ~@]
Without(t, id) == [i \in DOMAIN t \ {id} |-> t[i]]
With(t, id, entry) ==
  [i \in DOMAIN t \union {id} |-> IF i = id THEN entry ELSE t[i]]
OrEmpty(t) == IF t \in {null, absent} THEN [i \in {} |-> Blank("")] ELSE t

\* A click that saves v and leaves the dialog in this state.
Clicked(k, v, dialog) ==
  /\ Spend("edit") /\ Save(k, v) /\ local' = dialog
  /\ UNCHANGED <<hub, down, conn, copy, page, hooks, tasks>>

\* Input that changes only the state of the mounted page.
Input(dialog) ==
  /\ Spend("type") /\ local' = dialog
  /\ UNCHANGED <<hub, wire, conn, copy, status, page, hooks, tasks>>

\* A button that changes only the state of the mounted page.
Turned(dialog) ==
  /\ local' = dialog
  /\ UNCHANGED <<hub, wire, conn, copy, status, page, hooks, tasks,
                 budget>>

NewDialog(extra) ==
  [Closed EXCEPT !.kind = "new", !.entry = Blank(extra), !.fresh = TRUE,
                 !.n = budget["type"]]
EditDialog(k, id) ==
  [Closed EXCEPT !.kind = "edit", !.old = id, !.id = id,
                 !.entry = copies[k][id], !.n = budget["type"]]

\* checkValidity(): no custom error, and no required field is empty.
Valid(dialog) ==
  /\ ~dialog.taken /\ ~dialog.bad /\ dialog.id # "" /\ dialog.entry.text # ""

-----------------------------------------------------------------------------
(* Rewards.                                                                *)

Rewards == "loyaltyRewards"

ToggleReward(id) ==
  /\ Row("rewards", Rewards, id)
  /\ Clicked(Rewards, Toggled(copies[Rewards], id), local)

DeleteReward(id) ==
  /\ Row("rewards", Rewards, id)
  /\ Clicked(Rewards, Without(copies[Rewards], id), local)

\* Only this button resets the details; opening a row keeps those of the
\* dialog before.
NewReward == Free("rewards") /\ Input(NewDialog(""))
EditReward(id) ==
  /\ Row("rewards", Rewards, id)
  /\ Input([EditDialog(Rewards, id) EXCEPT !.info = local.info])

\* The ID kept is the slug, the one looked up is what was typed.  With no
\* copy the lookup throws after the ID was set.
TypeNewId(k, typed) ==
  [local EXCEPT !.id = SlugOf[typed], !.fresh = TRUE,
                !.taken = IF copies[k] = null THEN @ ELSE typed \in Rows(k)]

TypeRewardId(typed) ==
  Open("rewards") /\ local.kind = "new" /\ Input(TypeNewId(Rewards, typed))

TypeRewardField(text) ==
  /\ Open("rewards")
  /\ Input([local EXCEPT !.entry.text = text, !.fresh = TRUE])

TickDetails == Open("rewards") /\ Input([local EXCEPT !.info.on = ~@])

\* The field shows the reward's details, not what is typed here.
TypeDetails(text) ==
  /\ Open("rewards") /\ local.info.on
  /\ Input([local EXCEPT !.info.text = text])

\* Writing the details into an object that is the store's own throws.
SubmitReward ==
  /\ Open("rewards") /\ Valid(local)
  /\ local.info.on => local.entry.extra # "" /\ local.fresh
  /\ LET reward == IF local.info.on
                   THEN [local.entry EXCEPT !.extra = local.info.text]
                   ELSE local.entry
     IN Clicked(Rewards, With(OrEmpty(copies[Rewards]), local.id, reward),
                [Closed EXCEPT !.info = local.info])

CancelReward == Open("rewards") /\ Turned([Closed EXCEPT !.info = local.info])

-----------------------------------------------------------------------------
(* Goals.                                                                  *)

Goals == "loyaltyGoals"

ToggleGoal(id) ==
  /\ Row("goals", Goals, id)
  /\ Clicked(Goals, Toggled(copies[Goals], id), local)

DeleteGoal(id) ==
  /\ Row("goals", Goals, id)
  /\ Clicked(Goals, Without(copies[Goals], id), local)

NewGoal == Free("goals") /\ Input(NewDialog(0))
EditGoal(id) ==
  /\ Row("goals", Goals, id)
  /\ Input(EditDialog(Goals, id))

TypeGoalId(typed) ==
  Open("goals") /\ local.kind = "new" /\ Input(TypeNewId(Goals, typed))

TypeGoalField(text) ==
  Open("goals") /\ Input([local EXCEPT !.entry.text = text, !.fresh = TRUE])
\* Fault: only the goal of the dialog is saved.
SubmitAlone ==
  /\ Open("goals") /\ Valid(local)
  /\ Clicked(Goals, With(OrEmpty(null), local.id, local.entry), Closed)

SubmitGoal ==
  /\ Open("goals") /\ Valid(local)
  /\ Clicked(Goals, With(OrEmpty(copies[Goals]), local.id, local.entry), Closed)

CancelGoal == Open("goals") /\ Turned(Closed)

-----------------------------------------------------------------------------
(* Commands.  The dialog has a useModule of its own: it asks again when it *)
(* opens, and takes the statuses of the key with it when it closes.        *)

Commands == "twitchBotCommands"

ToggleCommand(id) ==
  /\ Row("commands", Commands, id)
  /\ Clicked(Commands, Toggled(copies[Commands], id), local)

DeleteCommand(id) ==
  /\ Row("commands", Commands, id)
  /\ Clicked(Commands, Without(copies[Commands], id), local)

OpenDialog(k, dialog) ==
  /\ local.kind = "closed" /\ Spend("type") /\ DialogMounted(k)
  /\ local' = dialog
  /\ UNCHANGED <<hub, down, conn, copy, page, hooks, tasks>>

CloseDialog(k) ==
  /\ local.kind # "closed" /\ DialogUnmounted(k) /\ local' = Closed
  /\ UNCHANGED <<hub, wire, conn, copy, page, hooks, tasks, budget>>

\* setActiveDialog to a new command or to a row.
OpenCommandDialog ==
  /\ Here("commands")
  /\ \/ OpenDialog(Commands, NewDialog(""))
     \/ \E id \in Rows(Commands) : OpenDialog(Commands, EditDialog(Commands, id))

CloseCommandDialog == Here("commands") /\ CloseDialog(Commands)

\* The check of a name compares it with the copy there is at that time; with
\* no copy `in` throws after the name was set.
TypeName(k, typed) ==
  [local EXCEPT !.id = typed,
                !.taken = IF copies[k] = null THEN @
                          ELSE typed # local.old /\ typed \in Rows(k)]

TypeCommandName(typed) ==
  Open("commands") /\ Input(TypeName(Commands, typed))

TypeCommandField(text) ==
  /\ Open("commands")
  /\ Input([local EXCEPT !.entry.text = text, !.bad = FALSE])

\* onSubmit: the template is tested by the application before anything is
\* saved; the dialog stays open and can be submitted or closed meanwhile.
SubmitCommand ==
  /\ Open("commands") /\ Valid(local) /\ Spend("edit")
  /\ tasks' = tasks \union
       {[does |-> "testTemplate", dialog |-> local, base |-> copies[Commands],
         mount |-> Mount, n |-> budget["edit"]]}
  /\ UNCHANGED <<hub, wire, conn, copy, status, view>>

\* {...t, [old]: undefined, [id]: entry}
Renamed(t, old, id, entry) == With(Without(OrEmpty(t), old), id, entry)

\* setCommand, as it was when the form was submitted.
TemplateAccepted(task) ==
  /\ task.does = "testTemplate" /\ tasks' = tasks \ {task}
  /\ LET d == task.dialog
         table == IF d.kind = "new"
                  THEN With(OrEmpty(task.base), d.id, [d.entry EXCEPT !.on = TRUE])
                  ELSE Renamed(task.base, d.old, d.id, d.entry)
     IN Send(<<Put(Commands, table, task.base)>>)
  /\ IF Open("commands") /\ task.mount = Mount
     THEN DialogUnmounted(Commands) /\ local' = Closed
     ELSE /\ save' = [save EXCEPT ![Commands] = "pending"]
          /\ UNCHANGED <<load, local>>
  /\ UNCHANGED <<hub, down, conn, copy, page, hooks, budget>>

TemplateRefused(task) ==
  /\ task.does = "testTemplate" /\ tasks' = tasks \ {task}
  /\ local' = IF Open("commands") /\ task.mount = Mount /\ task.dialog.n = local.n
              THEN [local EXCEPT !.bad = TRUE] ELSE local
  /\ UNCHANGED <<hub, wire, conn, copy, status, page, hooks, budget>>

-----------------------------------------------------------------------------
(* Timers.  With no copy, reading its timers throws and nothing is saved.  *)

Timers == "twitchBotTimers"

ToggleTimer(id) ==
  /\ Row("timers", Timers, id)
  /\ Clicked(Timers, Toggled(copies[Timers], id), local)

DeleteTimer(id) ==
  /\ Row("timers", Timers, id)
  /\ Clicked(Timers, Without(copies[Timers], id), local)

OpenTimerDialog ==
  /\ Here("timers")
  /\ \/ OpenDialog(Timers, NewDialog(""))
     \/ \E id \in Rows(Timers) : OpenDialog(Timers, EditDialog(Timers, id))

CloseTimerDialog == Here("timers") /\ CloseDialog(Timers)

TypeTimerName(typed) == Open("timers") /\ Input(TypeName(Timers, typed))

TypeTimerField(text) ==
  Open("timers") /\ Input([local EXCEPT !.entry.text = text])

SubmitTimer ==
  /\ Open("timers") /\ Valid(local) /\ copies[Timers] # null /\ Spend("edit")
  /\ LET t == copies[Timers]
         d == local
     IN Send(<<Put(Timers, IF d.kind = "new"
                           THEN With(t, d.id, [d.entry EXCEPT !.on = TRUE])
                           ELSE Renamed(t, d.old, d.id, d.entry), t)>>)
  /\ DialogUnmounted(Timers) /\ local' = Closed
  /\ UNCHANGED <<hub, down, conn, copy, page, hooks, tasks>>

-----------------------------------------------------------------------------
(* What happens to the tables elsewhere.                                   *)

\* The loyalty manager adds a contribution to a goal.
GoalContributed(id) ==
  /\ id \in Names(db[Goals]) /\ Spend("write")
  /\ WrittenElsewhere(Goals, [db[Goals] EXCEPT ![id].extra = @ + 1])

\* Another client of the hub adds an entry, or replaces one.
EntryWritten(k, id) ==
  /\ k # Goals /\ Spend("write")
  /\ WrittenElsewhere(k, With(OrEmpty(db[k]), id,
                              [Blank("") EXCEPT !.text = CHOOSE t \in Texts : TRUE]))

RewardsNext ==
  \/ \E id \in Typed : ToggleReward(id) \/ DeleteReward(id) \/ EditReward(id)
                       \/ TypeRewardId(id)
  \/ \E text \in Texts : TypeRewardField(text) \/ TypeDetails(text)
  \/ NewReward \/ TickDetails \/ SubmitReward \/ CancelReward

GoalsNext ==
  \/ \E id \in Typed : ToggleGoal(id) \/ DeleteGoal(id) \/ EditGoal(id)
                       \/ TypeGoalId(id)
  \/ \E text \in Texts : TypeGoalField(text)
  \/ NewGoal \/ SubmitGoal \/ CancelGoal

CommandsNext ==
  \/ \E id \in Typed : ToggleCommand(id) \/ DeleteCommand(id)
                       \/ TypeCommandName(id)
  \/ \E text \in Texts : TypeCommandField(text)
  \/ \E task \in tasks : TemplateAccepted(task) \/ TemplateRefused(task)
  \/ OpenCommandDialog \/ CloseCommandDialog \/ SubmitCommand

TimersNext ==
  \/ \E id \in Typed : ToggleTimer(id) \/ DeleteTimer(id) \/ TypeTimerName(id)
  \/ \E text \in Texts : TypeTimerField(text)
  \/ OpenTimerDialog \/ CloseTimerDialog \/ SubmitTimer

EntryNext ==
  \/ RewardsNext \/ GoalsNext \/ CommandsNext \/ TimersNext
  \/ \E id \in Typed : GoalContributed(id)
                       \/ \E k \in Tables : EntryWritten(k, id)

-----------------------------------------------------------------------------
Changed(old, new) ==
  {i \in Names(old) \union Names(new) :
     \/ i \notin Names(old) \/ i \notin Names(new) \/ old[i] # new[i]}

\* Although every save writes a whole table, one that was computed from what
\* the database still holds changes no more than the entry the user edited,
\* or the two names of a rename: nothing else of the table is lost,
\* reordered into another entry or left over from an earlier dialog.
OnlyTheEdit ==
  [][\A k \in Tables :
       (up # <<>> /\ Head(up).op = "put" /\ Head(up).key = k
          /\ Head(up).base = db[k] /\ up' = Tail(up))
       => Cardinality(Changed(db[k], db'[k]))
            <= IF k \in {Commands, Timers} THEN 2 ELSE 1]_vars
=============================================================================
