----------------------------- MODULE PointsPages ----------------------------
(***************************************************************************)
(* The page of the redeem queue and of the balances.  Accepting a redeem   *)
(* asks the loyalty manager to take it off the queue; refunding it also    *)
(* gives the price back, as a change relative to the balance in the        *)
(* dashboard's copy.  Balances can be given to or overwritten in a dialog. *)
(* Both lists are shown in pages by a DataTable.                           *)
(***************************************************************************)
EXTENDS EntryPages

CONSTANTS
  UserOf, Price,  \* of a redeem: who redeemed, and the reward's price
  Amounts,        \* numbers the user types
  NaN,            \* what parseInt makes of an empty field
  PageSizes       \* entries per page the DataTable offers

\* A queue that was not loaded, or never written, is empty.
Listed(queue) == IF queue \in {null, absent} THEN {} ELSE queue

ASSUME PointsAssumption ==
  /\ UserOf \in [Redeems -> Users] /\ Price \in [Redeems -> Nat]
  /\ Redeems \subseteq Int /\ IsFiniteSet(Redeems) /\ IsFiniteSet(Users)
  /\ Amounts \subseteq Int
  /\ PageSizes \subseteq Nat \ {0} /\ PageSizes # {}
  /\ \A saved \in Saved : Listed(saved["loyaltyRedeemQueue"]) \subseteq Redeems

-----------------------------------------------------------------------------
(* DataTable: the state of a table, and the rows it shows.                 *)

\* The first size, the first page and the default sorting.
Table == [page |-> 0, per |-> CHOOSE n \in PageSizes : \A m \in PageSizes : n <= m,
          order |-> "desc"]

\* The rows in the order of a column; rows that are alike in any order.
Sorted(rows, column, order) ==
  CHOOSE sorted \in [1 .. Cardinality(rows) -> rows] :
    \A i, j \in DOMAIN sorted : i < j =>
      /\ sorted[i] # sorted[j]
      /\ IF order = "asc" THEN column[sorted[i]] <= column[sorted[j]]
                          ELSE column[sorted[i]] >= column[sorted[j]]

\* Fault: the last page is taken to be a full one.
FullPages(rows, table) == (Cardinality(rows) \div table.per) - 1

TotalPages(rows, table) == Cardinality(rows) \div table.per

Shown(rows, column, table) ==
  LET sorted == Sorted(rows, column, table.order)
      offset == table.page * table.per
  IN {row \in rows : \E i \in DOMAIN sorted :
                       sorted[i] = row /\ offset < i /\ i <= offset + table.per}

\* PageList: the pages its buttons lead to, first, last and the neighbours.
Reached(rows, table) ==
  LET last == TotalPages(rows, table)
  IN {p \in {0, table.page - 1} : 0 <= p /\ p < table.page}
     \union {p \in {table.page + 1, last} : table.page < p /\ p <= last}

\* A click in the table; neither a new size nor fewer rows reset the page.
TableClick(p, rows) ==
  /\ Free(p)
  /\ \/ \E n \in Reached(rows, local.table) :
          Input([local EXCEPT !.table.page = n])
     \/ \E n \in PageSizes \ {local.table.per} :
          Input([local EXCEPT !.table.per = n])
     \/ Input([local EXCEPT !.table.order = IF @ = "asc" THEN "desc" ELSE "asc"])

-----------------------------------------------------------------------------
(* The queue.                                                              *)

Queue == "loyaltyRedeemQueue"
QueueLocal == [kind |-> "closed", table |-> Table]

\* Redeems are numbered in the order of their dates.
When == [r \in Redeems |-> r]
QueueRows == Listed(copies[Queue])
RedeemsShown == Shown(QueueRows, When, local.table)

AcceptRedeem(r) ==
  /\ Free("queue") /\ r \in RedeemsShown /\ Spend("edit")
  /\ Send(<<RemoveRedeem(r)>>)
  /\ UNCHANGED <<hub, down, conn, copy, status, view, tasks>>

\* The new value of a relative change; with no copy of the balances reading
\* the old one throws, and nothing is sent.
Relative(u, n) ==
  IF copies["points"] = null THEN <<>>
  ELSE <<PutPoints(u, IF n = NaN THEN 0 ELSE copies["points"][u] + n)>>

\* Two requests; whether the first could be made is not looked at.
RefundRedeem(r) ==
  /\ Free("queue") /\ r \in RedeemsShown /\ Spend("edit")
  /\ Send(Relative(UserOf[r], Price[r]) \o <<RemoveRedeem(r)>>)
  /\ UNCHANGED <<hub, down, conn, copy, status, view, tasks>>

QueueTableClick == TableClick("queue", QueueRows)

-----------------------------------------------------------------------------
(* The balances.                                                           *)

UsersLocal == [kind |-> "closed", user |-> null, points |-> 0, table |-> Table]

Points == copies["points"]
UserRows == IF copies["points"] = null THEN {} ELSE Users
UsersShown == Shown(UserRows, Points, local.table)

OpenGivePoints ==
  /\ Free("users")
  /\ Input([local EXCEPT !.kind = "give", !.user = null, !.points = 0])

\* The dialog starts with the balance of the row that was clicked.
OpenBalance(u) ==
  /\ Free("users") /\ u \in UsersShown
  /\ Input([local EXCEPT !.kind = "modify", !.user = u,
                         !.points = copies["points"][u]])

TypeUser(u) ==
  /\ Open("users") /\ local.kind = "give"
  /\ Input([local EXCEPT !.user = u])

TypePoints(n) == Open("users") /\ Input([local EXCEPT !.points = n])

\* A number that is none is stored as null, which is read as no points.
SubmitGivePoints ==
  /\ Open("users") /\ local.kind = "give" /\ local.user # null /\ Spend("edit")
  /\ Send(Relative(local.user, local.points))
  /\ local' = [local EXCEPT !.kind = "closed"]
  /\ UNCHANGED <<hub, down, conn, copy, status, page, hooks, tasks>>
\* Fault: what parseInt makes of an empty field is stored.
SubmitUnparsed ==
  /\ Open("users") /\ local.kind = "modify" /\ Spend("edit")
  /\ Send(<<PutPoints(local.user, local.points)>>)
  /\ local' = [local EXCEPT !.kind = "closed"]
  /\ UNCHANGED <<hub, down, conn, copy, status, page, hooks, tasks>>

SubmitBalance ==
  /\ Open("users") /\ local.kind = "modify" /\ Spend("edit")
  /\ Send(<<PutPoints(local.user, IF local.points = NaN THEN 0 ELSE local.points)>>)
  /\ local' = [local EXCEPT !.kind = "closed"]
  /\ UNCHANGED <<hub, down, conn, copy, status, page, hooks, tasks>>

ClosePointsDialog ==
  Open("users") /\ Turned([local EXCEPT !.kind = "closed"])

UsersTableClick == TableClick("users", UserRows)

-----------------------------------------------------------------------------
(* The loyalty manager, as far as the page sees it.                        *)

\* RemoveRedeem: off the queue if it is still on it.
ManagerRemoves ==
  /\ rpcs # <<>> /\ rpcs' = Tail(rpcs)
  /\ LET queue == Listed(db[Queue])
         r == Head(rpcs)
     IN IF r \in queue
        THEN Write(Queue, queue \ {r}) /\ down' = down \o Push(Queue, queue \ {r})
        ELSE UNCHANGED <<db, unheard, down>>
  /\ UNCHANGED <<held, up, conn, copy, status, view, tasks, budget>>

\* A viewer redeems a reward and is charged for it.
ViewerRedeems(r) ==
  /\ Spend("write") /\ {Queue, "points"} \intersect hooks # {}
  /\ r \notin Listed(db[Queue])
  /\ LET n == db["points"][UserOf[r]] - Price[r]
         queue == Listed(db[Queue]) \union {r}
     IN /\ n >= 0
        /\ db' = [db EXCEPT ![Queue] = queue, !["points"][UserOf[r]] = n]
        /\ unheard' = unheard \union ({Queue, "points"} \ held)
        /\ down' = down \o Push(Queue, queue) \o PointsPush(UserOf[r], n)
  /\ UNCHANGED <<rpcs, held, up, conn, copy, status, view, tasks>>

PointsNext ==
  \/ \E r \in Redeems : AcceptRedeem(r) \/ RefundRedeem(r) \/ ViewerRedeems(r)
  \/ \E u \in Users : OpenBalance(u) \/ TypeUser(u)
  \/ \E n \in Amounts \union {NaN} : TypePoints(n)
  \/ OpenGivePoints \/ SubmitGivePoints \/ SubmitBalance \/ ClosePointsDialog
  \/ QueueTableClick \/ UsersTableClick \/ ManagerRemoves

-----------------------------------------------------------------------------
\* Every row of a list is shown on one of the pages that can be reached from
\* the first, whatever the size of a page and the number of rows.
EveryRowHasAPage ==
  (Here("queue") \/ Here("users")) =>
     LET rows == IF page = "queue" THEN QueueRows ELSE UserRows
         column == IF page = "queue" THEN When ELSE Points
         ShownOn(n) == Shown(rows, column, [local.table EXCEPT !.page = n])
     IN \A row \in rows :
          Cardinality({n \in 0 .. TotalPages(rows, local.table) : row \in ShownOn(n)}) = 1
=============================================================================
