----------------------- MODULE DashboardCopiesProofs -----------------------
(***************************************************************************)
(* What the dashboard shows once all is answered, for any database, pages, *)
(* viewers and clicks: the copies of the keys in use are current, a change *)
(* of a balance finds the balances there, and the forms are enabled again. *)
(***************************************************************************)
EXTENDS DashboardProofs

-----------------------------------------------------------------------------
(* The messages about a key, or about the balance of one viewer.           *)

\* u matters for the balances only.
About(m, k, u) ==
  \/ m.is \in {"value", "push"} /\ m.key = k
  \/ m.is = "points" /\ k = "points" /\ m.user = u
Says(m, k, u) == IF k = "points" /\ m.is # "points" THEN m.value[u] ELSE m.value
Silent(s, k, u) == \A i \in DOMAIN s : ~About(s[i], k, u)

\* Every message about it says w, or one that says something about it comes
\* later.
EndsWith(s, k, u, w) ==
  \A i \in DOMAIN s : About(s[i], k, u) =>
    \/ Says(s[i], k, u) = w
    \/ \E j \in DOMAIN s : i < j /\ About(s[j], k, u)

IsBalances(m) == m.is = "value" /\ m.key = "points"
IsAnswer(m, k) == m.is = "stored" /\ m.key = k /\ m.then = "nothing"
\* The answer to a read that found nothing.
IsNothing(m, k) == m.is = "value" /\ m.key = k /\ m.value = absent

-----------------------------------------------------------------------------
(* The invariant.                                                          *)

\* Nothing was missed: k is used by the page, the last write of it was pushed
\* or came before the last read, and it is not being read.
Followed(k) ==
  k \in hooks /\ k \notin unheard /\ \A r \in ToSet(up) : ~AsksFor(r, k)

\* Then the last message on its way has what is stored; without one, the copy.
KeysCurrent ==
  \A k \in Modules : Followed(k) =>
    /\ EndsWith(down, k, null, db[k])
    /\ Silent(down, k, null) => k \in drafts \/ copies[k] = db[k] \/ db[k] = absent
BalancesCurrent ==
  Followed("points") =>
    /\ copies["points"] = null => \E m \in ToSet(down) : IsBalances(m)
    /\ \A u \in Users :
         /\ EndsWith(down, "points", u, db["points"][u])
         /\ Silent(down, "points", u) =>
              copies["points"] # null /\ copies["points"][u] = db["points"][u]

\* As long as there are no balances, whatever leads to a change of one comes
\* after what brings them.
BalancesFirst ==
  copies["points"] = null =>
    /\ "points" \in held => \E m \in ToSet(down) : IsBalances(m)
    /\ \A i \in DOMAIN down : down[i].is = "points" =>
         \E j \in DOMAIN down : j < i /\ IsBalances(down[j])
    /\ \A i \in DOMAIN up : up[i].op = "sub" /\ up[i].key = "points" =>
         \/ \E m \in ToSet(down) : IsBalances(m)
         \/ \E j \in DOMAIN up : j < i /\ AsksFor(up[j], "points")

\* What is shown as pending is under way, and a save of what disables a form
\* is one of the page that shows the form.
Loading(k) ==
  \/ \E r \in ToSet(up) : AsksFor(r, k)
  \/ \E m \in ToSet(down) : m.is = "value" /\ m.key = k
Saving(k) ==
  \/ \E r \in ToSet(up) : Saves(r, k)
  \/ \E m \in ToSet(down) : IsAnswer(m, k)
OnItsPage(k) == \E p \in DOMAIN Main : Here(p) /\ Main[p] = k
LoadsOK == \A k \in hooks \intersect Modules : load[k] = "pending" => Loading(k)
SavesOK == \A k \in Disabling : save[k] = "pending" => OnItsPage(k) /\ Saving(k)

\* The page of a form has asked for its key; and once the dashboard has saved
\* what a read did not find, the answer to that save is on its way, which
\* makes the page read it again.
AskedOnPage == \A k \in Disabling : OnItsPage(k) => load[k] # "none"
FoundOK ==
  \A k \in Disabling : db[k] \notin {absent, Theirs} =>
    /\ \A i \in DOMAIN down : IsNothing(down[i], k) =>
         \E j \in DOMAIN down : i < j /\ IsAnswer(down[j], k)
    /\ OnItsPage(k) /\ load[k] = "error" => \E m \in ToSet(down) : IsAnswer(m, k)

CurrentInv ==
  /\ KeysCurrent /\ BalancesCurrent /\ BalancesFirst /\ LoadsOK /\ SavesOK
  /\ AskedOnPage /\ FoundOK

LEMMA DisablingKeys == Disabling \subseteq Modules /\ Disabling \subseteq Stored
BY DEF Disabling, Modules, Stored, Keys

-----------------------------------------------------------------------------
(* Messages that are added at the end, and taken from the front.           *)

LEMMA SilentEnds ==
  ASSUME NEW s, NEW k, NEW u, NEW w, Silent(s, k, u)
  PROVE  EndsWith(s, k, u, w)
BY DEF Silent, EndsWith

LEMMA NothingSaid ==
  ASSUME NEW k, NEW u
  PROVE  Silent(<<>>, k, u)
BY DEF Silent

LEMMA OneSays ==
  ASSUME NEW m, NEW k, NEW u
  PROVE  /\ Silent(<<m>>, k, u) <=> ~About(m, k, u)
         /\ EndsWith(<<m>>, k, u, Says(m, k, u))
BY DEF Silent, EndsWith

LEMMA MoreEnds ==
  ASSUME NEW s, IsSeq(s), NEW t, IsSeq(t), NEW k, NEW u, NEW w,
         EndsWith(t, k, u, w), Silent(t, k, u) => EndsWith(s, k, u, w)
  PROVE  EndsWith(s \o t, k, u, w)
<1> DEFINE n == Len(s)
           r == s \o t
<1>1. /\ n \in Nat /\ Len(t) \in Nat /\ DOMAIN r = 1 .. n + Len(t)
      /\ DOMAIN s = 1 .. n /\ DOMAIN t = 1 .. Len(t)
      /\ \A i \in DOMAIN s : r[i] = s[i]
      /\ \A i \in DOMAIN t : r[i + n] = t[i]
      /\ \A i \in DOMAIN r : i \in DOMAIN s \/ i - n \in DOMAIN t
  BY BothHeld
<1> HIDE DEF n, r
<1> SUFFICES ASSUME NEW i \in DOMAIN r, About(r[i], k, u), Says(r[i], k, u) # w
             PROVE  \E j \in DOMAIN r : i < j /\ About(r[j], k, u)
  BY DEF EndsWith, r
<1>2. \A j \in DOMAIN t : j + n \in DOMAIN r
  BY <1>1
<1>3. CASE i \notin DOMAIN s
  <2>1. i - n \in DOMAIN t /\ (i - n) + n = i
    BY <1>1, <1>3
  <2>2. r[i] = t[i - n]
    BY <1>1, <2>1
  <2>3. PICK j \in DOMAIN t : i - n < j /\ About(t[j], k, u)
    BY <2>1, <2>2 DEF EndsWith
  <2>4. i < j + n
    BY <1>1, <2>3
  <2>5. About(r[j + n], k, u)
    BY <1>1, <2>3
  <2> QED BY <1>2, <2>4, <2>5
<1>4. CASE i \in DOMAIN s /\ Silent(t, k, u)
  <2>1. PICK j \in DOMAIN s : i < j /\ About(s[j], k, u)
    BY <1>1, <1>4 DEF EndsWith
  <2>2. j \in DOMAIN r
    BY <1>1
  <2> QED BY <1>1, <2>1, <2>2
<1>5. CASE i \in DOMAIN s /\ ~Silent(t, k, u)
  <2>1. PICK j \in DOMAIN t : About(t[j], k, u)
    BY <1>5 DEF Silent
  <2>2. i < j + n
    BY <1>1, <1>5
  <2>3. About(r[j + n], k, u)
    BY <1>1, <2>1
  <2> QED BY <1>2, <2>2, <2>3
<1> QED BY <1>3, <1>4, <1>5

LEMMA MoreSilent ==
  ASSUME NEW s, IsSeq(s), NEW t, IsSeq(t), NEW k, NEW u
  PROVE  Silent(s \o t, k, u) <=> Silent(s, k, u) /\ Silent(t, k, u)
<1> DEFINE n == Len(s)
           r == s \o t
<1>1. /\ n \in Nat /\ Len(t) \in Nat /\ DOMAIN r = 1 .. n + Len(t)
      /\ DOMAIN s = 1 .. n /\ DOMAIN t = 1 .. Len(t)
      /\ \A i \in DOMAIN s : r[i] = s[i]
      /\ \A i \in DOMAIN t : r[i + n] = t[i]
      /\ \A i \in DOMAIN r : i \in DOMAIN s \/ i - n \in DOMAIN t
  BY BothHeld
<1> HIDE DEF n, r
<1>2. \A i \in DOMAIN s : i \in DOMAIN r
  BY <1>1
<1>3. \A i \in DOMAIN t : i + n \in DOMAIN r
  BY <1>1
<1>4. \A i \in DOMAIN r : i \in DOMAIN s \/ (i - n \in DOMAIN t /\ r[i] = t[i - n])
  <2> SUFFICES ASSUME NEW i \in DOMAIN r, i \notin DOMAIN s
               PROVE  i - n \in DOMAIN t /\ r[i] = t[i - n]
    OBVIOUS
  <2>1. i - n \in DOMAIN t /\ (i - n) + n = i
    BY <1>1
  <2> QED BY <1>1, <2>1
<1>5. Silent(r, k, u) <=> Silent(s, k, u) /\ Silent(t, k, u)
  <2>1. Silent(r, k, u) => Silent(s, k, u)
    BY <1>1, <1>2 DEF Silent
  <2>2. Silent(r, k, u) => Silent(t, k, u)
    BY <1>1, <1>3 DEF Silent
  <2>3. Silent(s, k, u) /\ Silent(t, k, u) => Silent(r, k, u)
    BY <1>1, <1>4 DEF Silent
  <2> QED BY <2>1, <2>2, <2>3
<1> QED BY <1>5 DEF r

LEMMA TailEnds ==
  ASSUME NEW s, IsSeq(s), s # <<>>, NEW k, NEW u, NEW w, EndsWith(s, k, u, w)
  PROVE  /\ EndsWith(Tail(s), k, u, w)
         /\ About(Head(s), k, u) /\ Silent(Tail(s), k, u) => Says(Head(s), k, u) = w
         /\ ~About(Head(s), k, u) /\ Silent(Tail(s), k, u) => Silent(s, k, u)
<1> DEFINE r == Tail(s)
<1>1. /\ Head(s) = s[1] /\ Len(s) \in Nat \ {0} /\ DOMAIN s = 1 .. Len(s)
      /\ DOMAIN r = 1 .. Len(s) - 1
      /\ \A i \in DOMAIN r : i + 1 \in DOMAIN s /\ r[i] = s[i + 1]
  BY HeadHeld
<1> HIDE DEF r
<1>2. ASSUME NEW j \in DOMAIN s, j # 1
      PROVE  j - 1 \in DOMAIN r /\ r[j - 1] = s[j]
  <2>1. j - 1 \in DOMAIN r /\ (j - 1) + 1 = j
    BY <1>1, <1>2
  <2> QED BY <1>1, <2>1
<1>3. EndsWith(r, k, u, w)
  <2> SUFFICES ASSUME NEW i \in DOMAIN r, About(r[i], k, u), Says(r[i], k, u) # w
               PROVE  \E j \in DOMAIN r : i < j /\ About(r[j], k, u)
    BY DEF EndsWith
  <2>1. PICK j \in DOMAIN s : i + 1 < j /\ About(s[j], k, u)
    BY <1>1 DEF EndsWith
  <2>2. j # 1 /\ i < j - 1
    BY <1>1, <2>1
  <2> QED BY <1>2, <2>1, <2>2
<1>4. About(Head(s), k, u) /\ Silent(r, k, u) => Says(Head(s), k, u) = w
  <2> SUFFICES ASSUME About(s[1], k, u), Silent(r, k, u), Says(s[1], k, u) # w
               PROVE  FALSE
    BY <1>1
  <2>1. 1 \in DOMAIN s
    BY <1>1
  <2>2. PICK j \in DOMAIN s : 1 < j /\ About(s[j], k, u)
    BY <2>1 DEF EndsWith
  <2> QED BY <1>2, <2>2 DEF Silent
<1>5. ~About(Head(s), k, u) /\ Silent(r, k, u) => Silent(s, k, u)
  BY <1>1, <1>2 DEF Silent
<1> QED BY <1>3, <1>4, <1>5 DEF r

-----------------------------------------------------------------------------
(* The hub answers, and pushes what is written.                            *)

\* r is answered by one of the messages.
Answers(messages, r) ==
  /\ r.op = "get" => \E m \in ToSet(messages) : m.is = "value" /\ m.key = r.key
  /\ r.op = "put" /\ r.then = "nothing" => \E m \in ToSet(messages) : IsAnswer(m, r.key)

\* What it says of k is what is stored now; if it says nothing, that is what
\* was stored before, or k is not followed.
SaysStored(messages, k, u, old, new) ==
  Followed(k)' =>
    /\ EndsWith(messages, k, u, new)
    /\ Silent(messages, k, u) => Followed(k) /\ new = old

\* A read says what is stored of the key of a form, and what is stored stays
\* as it is, or is another client's, or its writer is answered.
ToldOf(messages, k) ==
  /\ \A m \in ToSet(messages) : m.is = "value" /\ m.key = k => m.value = db'[k]
  /\ \/ db'[k] = db[k]
     \/ db'[k] \in {absent, Theirs}
     \/ \E m \in ToSet(messages) : IsAnswer(m, k)

Tells(messages) ==
  /\ IsSeq(messages) /\ down' = down \o messages
  /\ UNCHANGED <<conn, copy, status, view>>
  /\ up' = up \/ (up # <<>> /\ up' = Tail(up) /\ Answers(messages, Head(up)))
  /\ "points" \in held' =>
       "points" \in held \/ (up # <<>> /\ Head(up).op = "sub" /\ Head(up).key = "points")
  /\ (\E m \in ToSet(messages) : m.is = "points") => "points" \in held
  /\ \A k \in Modules : SaysStored(messages, k, null, db[k], db'[k])
  /\ \A u \in Users :
       SaysStored(messages, "points", u, db["points"][u], db'["points"][u])
  /\ Followed("points")' =>
       Followed("points") \/ \E m \in ToSet(messages) : IsBalances(m)
  /\ \A k \in Disabling : ToldOf(messages, k)

LEMMA TellsKeys ==
  ASSUME Inv, KeysCurrent, NEW messages, Tells(messages)
  PROVE  KeysCurrent'
<1> SUFFICES ASSUME NEW k \in Modules, Followed(k)'
             PROVE  /\ EndsWith(down', k, null, db'[k])
                    /\ Silent(down', k, null) =>
                         k \in drafts' \/ copies'[k] = db'[k] \/ db'[k] = absent
  BY DEF KeysCurrent
<1>1. /\ IsSeq(messages) /\ IsSeq(down) /\ down' = down \o messages
      /\ drafts' = drafts /\ copies' = copies
  BY DEF Tells, copy, Inv, MessagesOK, IsSeq
<1>2. /\ EndsWith(messages, k, null, db'[k])
      /\ Silent(messages, k, null) => Followed(k) /\ db'[k] = db[k]
  BY DEF Tells, SaysStored
<1>3. Silent(messages, k, null) => EndsWith(down, k, null, db'[k])
  BY <1>2 DEF KeysCurrent
<1>4. EndsWith(down', k, null, db'[k])
  BY <1>1, <1>2, <1>3, MoreEnds
<1>5. Silent(down', k, null) => Silent(down, k, null) /\ Silent(messages, k, null)
  BY <1>1, MoreSilent
<1> QED BY <1>1, <1>2, <1>4, <1>5 DEF KeysCurrent

LEMMA TellsBalances ==
  ASSUME Inv, BalancesCurrent, NEW messages, Tells(messages)
  PROVE  BalancesCurrent'
<1> SUFFICES ASSUME Followed("points")'
             PROVE  /\ copies'["points"] = null => \E m \in ToSet(down') : IsBalances(m)
                    /\ \A u \in Users :
                         /\ EndsWith(down', "points", u, db'["points"][u])
                         /\ Silent(down', "points", u) =>
                              /\ copies'["points"] # null
                              /\ copies'["points"][u] = db'["points"][u]
  BY DEF BalancesCurrent, IsBalances
<1>1. /\ IsSeq(messages) /\ IsSeq(down) /\ down' = down \o messages
      /\ copies' = copies
  BY DEF Tells, copy, Inv, MessagesOK, IsSeq
<1>2. ToSet(down') = ToSet(down) \union ToSet(messages)
  BY <1>1, BothHeld
<1>3. copies'["points"] = null => \E m \in ToSet(down') : IsBalances(m)
  BY <1>1, <1>2 DEF Tells, BalancesCurrent
<1>4. ASSUME NEW u \in Users
      PROVE  /\ EndsWith(down', "points", u, db'["points"][u])
             /\ Silent(down', "points", u) =>
                  /\ copies'["points"] # null
                  /\ copies'["points"][u] = db'["points"][u]
  <2>1. /\ EndsWith(messages, "points", u, db'["points"][u])
        /\ Silent(messages, "points", u) =>
             Followed("points") /\ db'["points"][u] = db["points"][u]
    BY DEF Tells, SaysStored
  <2>2. Silent(messages, "points", u) => EndsWith(down, "points", u, db'["points"][u])
    BY <2>1 DEF BalancesCurrent
  <2>3. EndsWith(down', "points", u, db'["points"][u])
    BY <1>1, <2>1, <2>2, MoreEnds
  <2>4. Silent(down', "points", u) =>
          Silent(down, "points", u) /\ Silent(messages, "points", u)
    BY <1>1, MoreSilent
  <2> QED BY <1>1, <2>1, <2>3, <2>4 DEF BalancesCurrent
<1> QED BY <1>3, <1>4

LEMMA TellsFirst ==
  ASSUME Inv, BalancesFirst, NEW messages, Tells(messages)
  PROVE  BalancesFirst'
<1> SUFFICES ASSUME copies'["points"] = null
             PROVE  /\ "points" \in held' => \E m \in ToSet(down') : IsBalances(m)
                    /\ \A i \in DOMAIN down' : down'[i].is = "points" =>
                         \E j \in DOMAIN down' : j < i /\ IsBalances(down'[j])
                    /\ \A i \in DOMAIN up' : up'[i].op = "sub" /\ up'[i].key = "points" =>
                         \/ \E m \in ToSet(down') : IsBalances(m)
                         \/ \E j \in DOMAIN up' : j < i /\ AsksFor(up'[j], "points")
  BY DEF BalancesFirst, IsBalances, AsksFor
<1>1. IsSeq(messages) /\ IsSeq(down) /\ IsSeq(up) /\ down' = down \o messages
  BY DEF Tells, Inv, MessagesOK, RequestsOK, IsSeq
<1>2. copies["points"] = null
  BY DEF Tells, copy
<1>3. ToSet(down') = ToSet(down) \union ToSet(messages)
  BY <1>1, BothHeld
<1>4. "points" \in held' => \E m \in ToSet(down') : IsBalances(m)
  <2>1. CASE "points" \in held
    BY <1>2, <1>3, <2>1 DEF BalancesFirst
  <2>2. CASE up # <<>> /\ Head(up).op = "sub" /\ Head(up).key = "points"
    <3>1. 1 \in DOMAIN up /\ Head(up) = up[1] /\ DOMAIN up \subseteq Nat \ {0}
      BY <1>1, <2>2, HeadHeld
    <3>2. ~\E j \in DOMAIN up : j < 1
      BY <3>1
    <3> QED BY <1>2, <1>3, <2>2, <3>1, <3>2 DEF BalancesFirst
  <2> QED BY <2>1, <2>2 DEF Tells
<1>5. ASSUME NEW i \in DOMAIN down', down'[i].is = "points"
      PROVE  \E j \in DOMAIN down' : j < i /\ IsBalances(down'[j])
  <2> DEFINE n == Len(down)
             r == down'
  <2>1. /\ n \in Nat /\ Len(messages) \in Nat /\ DOMAIN r = 1 .. n + Len(messages)
        /\ DOMAIN down = 1 .. n /\ DOMAIN messages = 1 .. Len(messages)
        /\ \A j \in DOMAIN down : r[j] = down[j]
        /\ \A j \in DOMAIN messages : r[j + n] = messages[j]
        /\ \A j \in DOMAIN r : j \in DOMAIN down \/ j - n \in DOMAIN messages
    BY <1>1, BothHeld
  <2> HIDE DEF n
  <2>2. \E j \in DOMAIN down : j < i /\ IsBalances(down[j])
    <3>1. CASE i \in DOMAIN down
      BY <1>2, <1>5, <2>1, <3>1 DEF BalancesFirst
    <3>2. CASE i \notin DOMAIN down
      <4>1. i - n \in DOMAIN messages /\ (i - n) + n = i
        BY <2>1, <3>2
      <4>2. r[i] = messages[i - n]
        BY <2>1, <4>1
      <4>3. \E m \in ToSet(messages) : m.is = "points"
        BY <1>5, <4>1, <4>2 DEF ToSet
      <4>4. PICK m \in ToSet(down) : IsBalances(m)
        BY <1>2, <4>3 DEF Tells, BalancesFirst
      <4>5. PICK j \in DOMAIN down : down[j] = m
        BY <4>4 DEF ToSet
      <4>6. j < i
        BY <2>1, <3>2
      <4> QED BY <4>4, <4>5, <4>6
    <3> QED BY <3>1, <3>2
  <2>3. \A j \in DOMAIN down : j \in DOMAIN r
    BY <2>1
  <2> QED BY <2>1, <2>2, <2>3
<1>6. ASSUME NEW i \in DOMAIN up', up'[i].op = "sub", up'[i].key = "points"
      PROVE  \/ \E m \in ToSet(down') : IsBalances(m)
             \/ \E j \in DOMAIN up' : j < i /\ AsksFor(up'[j], "points")
  <2>1. CASE up' = up
    BY <1>2, <1>3, <1>6, <2>1 DEF BalancesFirst
  <2>2. CASE up # <<>> /\ up' = Tail(up) /\ Answers(messages, Head(up))
    <3>1. /\ Head(up) = up[1] /\ Len(up) \in Nat \ {0} /\ DOMAIN up = 1 .. Len(up)
          /\ DOMAIN up' = 1 .. Len(up) - 1
          /\ \A j \in DOMAIN up' : j + 1 \in DOMAIN up /\ up'[j] = up[j + 1]
      BY <1>1, <2>2, HeadHeld
    <3>2. CASE \E m \in ToSet(down) : IsBalances(m)
      BY <1>3, <3>2
    <3>3. ASSUME NEW j \in DOMAIN up, j < i + 1, AsksFor(up[j], "points")
          PROVE  \/ \E m \in ToSet(down') : IsBalances(m)
                 \/ \E l \in DOMAIN up' : l < i /\ AsksFor(up'[l], "points")
      <4>1. CASE j = 1
        BY <1>3, <2>2, <3>1, <3>3, <4>1 DEF Answers, AsksFor, IsBalances
      <4>2. CASE j # 1
        <5>1. j - 1 \in DOMAIN up' /\ j - 1 < i /\ (j - 1) + 1 = j
          BY <3>1, <3>3, <4>2
        <5>2. up'[j - 1] = up[j]
          BY <3>1, <5>1
        <5> QED BY <3>3, <5>1, <5>2
      <4> QED BY <4>1, <4>2
    <3>4. i + 1 \in DOMAIN up /\ up[i + 1].op = "sub" /\ up[i + 1].key = "points"
      BY <1>6, <3>1
    <3> QED BY <1>2, <3>2, <3>3, <3>4 DEF BalancesFirst
  <2> QED BY <2>1, <2>2 DEF Tells
<1> QED BY <1>4, <1>5, <1>6

LEMMA TellsPending ==
  ASSUME Inv, LoadsOK, SavesOK, NEW messages, Tells(messages)
  PROVE  LoadsOK' /\ SavesOK'
<1>1. ToSet(down') = ToSet(down) \union ToSet(messages)
  BY BothHeld DEF Tells, Inv, MessagesOK, IsSeq
<1>2. \A r \in ToSet(up) : r \in ToSet(up') \/ Answers(messages, r)
  <2>1. CASE up' = up
    BY <2>1
  <2>2. CASE up # <<>> /\ up' = Tail(up) /\ Answers(messages, Head(up))
    <3>1. ToSet(up) = ToSet(up') \union {Head(up)}
      BY <2>2, HeadHeld DEF Inv, RequestsOK, IsSeq
    <3> QED BY <2>2, <3>1
  <2> QED BY <2>1, <2>2 DEF Tells
<1>3. ASSUME NEW k PROVE Loading(k) => Loading(k)'
  BY <1>1, <1>2 DEF Loading, AsksFor, Answers
<1>4. ASSUME NEW k PROVE Saving(k) => Saving(k)'
  BY <1>1, <1>2 DEF Saving, Saves, IsAnswer, Answers
<1>5. ASSUME NEW k PROVE OnItsPage(k) => OnItsPage(k)'
  BY DEF OnItsPage, Here, Tells, view
<1> QED BY <1>3, <1>4, <1>5 DEF LoadsOK, SavesOK, Tells, status, view

LEMMA TellsForms ==
  ASSUME Inv, AskedOnPage, FoundOK, NEW messages, Tells(messages)
  PROVE  AskedOnPage' /\ FoundOK'
<1>1. \A k : OnItsPage(k)' <=> OnItsPage(k)
  BY DEF OnItsPage, Here, Tells, view
<1>2. load' = load
  BY DEF Tells, status
<1>3. AskedOnPage'
  BY <1>1, <1>2 DEF AskedOnPage
<1>4. ASSUME NEW k \in Disabling, db'[k] \notin {absent, Theirs}
      PROVE  /\ \A i \in DOMAIN down' : IsNothing(down'[i], k) =>
                  \E j \in DOMAIN down' : i < j /\ IsAnswer(down'[j], k)
             /\ OnItsPage(k)' /\ load'[k] = "error" => \E m \in ToSet(down') : IsAnswer(m, k)
  <2> DEFINE n == Len(down)
             r == down'
  <2>0. IsSeq(messages) /\ IsSeq(down) /\ down' = down \o messages
    BY DEF Tells, Inv, MessagesOK, IsSeq
  <2>1. /\ n \in Nat /\ Len(messages) \in Nat /\ DOMAIN r = 1 .. n + Len(messages)
        /\ DOMAIN down = 1 .. n /\ DOMAIN messages = 1 .. Len(messages)
        /\ \A j \in DOMAIN down : r[j] = down[j]
        /\ \A j \in DOMAIN messages : r[j + n] = messages[j]
        /\ \A j \in DOMAIN r : j \in DOMAIN down \/ j - n \in DOMAIN messages
        /\ ToSet(r) = ToSet(down) \union ToSet(messages)
    BY <2>0, BothHeld
  <2> HIDE DEF n
  <2>2. ToldOf(messages, k)
    BY DEF Tells
  <2>3. ASSUME NEW i \in DOMAIN r, IsNothing(r[i], k) PROVE i \in DOMAIN down
    <3> SUFFICES ASSUME i \notin DOMAIN down PROVE FALSE
      OBVIOUS
    <3>1. i - n \in DOMAIN messages /\ (i - n) + n = i
      BY <2>1
    <3>2. r[i] = messages[i - n] /\ messages[i - n] \in ToSet(messages)
      BY <2>1, <3>1 DEF ToSet
    <3> QED BY <1>4, <2>2, <2>3, <3>2 DEF ToldOf, IsNothing
  <2>4. CASE \E m \in ToSet(messages) : IsAnswer(m, k)
    <3>1. PICK l \in DOMAIN messages : IsAnswer(messages[l], k)
      BY <2>4 DEF ToSet
    <3>2. l + n \in DOMAIN r /\ IsAnswer(r[l + n], k) /\ \A i \in DOMAIN down : i < l + n
      BY <2>1, <3>1
    <3> QED BY <2>1, <2>3, <2>4, <3>2
  <2>5. CASE db'[k] = db[k]
    <3>1. \A j \in DOMAIN down : j \in DOMAIN r
      BY <2>1
    <3>2. ASSUME NEW i \in DOMAIN r, IsNothing(r[i], k)
          PROVE  \E j \in DOMAIN r : i < j /\ IsAnswer(r[j], k)
      <4>1. i \in DOMAIN down /\ IsNothing(down[i], k)
        BY <2>1, <2>3, <3>2
      <4>2. PICK j \in DOMAIN down : i < j /\ IsAnswer(down[j], k)
        BY <1>4, <2>5, <4>1 DEF FoundOK
      <4> QED BY <2>1, <3>1, <4>2
    <3>3. OnItsPage(k)' /\ load'[k] = "error" => \E m \in ToSet(r) : IsAnswer(m, k)
      BY <1>1, <1>2, <1>4, <2>1, <2>5 DEF FoundOK
    <3> QED BY <3>2, <3>3
  <2> QED BY <1>4, <2>2, <2>4, <2>5 DEF ToldOf
<1>5. FoundOK'
  BY <1>4 DEF FoundOK, IsNothing, IsAnswer
<1> QED BY <1>3, <1>5

LEMMA TellsOK ==
  ASSUME Inv, CurrentInv, NEW messages, Tells(messages)
  PROVE  CurrentInv'
BY TellsKeys, TellsBalances, TellsFirst, TellsPending, TellsForms DEF CurrentInv

-----------------------------------------------------------------------------
(* The dashboard takes a message.                                          *)

\* A copy becomes what a message about it says, and stays what it was
\* without one.
HearsKey(m, k) ==
  IF About(m, k, null) THEN copies'[k] = m.value \/ m.value = absent
  ELSE copies'[k] = copies[k] /\ (k \in drafts => k \in drafts')
HearsBalance(m, u) ==
  IF About(m, "points", u)
  THEN copies'["points"] # null /\ copies'["points"][u] = Says(m, "points", u)
  ELSE copies["points"] # null =>
         copies'["points"] # null /\ copies'["points"][u] = copies["points"][u]

Takes(m) ==
  /\ down # <<>> /\ m = Head(down) /\ down' = Tail(down)
  /\ UNCHANGED <<hub, conn, page, hooks>>
  /\ \E reqs : /\ up' = up \o reqs /\ IsSeq(reqs)
               /\ \A r \in ToSet(reqs) : r.op # "sub"
  /\ \A k \in hooks \intersect Modules : HearsKey(m, k)
  /\ "points" \in hooks => \A u \in Users : HearsBalance(m, u)
  /\ copies'["points"] = null => copies["points"] = null /\ ~IsBalances(m)
  /\ \A k \in hooks \intersect Modules : load'[k] = "pending" =>
       \/ load[k] = "pending" /\ ~(m.is = "value" /\ m.key = k)
       \/ \E r \in ToSet(up') : AsksFor(r, k)
  /\ \A k \in Disabling : save'[k] = "pending" => save[k] = "pending" /\ ~IsAnswer(m, k)
  /\ \A k \in Disabling :
       /\ load'[k] = "none" => load[k] = "none"
       /\ load'[k] = "error" => (IsNothing(m, k) \/ load[k] = "error") /\ ~IsAnswer(m, k)

LEMMA TakesWire ==
  ASSUME Inv, NEW m, Takes(m)
  PROVE  /\ IsSeq(down) /\ IsSeq(down') /\ ToSet(down) = ToSet(down') \union {m}
         /\ ToSet(up) \subseteq ToSet(up')
         /\ \A k : Followed(k)' => Followed(k)
<1>1. IsSeq(down) /\ IsSeq(up)
  BY DEF Inv, MessagesOK, RequestsOK, IsSeq
<1>2. IsSeq(down') /\ ToSet(down) = ToSet(down') \union {m}
  BY <1>1, HeadHeld DEF Takes
<1>3. PICK reqs : up' = up \o reqs /\ IsSeq(reqs)
  BY DEF Takes
<1>4. ToSet(up) \subseteq ToSet(up')
  BY <1>1, <1>3, BothHeld
<1>5. \A k : Followed(k)' => Followed(k)
  BY <1>4 DEF Followed, AsksFor, Takes, hub
<1> QED BY <1>1, <1>2, <1>4, <1>5

LEMMA TakesKeys ==
  ASSUME Inv, KeysCurrent, NEW m, Takes(m)
  PROVE  KeysCurrent'
<1> SUFFICES ASSUME NEW k \in Modules, Followed(k)'
             PROVE  /\ EndsWith(down', k, null, db'[k])
                    /\ Silent(down', k, null) =>
                         k \in drafts' \/ copies'[k] = db'[k] \/ db'[k] = absent
  BY DEF KeysCurrent
<1>1. IsSeq(down) /\ Followed(k) /\ k \in hooks
  BY TakesWire DEF Followed
<1>2. down # <<>> /\ m = Head(down) /\ down' = Tail(down) /\ db' = db /\ HearsKey(m, k)
  BY <1>1 DEF Takes, hub
<1>3. /\ EndsWith(down, k, null, db[k])
      /\ Silent(down, k, null) => k \in drafts \/ copies[k] = db[k] \/ db[k] = absent
  BY <1>1 DEF KeysCurrent
<1>4. /\ EndsWith(down', k, null, db[k])
      /\ About(m, k, null) /\ Silent(down', k, null) => Says(m, k, null) = db[k]
      /\ ~About(m, k, null) /\ Silent(down', k, null) => Silent(down, k, null)
  BY <1>1, <1>2, <1>3, TailEnds
<1>5. Says(m, k, null) = m.value
  BY DEF Says, Modules
<1>6. CASE About(m, k, null)
  BY <1>2, <1>4, <1>5, <1>6 DEF HearsKey
<1>7. CASE ~About(m, k, null)
  BY <1>2, <1>3, <1>4, <1>7 DEF HearsKey
<1> QED BY <1>6, <1>7

LEMMA TakesBalances ==
  ASSUME Inv, BalancesCurrent, NEW m, Takes(m)
  PROVE  BalancesCurrent'
<1> SUFFICES ASSUME Followed("points")'
             PROVE  /\ copies'["points"] = null => \E n \in ToSet(down') : IsBalances(n)
                    /\ \A u \in Users :
                         /\ EndsWith(down', "points", u, db'["points"][u])
                         /\ Silent(down', "points", u) =>
                              /\ copies'["points"] # null
                              /\ copies'["points"][u] = db'["points"][u]
  BY DEF BalancesCurrent, IsBalances
<1>1. /\ IsSeq(down) /\ Followed("points") /\ "points" \in hooks
      /\ ToSet(down) = ToSet(down') \union {m}
  BY TakesWire DEF Followed
<1>2. down # <<>> /\ m = Head(down) /\ down' = Tail(down) /\ db' = db
  BY <1>1 DEF Takes, hub
<1>3. copies'["points"] = null => \E n \in ToSet(down') : IsBalances(n)
  BY <1>1 DEF Takes, BalancesCurrent
<1>4. ASSUME NEW u \in Users
      PROVE  /\ EndsWith(down', "points", u, db'["points"][u])
             /\ Silent(down', "points", u) =>
                  /\ copies'["points"] # null
                  /\ copies'["points"][u] = db'["points"][u]
  <2>1. HearsBalance(m, u)
    BY <1>1 DEF Takes
  <2>2. /\ EndsWith(down, "points", u, db["points"][u])
        /\ Silent(down, "points", u) =>
             copies["points"] # null /\ copies["points"][u] = db["points"][u]
    BY <1>1 DEF BalancesCurrent
  <2>3. /\ EndsWith(down', "points", u, db["points"][u])
        /\ About(m, "points", u) /\ Silent(down', "points", u) =>
             Says(m, "points", u) = db["points"][u]
        /\ ~About(m, "points", u) /\ Silent(down', "points", u) => Silent(down, "points", u)
    BY <1>1, <1>2, <2>2, TailEnds
  <2>4. CASE About(m, "points", u)
    BY <1>2, <2>1, <2>3, <2>4 DEF HearsBalance
  <2>5. CASE ~About(m, "points", u)
    BY <1>2, <2>1, <2>2, <2>3, <2>5 DEF HearsBalance
  <2> QED BY <2>4, <2>5
<1> QED BY <1>3, <1>4

LEMMA TakesFirst ==
  ASSUME Inv, BalancesFirst, NEW m, Takes(m)
  PROVE  BalancesFirst'
<1> SUFFICES ASSUME copies'["points"] = null
             PROVE  /\ "points" \in held' => \E n \in ToSet(down') : IsBalances(n)
                    /\ \A i \in DOMAIN down' : down'[i].is = "points" =>
                         \E j \in DOMAIN down' : j < i /\ IsBalances(down'[j])
                    /\ \A i \in DOMAIN up' : up'[i].op = "sub" /\ up'[i].key = "points" =>
                         \/ \E n \in ToSet(down') : IsBalances(n)
                         \/ \E j \in DOMAIN up' : j < i /\ AsksFor(up'[j], "points")
  BY DEF BalancesFirst, IsBalances, AsksFor
<1>1. /\ IsSeq(down) /\ ToSet(down) = ToSet(down') \union {m} /\ held' = held
      /\ copies["points"] = null /\ ~IsBalances(m)
  BY TakesWire DEF Takes, hub
<1>2. \A n \in ToSet(down) : IsBalances(n) => n \in ToSet(down')
  BY <1>1
<1>3. "points" \in held' => \E n \in ToSet(down') : IsBalances(n)
  BY <1>1, <1>2 DEF BalancesFirst
<1>4. ASSUME NEW i \in DOMAIN down', down'[i].is = "points"
      PROVE  \E j \in DOMAIN down' : j < i /\ IsBalances(down'[j])
  <2>1. /\ m = down[1] /\ Len(down) \in Nat \ {0} /\ DOMAIN down = 1 .. Len(down)
        /\ DOMAIN down' = 1 .. Len(down) - 1
        /\ \A j \in DOMAIN down' : j + 1 \in DOMAIN down /\ down'[j] = down[j + 1]
    BY <1>1, HeadHeld DEF Takes
  <2>2. i + 1 \in DOMAIN down /\ down[i + 1].is = "points"
    BY <1>4, <2>1
  <2>3. PICK j \in DOMAIN down : j < i + 1 /\ IsBalances(down[j])
    BY <1>1, <2>2 DEF BalancesFirst
  <2>4. j # 1
    BY <1>1, <2>1, <2>3
  <2>5. j - 1 \in DOMAIN down' /\ j - 1 < i /\ (j - 1) + 1 = j
    BY <2>1, <2>3, <2>4
  <2>6. down'[j - 1] = down[j]
    BY <2>1, <2>5
  <2> QED BY <2>3, <2>5, <2>6
<1>5. ASSUME NEW i \in DOMAIN up', up'[i].op = "sub", up'[i].key = "points"
      PROVE  \/ \E n \in ToSet(down') : IsBalances(n)
             \/ \E j \in DOMAIN up' : j < i /\ AsksFor(up'[j], "points")
  <2>1. PICK reqs : up' = up \o reqs /\ IsSeq(reqs) /\ \A r \in ToSet(reqs) : r.op # "sub"
    BY DEF Takes
  <2>2. IsSeq(up)
    BY DEF Inv, RequestsOK, IsSeq
  <2> DEFINE n == Len(up)
  <2>3. /\ n \in Nat /\ Len(reqs) \in Nat /\ DOMAIN up' = 1 .. n + Len(reqs)
        /\ DOMAIN up = 1 .. n /\ DOMAIN reqs = 1 .. Len(reqs)
        /\ \A j \in DOMAIN up : up'[j] = up[j]
        /\ \A j \in DOMAIN reqs : up'[j + n] = reqs[j]
        /\ \A j \in DOMAIN up' : j \in DOMAIN up \/ j - n \in DOMAIN reqs
    BY <2>1, <2>2, BothHeld
  <2> HIDE DEF n
  <2>4. i \in DOMAIN up
    <3> SUFFICES ASSUME i \notin DOMAIN up PROVE FALSE
      OBVIOUS
    <3>1. i - n \in DOMAIN reqs /\ (i - n) + n = i
      BY <2>3
    <3>2. up'[i] = reqs[i - n]
      BY <2>3, <3>1
    <3> QED BY <1>5, <2>1, <3>1, <3>2 DEF ToSet
  <2>5. \A j \in DOMAIN up : j \in DOMAIN up'
    BY <2>3
  <2>6. up[i].op = "sub" /\ up[i].key = "points"
    BY <1>5, <2>3, <2>4
  <2>7. \/ \E l \in ToSet(down) : IsBalances(l)
        \/ \E j \in DOMAIN up : j < i /\ AsksFor(up[j], "points")
    BY <1>1, <2>4, <2>6 DEF BalancesFirst
  <2>8. ASSUME NEW j \in DOMAIN up, j < i, AsksFor(up[j], "points")
        PROVE  \E l \in DOMAIN up' : l < i /\ AsksFor(up'[l], "points")
    BY <2>3, <2>5, <2>8
  <2> QED BY <1>2, <2>7, <2>8
<1> QED BY <1>3, <1>4, <1>5

LEMMA TakesPending ==
  ASSUME Inv, LoadsOK, SavesOK, NEW m, Takes(m)
  PROVE  LoadsOK' /\ SavesOK'
<1>1. ToSet(down) = ToSet(down') \union {m} /\ ToSet(up) \subseteq ToSet(up')
  BY TakesWire
<1>2. ASSUME NEW k, ~(m.is = "value" /\ m.key = k) PROVE Loading(k) => Loading(k)'
  BY <1>1, <1>2 DEF Loading, AsksFor
<1>3. ASSUME NEW k, ~IsAnswer(m, k) PROVE Saving(k) => Saving(k)'
  BY <1>1, <1>3 DEF Saving, Saves, IsAnswer
<1>4. ASSUME NEW k PROVE OnItsPage(k) => OnItsPage(k)'
  BY DEF OnItsPage, Here, Takes
<1>5. LoadsOK'
  <2> SUFFICES ASSUME NEW k \in hooks \intersect Modules, load'[k] = "pending"
               PROVE  Loading(k)'
    BY DEF LoadsOK, Takes
  <2>1. CASE load[k] = "pending" /\ ~(m.is = "value" /\ m.key = k)
    BY <1>2, <2>1 DEF LoadsOK
  <2>2. CASE \E r \in ToSet(up') : AsksFor(r, k)
    BY <2>2 DEF Loading, AsksFor
  <2> QED BY <2>1, <2>2 DEF Takes
<1>6. SavesOK'
  <2> SUFFICES ASSUME NEW k \in Disabling, save'[k] = "pending"
               PROVE  OnItsPage(k)' /\ Saving(k)'
    BY DEF SavesOK
  <2> QED BY <1>3, <1>4 DEF SavesOK, Takes
<1> QED BY <1>5, <1>6

LEMMA TakesForms ==
  ASSUME Inv, AskedOnPage, FoundOK, NEW m, Takes(m)
  PROVE  AskedOnPage' /\ FoundOK'
<1>1. \A k : OnItsPage(k)' <=> OnItsPage(k)
  BY DEF OnItsPage, Here, Takes
<1>2. db' = db
  BY DEF Takes, hub
<1>3. /\ m = down[1] /\ Len(down) \in Nat \ {0} /\ DOMAIN down = 1 .. Len(down)
      /\ DOMAIN down' = 1 .. Len(down) - 1
      /\ \A j \in DOMAIN down' : j + 1 \in DOMAIN down /\ down'[j] = down[j + 1]
      /\ ToSet(down) = ToSet(down') \union {m}
  <2>1. IsSeq(down) /\ ToSet(down) = ToSet(down') \union {m}
    BY TakesWire
  <2>2. down # <<>> /\ m = Head(down) /\ down' = Tail(down)
    BY DEF Takes
  <2> QED BY <2>1, <2>2, HeadHeld
<1>4. AskedOnPage'
  BY <1>1 DEF AskedOnPage, Takes
<1>5. ASSUME NEW k \in Disabling, db[k] \notin {absent, Theirs}
      PROVE  /\ \A i \in DOMAIN down' : IsNothing(down'[i], k) =>
                  \E j \in DOMAIN down' : i < j /\ IsAnswer(down'[j], k)
             /\ OnItsPage(k)' /\ load'[k] = "error" => \E l \in ToSet(down') : IsAnswer(l, k)
  <2>1. ASSUME NEW i \in DOMAIN down, IsNothing(down[i], k)
        PROVE  \E j \in DOMAIN down : i < j /\ IsAnswer(down[j], k)
    BY <1>5, <2>1 DEF FoundOK
  <2>2. ASSUME NEW i \in DOMAIN down', IsNothing(down'[i], k)
        PROVE  \E j \in DOMAIN down' : i < j /\ IsAnswer(down'[j], k)
    <3>1. i + 1 \in DOMAIN down /\ IsNothing(down[i + 1], k)
      BY <1>3, <2>2
    <3>2. PICK j \in DOMAIN down : i + 1 < j /\ IsAnswer(down[j], k)
      BY <2>1, <3>1
    <3>3. j - 1 \in DOMAIN down' /\ i < j - 1 /\ (j - 1) + 1 = j
      BY <1>3, <2>2, <3>2
    <3>4. down'[j - 1] = down[j]
      BY <1>3, <3>3
    <3> QED BY <3>2, <3>3, <3>4
  <2>3. ASSUME IsNothing(m, k) PROVE \E l \in ToSet(down') : IsAnswer(l, k)
    <3>1. PICK j \in DOMAIN down : 1 < j /\ IsAnswer(down[j], k)
      BY <1>3, <2>1, <2>3
    <3>2. j - 1 \in DOMAIN down' /\ (j - 1) + 1 = j
      BY <1>3, <3>1
    <3>3. down'[j - 1] = down[j] /\ down'[j - 1] \in ToSet(down')
      BY <1>3, <3>2 DEF ToSet
    <3> QED BY <3>1, <3>3
  <2>4. ASSUME OnItsPage(k), load[k] = "error", ~IsAnswer(m, k)
        PROVE  \E l \in ToSet(down') : IsAnswer(l, k)
    <3>1. PICK l \in ToSet(down) : IsAnswer(l, k)
      BY <1>5, <2>4 DEF FoundOK
    <3> QED BY <1>3, <2>4, <3>1
  <2> QED BY <1>1, <2>2, <2>3, <2>4 DEF Takes
<1>6. FoundOK'
  BY <1>2, <1>5 DEF FoundOK, IsNothing, IsAnswer
<1> QED BY <1>4, <1>6

LEMMA TakesOK ==
  ASSUME Inv, CurrentInv, NEW m, Takes(m)
  PROVE  CurrentInv'
BY TakesKeys, TakesBalances, TakesFirst, TakesPending, TakesForms DEF CurrentInv

-----------------------------------------------------------------------------
(* Each step of the hub, and each write by others.                         *)

LEMMA StillFollowed ==
  ASSUME Inv, NEW k, Followed(k)', UNCHANGED hooks, k \in unheard => k \in unheard',
         up' = up \/ (up # <<>> /\ up' = Tail(up) /\ ~AsksFor(Head(up), k))
  PROVE  Followed(k)
<1>1. CASE up' = up
  BY <1>1 DEF Followed, AsksFor
<1>2. CASE up # <<>> /\ up' = Tail(up) /\ ~AsksFor(Head(up), k)
  <2>1. ToSet(up) = ToSet(up') \union {Head(up)}
    BY <1>2, HeadHeld DEF Inv, RequestsOK, IsSeq
  <2> QED BY <1>2, <2>1 DEF Followed, AsksFor
<1> QED BY <1>1, <1>2

LEMMA NothingNew ==
  ASSUME NEW messages, NEW k, NEW u, NEW old, NEW new, Silent(messages, k, u), new = old,
         Followed(k)' => Followed(k)
  PROVE  SaysStored(messages, k, u, old, new)
BY SilentEnds DEF SaysStored

LEMMA PushSays ==
  ASSUME NEW k \in Stored \ {"points"}, NEW v
  PROVE  /\ IsSeq(Push(k, v)) /\ \A m \in ToSet(Push(k, v)) : m.is = "push"
         /\ EndsWith(Push(k, v), k, null, v)
         /\ Silent(Push(k, v), k, null) => k \notin held
         /\ \A key \in Keys \ {k} : \A u : Silent(Push(k, v), key, u)
<1> DEFINE m == [is |-> "push", key |-> k, value |-> v]
<1>1. About(m, k, null) /\ Says(m, k, null) = v /\ m.is = "push"
  BY DEF About, Says
<1>2. \A key \in Keys \ {k} : \A u : ~About(m, key, u)
  BY DEF About
<1> HIDE DEF m
<1>3. CASE k \in held
  <2>1. Push(k, v) = <<m>>
    BY <1>3 DEF Push, m
  <2> QED BY <1>1, <1>2, <2>1, OneHeld, OneSays
<1>4. CASE k \notin held
  <2>1. Push(k, v) = <<>>
    BY <1>4 DEF Push
  <2> QED BY <1>4, <2>1, NoneHeld, NothingSaid, SilentEnds
<1> QED BY <1>3, <1>4

LEMMA PointsPushSays ==
  ASSUME NEW u \in Users, NEW n
  PROVE  /\ IsSeq(PointsPush(u, n))
         /\ \A m \in ToSet(PointsPush(u, n)) : m.is = "points" /\ "points" \in held
         /\ EndsWith(PointsPush(u, n), "points", u, n)
         /\ Silent(PointsPush(u, n), "points", u) => "points" \notin held
         /\ \A other \in Users \ {u} : Silent(PointsPush(u, n), "points", other)
         /\ \A k \in Modules : \A other : Silent(PointsPush(u, n), k, other)
<1> DEFINE m == [is |-> "points", user |-> u, value |-> n]
<1>1. About(m, "points", u) /\ Says(m, "points", u) = n /\ m.is = "points"
  BY DEF About, Says
<1>2. /\ \A other \in Users \ {u} : ~About(m, "points", other)
      /\ \A k \in Modules : \A other : ~About(m, k, other)
  BY DEF About, Modules
<1> HIDE DEF m
<1>3. CASE "points" \in held
  <2>1. PointsPush(u, n) = <<m>>
    BY <1>3 DEF PointsPush, m
  <2> QED BY <1>1, <1>2, <1>3, <2>1, OneHeld, OneSays
<1>4. CASE "points" \notin held
  <2>1. PointsPush(u, n) = <<>>
    BY <1>4 DEF PointsPush
  <2> QED BY <1>4, <2>1, NoneHeld, NothingSaid, SilentEnds
<1> QED BY <1>3, <1>4

\* A write of one key, pushed if anybody holds it.
LEMMA WriteTells ==
  ASSUME Inv, NEW k \in Stored \ {"points"}, NEW v, Write(k, v),
         NEW messages, IsSeq(messages), down' = down \o messages,
         \A m \in ToSet(messages) : m.is \in {"push", "stored"},
         k \in Disabling => v = Theirs \/ \E m \in ToSet(messages) : IsAnswer(m, k),
         EndsWith(messages, k, null, v), Silent(messages, k, null) => k \notin held,
         \A key \in Keys \ {k} : \A u : Silent(messages, key, u),
         up' = up \/ (up # <<>> /\ up' = Tail(up) /\ Head(up).op # "get"
                        /\ Answers(messages, Head(up))),
         UNCHANGED <<held, conn, copy, status, view>>
  PROVE  Tells(messages)
<1>1. /\ DOMAIN db = Stored /\ db'[k] = v
      /\ \A key \in Stored \ {k} : db'[key] = db[key]
      /\ unheard \subseteq unheard' /\ (k \notin held => k \in unheard')
  BY DEF Write, Inv, TypeOK
<1>2. ASSUME NEW key, Followed(key)' PROVE Followed(key)
  BY <1>1, <1>2, StillFollowed DEF AsksFor, view
<1>3. ASSUME NEW key \in Modules PROVE SaysStored(messages, key, null, db[key], db'[key])
  <2>1. CASE key = k
    <3>1. Followed(k)' => k \in held
      BY <1>1 DEF Followed
    <3> QED BY <1>1, <2>1, <3>1 DEF SaysStored
  <2>2. CASE key # k
    BY <1>1, <1>2, <2>2, NothingNew, TheKeys
  <2> QED BY <2>1, <2>2
<1>4. ASSUME NEW u \in Users
      PROVE  SaysStored(messages, "points", u, db["points"][u], db'["points"][u])
  BY <1>1, <1>2, NothingNew, TheKeys
<1>5. ASSUME NEW key \in Disabling PROVE ToldOf(messages, key)
  BY <1>1, DisablingKeys DEF ToldOf
<1>6. \A m \in ToSet(messages) : m.is # "points"
  OBVIOUS
<1> QED BY <1>2, <1>3, <1>4, <1>5, <1>6 DEF Tells

LEMMA HubGetTells ==
  ASSUME Inv, HubGet
  PROVE  \E messages : Tells(messages)
<1> DEFINE k == Head(up).key
           m == [is |-> "value", key |-> k, value |-> db[k]]
<1>1. /\ up # <<>> /\ up' = Tail(up) /\ Head(up).op = "get"
      /\ down' = Append(down, m) /\ unheard' = unheard \ {k}
      /\ UNCHANGED <<db, held, conn, copy, status, view>>
  BY DEF HubGet, Handling
<1>2. /\ m.is = "value" /\ m.key = k
      /\ About(m, k, null) /\ (k \in Modules => Says(m, k, null) = db[k])
      /\ \A u : About(m, "points", u) <=> k = "points"
      /\ k = "points" => \A u \in Users : Says(m, k, u) = db["points"][u]
      /\ \A key \in Modules \ {k} : ~About(m, key, null)
  BY TheKeys DEF About, Says, Modules
<1> HIDE DEF m
<1>3. IsSeq(<<m>>) /\ ToSet(<<m>>) = {m} /\ down' = down \o <<m>>
  BY <1>1, OneHeld, AppendHeld DEF Inv, MessagesOK, IsSeq
<1>4. Answers(<<m>>, Head(up))
  BY <1>1, <1>2, <1>3 DEF Answers
<1>5. ASSUME NEW key, key # k, Followed(key)' PROVE Followed(key)
  BY <1>1, <1>5, StillFollowed DEF AsksFor, view
<1>6. ASSUME NEW key \in Modules PROVE SaysStored(<<m>>, key, null, db[key], db'[key])
  <2>1. CASE key = k
    BY <1>1, <1>2, <2>1, OneSays DEF SaysStored
  <2>2. CASE key # k
    <3>1. Silent(<<m>>, key, null)
      BY <1>2, <2>2, OneSays
    <3> QED BY <1>1, <1>5, <2>2, <3>1, NothingNew
  <2> QED BY <2>1, <2>2
<1>7. ASSUME NEW u \in Users
      PROVE  SaysStored(<<m>>, "points", u, db["points"][u], db'["points"][u])
  <2>1. CASE k = "points"
    BY <1>1, <1>2, <2>1, OneSays DEF SaysStored
  <2>2. CASE k # "points"
    <3>1. Silent(<<m>>, "points", u)
      BY <1>2, <2>2, OneSays
    <3> QED BY <1>1, <1>5, <2>2, <3>1, NothingNew
  <2> QED BY <2>1, <2>2
<1>8. Followed("points")' => Followed("points") \/ IsBalances(m)
  BY <1>2, <1>5 DEF IsBalances
<1>9. ASSUME NEW key \in Disabling PROVE ToldOf(<<m>>, key)
  <2>1. key \in Modules /\ key # "points" /\ db' = db
    BY <1>1, DisablingKeys DEF Modules
  <2>2. m.key = key => m.value = db[key]
    BY <1>2, <2>1 DEF Says
  <2> QED BY <1>3, <2>1, <2>2 DEF ToldOf
<1>10. Tells(<<m>>)
  BY <1>1, <1>2, <1>3, <1>4, <1>6, <1>7, <1>8, <1>9 DEF Tells
<1> QED BY <1>10

LEMMA HubSubscribeTells ==
  ASSUME Inv, HubSubscribe \/ HubRemove
  PROVE  Tells(<<>>)
<1>1. /\ up # <<>> /\ up' = Tail(up) /\ Head(up).op \in {"sub", "unsub", "remove"}
      /\ UNCHANGED <<db, unheard, down, conn, copy, status, view>>
  BY DEF HubSubscribe, HubRemove, Handling
<1>2. /\ IsSeq(<<>>) /\ ToSet(<<>>) = {} /\ down \o <<>> = down
  BY NoneHeld DEF Inv, MessagesOK
<1>3. "points" \in held' =>
        "points" \in held \/ (Head(up).op = "sub" /\ Head(up).key = "points")
  BY DEF HubSubscribe, HubRemove, Handling
<1>4. Answers(<<>>, Head(up))
  BY <1>1 DEF Answers
<1>5. ASSUME NEW key, Followed(key)' PROVE Followed(key)
  BY <1>1, <1>5, StillFollowed DEF AsksFor, view
<1>6. ASSUME NEW key, NEW u, NEW w PROVE SaysStored(<<>>, key, u, w, w)
  BY <1>5, NothingSaid, NothingNew
<1>7. \A k : ToldOf(<<>>, k)
  BY <1>1, <1>2 DEF ToldOf
<1> QED BY <1>1, <1>2, <1>3, <1>4, <1>5, <1>6, <1>7 DEF Tells

LEMMA ThreeInARow ==
  ASSUME NEW s, IsSeq(s), NEW t, IsSeq(t), NEW r, IsSeq(r)
  PROVE  (s \o t) \o r = s \o (t \o r)
<1> DEFINE S == ToSet(s) \union ToSet(t) \union ToSet(r)
<1>1. s \in Seq(S) /\ t \in Seq(S) /\ r \in Seq(S)
  BY SeqMonotonic DEF IsSeq
<1> HIDE DEF S
<1> QED BY <1>1, ConcatAssociative

LEMMA HubPutTells ==
  ASSUME Inv, HubPut
  PROVE  \E messages : Tells(messages)
<1> DEFINE k == Head(up).key
           v == Head(up).value
           p == Push(k, v)
           m == [is |-> "stored", key |-> k, then |-> Head(up).then]
           q == <<m>>
<1>1. /\ up # <<>> /\ up' = Tail(up) /\ Head(up).op = "put" /\ Write(k, v)
      /\ down' \in {down \o p \o q, down \o q \o p}
      /\ UNCHANGED <<held, conn, copy, status, view>>
  BY DEF HubPut, Handling
<1>2. /\ k \in Stored \ {"points"} /\ (k \in Disabling => Head(up).then = "nothing")
  BY HandlingOK, TheKeys DEF HubPut, IsRequest, Handling
<1>3. /\ m.is = "stored" /\ (Head(up).then = "nothing" => IsAnswer(m, k))
      /\ \A key, u : ~About(m, key, u)
  BY DEF IsAnswer, About
<1>4. /\ IsSeq(p) /\ (\A n \in ToSet(p) : n.is = "push") /\ EndsWith(p, k, null, v)
      /\ Silent(p, k, null) => k \notin held
      /\ \A key \in Keys \ {k} : \A u : Silent(p, key, u)
  BY <1>2, PushSays
<1> HIDE DEF m, p, v, k
<1>5. IsSeq(q) /\ ToSet(q) = {m} /\ \A key, u : Silent(q, key, u)
  BY <1>3, OneHeld, OneSays
<1> HIDE DEF q
<1>6. ASSUME NEW messages, messages = p \o q \/ messages = q \o p,
             down' = down \o messages
      PROVE  Tells(messages)
  <2>1. IsSeq(messages) /\ ToSet(messages) = ToSet(p) \union {m}
    <3>0. IsSeq(p) /\ IsSeq(q) /\ ToSet(q) = {m}
      BY <1>4, <1>5
    <3>1. CASE messages = p \o q
      BY <3>0, <3>1, BothHeld
    <3>2. CASE messages = q \o p
      BY <3>0, <3>2, BothHeld
    <3> QED BY <1>6, <3>1, <3>2
  <2>2. ASSUME NEW key, NEW u
        PROVE  Silent(messages, key, u) <=> Silent(p, key, u)
    <3>1. CASE messages = p \o q
      BY <1>4, <1>5, <3>1, MoreSilent
    <3>2. CASE messages = q \o p
      BY <1>4, <1>5, <3>2, MoreSilent
    <3> QED BY <1>6, <3>1, <3>2
  <2>3. EndsWith(messages, k, null, v)
    <3>1. EndsWith(q, k, null, v)
      BY <1>5, SilentEnds
    <3> QED BY <1>4, <1>5, <1>6, <3>1, MoreEnds
  <2>4. Answers(messages, Head(up))
    BY <1>1, <1>3, <2>1 DEF Answers, k
  <2>5. /\ \A n \in ToSet(messages) : n.is \in {"push", "stored"}
        /\ k \in Disabling => \E n \in ToSet(messages) : IsAnswer(n, k)
    BY <1>2, <1>3, <1>4, <2>1
  <2> QED BY <1>1, <1>2, <1>4, <1>6, <2>1, <2>2, <2>3, <2>4, <2>5, WriteTells
<1>7. down' = down \o (p \o q) \/ down' = down \o (q \o p)
  <2>1. IsSeq(down) /\ IsSeq(p) /\ IsSeq(q)
    BY <1>4, <1>5 DEF Inv, MessagesOK, IsSeq
  <2>2. (down \o p) \o q = down \o (p \o q)
    BY <2>1, ThreeInARow
  <2>3. (down \o q) \o p = down \o (q \o p)
    BY <2>1, ThreeInARow
  <2> QED BY <1>1, <2>2, <2>3
<1> QED BY <1>6, <1>7

LEMMA HubPutPointsTells ==
  ASSUME Inv, HubPutPoints
  PROVE  \E messages : Tells(messages)
<1> DEFINE u == Head(up).user
           n == Head(up).value
           p == PointsPush(u, n)
<1>1. /\ up # <<>> /\ up' = Tail(up) /\ Head(up).op = "points" /\ down' = down \o p
      /\ Write("points", [db["points"] EXCEPT ![u] = n])
      /\ UNCHANGED <<held, conn, copy, status, view>>
  BY DEF HubPutPoints, Handling, WritePoints
<1>2. u \in Users
  BY HandlingOK DEF HubPutPoints, IsRequest, Handling
<1>3. /\ IsSeq(p) /\ \A m \in ToSet(p) : m.is = "points" /\ "points" \in held
      /\ EndsWith(p, "points", u, n) /\ (Silent(p, "points", u) => "points" \notin held)
      /\ \A other \in Users \ {u} : Silent(p, "points", other)
      /\ \A k \in Modules : \A other : Silent(p, k, other)
  BY <1>2, PointsPushSays
<1>4. /\ \A k \in Modules : db'[k] = db[k]
      /\ db'["points"] = [db["points"] EXCEPT ![u] = n]
      /\ unheard \subseteq unheard' /\ ("points" \notin held => "points" \in unheard')
  BY <1>1, TheKeys DEF Write, Inv, TypeOK
<1>5. db'["points"][u] = n /\ \A other \in Users \ {u} : db'["points"][other] = db["points"][other]
  BY <1>2, <1>4 DEF Inv, TypeOK
<1> HIDE DEF p, n, u
<1>6. ASSUME NEW key, Followed(key)' PROVE Followed(key)
  BY <1>1, <1>4, <1>6, StillFollowed DEF AsksFor, view
<1>7. ASSUME NEW k \in Modules PROVE SaysStored(p, k, null, db[k], db'[k])
  BY <1>3, <1>4, <1>6, NothingNew
<1>8. ASSUME NEW other \in Users
      PROVE  SaysStored(p, "points", other, db["points"][other], db'["points"][other])
  <2>1. CASE other = u
    <3>1. Followed("points")' => "points" \in held
      BY <1>4 DEF Followed
    <3> QED BY <1>3, <1>5, <2>1, <3>1 DEF SaysStored
  <2>2. CASE other # u
    BY <1>3, <1>5, <1>6, <2>2, NothingNew
  <2> QED BY <2>1, <2>2
<1>9. Answers(p, Head(up))
  BY <1>1 DEF Answers
<1>10. ASSUME NEW k \in Disabling PROVE ToldOf(p, k)
  BY <1>3, <1>4, DisablingKeys DEF ToldOf
<1>11. Tells(p)
  BY <1>1, <1>3, <1>6, <1>7, <1>8, <1>9, <1>10 DEF Tells
<1> QED BY <1>11

LEMMA ElsewhereTells ==
  ASSUME Inv, ElsewhereStep
  PROVE  \E messages : Tells(messages)
<1>1. PICK k \in Tables \union Disabling \union {"authKeys"} :
         \E v : (k \in Disabling => v = Theirs) /\ WrittenElsewhere(k, v)
  BY DEF ElsewhereStep
<1>2. PICK v : (k \in Disabling => v = Theirs) /\ WrittenElsewhere(k, v)
  BY <1>1
<1>3. k \in Stored \ {"points"}
  BY TablesKept, TheKeys, DisablingKeys
<1>4. /\ Write(k, v) /\ down' = down \o Push(k, v)
      /\ UNCHANGED <<held, up, conn, copy, status, view>>
  BY <1>2 DEF WrittenElsewhere
<1>5. \A m \in ToSet(Push(k, v)) : m.is \in {"push", "stored"}
  BY <1>3, PushSays
<1>6. Tells(Push(k, v))
  BY <1>2, <1>3, <1>4, <1>5, PushSays, WriteTells
<1> QED BY <1>6

LEMMA ManagerTells ==
  ASSUME Inv, ManagerRemoves
  PROVE  \E messages : Tells(messages)
<1>1. UNCHANGED <<held, up, conn, copy, status, view>>
  BY DEF ManagerRemoves
<1>2. CASE UNCHANGED <<db, unheard, down>>
  <2>1. /\ IsSeq(<<>>) /\ ToSet(<<>>) = {} /\ down \o <<>> = down
    BY NoneHeld DEF Inv, MessagesOK
  <2>2. ASSUME NEW key, Followed(key)' PROVE Followed(key)
    BY <1>1, <1>2, <2>2, StillFollowed DEF view
  <2>3. ASSUME NEW key, NEW u, NEW w PROVE SaysStored(<<>>, key, u, w, w)
    BY <2>2, NothingSaid, NothingNew
  <2>4. \A k : ToldOf(<<>>, k)
    BY <1>2, <2>1 DEF ToldOf
  <2>5. Tells(<<>>)
    BY <1>1, <1>2, <2>1, <2>2, <2>3, <2>4 DEF Tells
  <2> QED BY <2>5
<1>3. ASSUME NEW queue, Write(Queue, queue), down' = down \o Push(Queue, queue)
      PROVE  \E messages : Tells(messages)
  <2>1. Queue \in Stored \ {"points"}
    BY TheKeys
  <2>2. /\ \A m \in ToSet(Push(Queue, queue)) : m.is \in {"push", "stored"}
        /\ Queue \notin Disabling
    BY <2>1, PushSays DEF Queue, Disabling
  <2>3. Tells(Push(Queue, queue))
    BY <1>1, <1>3, <2>1, <2>2, PushSays, WriteTells
  <2> QED BY <2>3
<1> QED BY <1>2, <1>3 DEF ManagerRemoves

LEMMA ViewerTells ==
  ASSUME Inv, NEW r \in Redeems, ViewerRedeems(r)
  PROVE  \E messages : Tells(messages)
<1> DEFINE u == UserOf[r]
           n == db["points"][u] - Price[r]
           queue == Listed(db[Queue]) \union {r}
           p == Push(Queue, queue)
           q == PointsPush(u, n)
           messages == p \o q
<1>1. u \in Users /\ Queue \in Stored \ {"points"} /\ Queue \in Modules
  BY PointsAssumption, TheKeys
<1>2. /\ IsSeq(p) /\ (\A m \in ToSet(p) : m.is = "push") /\ EndsWith(p, Queue, null, queue)
      /\ Silent(p, Queue, null) => Queue \notin held
      /\ \A key \in Keys \ {Queue} : \A other : Silent(p, key, other)
  BY <1>1, PushSays
<1>3. /\ IsSeq(q) /\ \A m \in ToSet(q) : m.is = "points" /\ "points" \in held
      /\ EndsWith(q, "points", u, n) /\ (Silent(q, "points", u) => "points" \notin held)
      /\ \A other \in Users \ {u} : Silent(q, "points", other)
      /\ \A k \in Modules : \A other : Silent(q, k, other)
  BY <1>1, PointsPushSays
<1>4. /\ down' = (down \o p) \o q /\ unheard' = unheard \union ({Queue, "points"} \ held)
      /\ UNCHANGED <<held, up, conn, copy, status, view>>
  BY DEF ViewerRedeems
<1>5. db' = [db EXCEPT ![Queue] = queue, !["points"] = [db["points"] EXCEPT ![u] = n]]
  BY DEF ViewerRedeems, Queue
<1>6. /\ db'[Queue] = queue /\ \A k \in Modules \ {Queue} : db'[k] = db[k]
      /\ db'["points"] = [db["points"] EXCEPT ![u] = n]
  BY <1>1, <1>5, TheKeys DEF Inv, TypeOK
<1>7. db'["points"][u] = n /\ \A other \in Users \ {u} : db'["points"][other] = db["points"][other]
  BY <1>1, <1>6 DEF Inv, TypeOK
<1> HIDE DEF u, n, queue, p, q
<1>8. /\ IsSeq(messages) /\ ToSet(messages) = ToSet(p) \union ToSet(q)
      /\ down' = down \o messages
  BY <1>2, <1>3, <1>4, BothHeld, ThreeInARow DEF Inv, MessagesOK, IsSeq
<1>9. ASSUME NEW key, NEW other
      PROVE  Silent(messages, key, other) <=> Silent(p, key, other) /\ Silent(q, key, other)
  BY <1>2, <1>3, MoreSilent
<1>10. ASSUME NEW key, Followed(key)' PROVE Followed(key)
  BY <1>4, <1>10, StillFollowed DEF view
<1>11. Followed(Queue)' => Queue \in held
  BY <1>4 DEF Followed
<1>12. Followed("points")' => "points" \in held
  BY <1>4 DEF Followed
<1>13. EndsWith(messages, Queue, null, queue)
  <2>1. Silent(q, Queue, null) /\ EndsWith(q, Queue, null, queue)
    BY <1>1, <1>3, SilentEnds
  <2> QED BY <1>2, <1>3, <2>1, MoreEnds
<1>14. EndsWith(messages, "points", u, n)
  <2>1. Silent(p, "points", u) /\ EndsWith(p, "points", u, n)
    BY <1>1, <1>2, TheKeys, SilentEnds
  <2> QED BY <1>2, <1>3, <2>1, MoreEnds
<1> HIDE DEF messages
<1>15. ASSUME NEW k \in Modules PROVE SaysStored(messages, k, null, db[k], db'[k])
  <2>1. CASE k = Queue
    <3>1. Silent(messages, k, null) => Queue \notin held
      BY <1>2, <1>9, <2>1
    <3> QED BY <1>6, <1>11, <1>13, <2>1, <3>1 DEF SaysStored
  <2>2. CASE k # Queue
    <3>1. Silent(messages, k, null)
      BY <1>2, <1>3, <1>9, <2>2, TheKeys
    <3> QED BY <1>6, <1>10, <2>2, <3>1, NothingNew
  <2> QED BY <2>1, <2>2
<1>16. ASSUME NEW other \in Users
       PROVE  SaysStored(messages, "points", other, db["points"][other], db'["points"][other])
  <2>1. CASE other = u
    <3>1. Silent(messages, "points", other) => "points" \notin held
      BY <1>3, <1>9, <2>1
    <3> QED BY <1>7, <1>12, <1>14, <2>1, <3>1 DEF SaysStored
  <2>2. CASE other # u
    <3>1. Silent(messages, "points", other)
      BY <1>1, <1>2, <1>3, <1>9, <2>2, TheKeys
    <3> QED BY <1>7, <1>10, <2>2, <3>1, NothingNew
  <2> QED BY <2>1, <2>2
<1>17. (\E m \in ToSet(messages) : m.is = "points") => "points" \in held
  BY <1>2, <1>3, <1>8
<1>18. ASSUME NEW k \in Disabling PROVE ToldOf(messages, k)
  <2>1. k \in Modules \ {Queue}
    BY DisablingKeys DEF Queue, Disabling
  <2> QED BY <1>2, <1>3, <1>6, <1>8, <2>1 DEF ToldOf
<1>19. Tells(messages)
  BY <1>4, <1>8, <1>10, <1>15, <1>16, <1>17, <1>18 DEF Tells
<1> QED BY <1>19

-----------------------------------------------------------------------------
(* Each message that the dashboard takes.                                  *)

LEMMA NothingSent ==
  ASSUME Inv
  PROVE  up = up \o <<>> /\ IsSeq(<<>>) /\ \A r \in ToSet(<<>>) : r.op # "sub"
BY NoneHeld DEF Inv, RequestsOK

LEMMA GetsSent ==
  ASSUME Inv, NEW reqs, conn = "Connected", Send(reqs), IsSeq(reqs)
  PROVE  up' = up \o reqs /\ ToSet(up') = ToSet(up) \union ToSet(reqs)
<1>1. up' = up \o reqs
  BY DEF Send
<1> QED BY <1>1, BothHeld DEF Inv, RequestsOK, IsSeq

\* A message that leaves the copies as they are.
LEMMA CopyStays ==
  ASSUME NEW m, \A k \in Keys, u \in Users \union {null} : ~About(m, k, u), UNCHANGED copy
  PROVE  /\ \A k \in Modules : HearsKey(m, k)
         /\ \A u \in Users : HearsBalance(m, u)
BY TheKeys DEF HearsKey, HearsBalance, copy

LEMMA LoadedTakes ==
  ASSUME Inv, Loaded
  PROVE  Takes(Head(down))
<1> DEFINE m == Head(down)
           key == m.key
<1>1. /\ down # <<>> /\ m.is = "value" /\ key \in Modules /\ down' = Tail(down)
      /\ UNCHANGED <<hub, up, conn, save, page, hooks>>
  BY DEF Loaded, Receive, view
<1>2. \/ m.value # absent /\ copies' = [copies EXCEPT ![key] = m.value]
           /\ drafts' = drafts \ {key} /\ load' = [load EXCEPT ![key] = "success"]
      \/ m.value = absent /\ load' = [load EXCEPT ![key] = "error"] /\ UNCHANGED copy
  BY DEF Loaded
<1> HIDE DEF m
<1>3. \A k, u : About(m, k, u) <=> k = key
  BY <1>1 DEF About
<1>4. /\ DOMAIN copies = Keys /\ load \in [Modules -> Statuses] /\ Modules \subseteq Keys
      /\ "points" \in Keys \ Modules
  BY TheKeys DEF Inv, TypeOK
<1>5. ASSUME NEW k \in Modules PROVE HearsKey(m, k)
  BY <1>1, <1>2, <1>3, <1>4 DEF HearsKey, copy
<1>6. ASSUME NEW u \in Users PROVE HearsBalance(m, u)
  BY <1>1, <1>2, <1>3, <1>4 DEF HearsBalance, copy
<1>7. copies'["points"] = copies["points"] /\ ~IsBalances(m)
  BY <1>1, <1>2, <1>4 DEF IsBalances, copy
<1>8. ASSUME NEW k \in Modules, load'[k] = "pending" PROVE load[k] = "pending" /\ m.key # k
  BY <1>2, <1>4, <1>8
<1>9. \A k : ~IsAnswer(m, k)
  BY <1>1 DEF IsAnswer
<1>10. save' = save
  BY <1>1
<1>11. ASSUME NEW k \in Disabling
       PROVE  /\ load'[k] = "none" => load[k] = "none"
              /\ load'[k] = "error" => IsNothing(m, k) \/ load[k] = "error"
  BY <1>1, <1>2, <1>4, DisablingKeys DEF IsNothing
<1> QED BY <1>1, <1>5, <1>6, <1>7, <1>8, <1>9, <1>10, <1>11, NothingSent DEF Takes, m

LEMMA PushedTakes ==
  ASSUME Inv, Pushed
  PROVE  Takes(Head(down))
<1> DEFINE m == Head(down)
           key == m.key
<1>1. /\ down # <<>> /\ m.is = "push" /\ key \in Modules /\ down' = Tail(down)
      /\ UNCHANGED <<hub, up, conn, load, save, page, hooks>>
  BY DEF Pushed, Receive, view, status
<1>2. IF key \in hooks
      THEN copies' = [copies EXCEPT ![key] = m.value] /\ drafts' = drafts \ {key}
      ELSE UNCHANGED copy
  BY DEF Pushed
<1> HIDE DEF m
<1>3. \A k, u : About(m, k, u) <=> k = key
  BY <1>1 DEF About
<1>4. DOMAIN copies = Keys /\ Modules \subseteq Keys /\ "points" \in Keys \ Modules
  BY TheKeys DEF Inv, TypeOK
<1>5. ASSUME NEW k \in hooks \intersect Modules PROVE HearsKey(m, k)
  BY <1>1, <1>2, <1>3, <1>4 DEF HearsKey, copy
<1>6. copies'["points"] = copies["points"]
  BY <1>1, <1>2, <1>4 DEF copy
<1>7. ASSUME NEW u \in Users PROVE HearsBalance(m, u)
  BY <1>1, <1>3, <1>4, <1>6 DEF HearsBalance
<1>8. /\ ~IsBalances(m) /\ \A k : ~IsAnswer(m, k) /\ ~(m.is = "value" /\ m.key = k)
  BY <1>1 DEF IsAnswer, IsBalances
<1> QED BY <1>1, <1>5, <1>6, <1>7, <1>8, NothingSent DEF Takes, m

LEMMA PointsLoadedTakes ==
  ASSUME Inv, PointsLoaded
  PROVE  Takes(Head(down))
<1> DEFINE m == Head(down)
<1>1. /\ down # <<>> /\ m.is = "value" /\ m.key = "points" /\ down' = Tail(down)
      /\ copies' = [copies EXCEPT !["points"] = m.value]
      /\ UNCHANGED <<hub, up, conn, drafts, load, save, page, hooks>>
  BY DEF PointsLoaded, Receive, view, status
<1>2. m.value \in [Users -> Int] /\ m.value # null
  BY ReceiveOK, StoreAssumption DEF PointsLoaded, Receive, IsMessage, Fits
<1> HIDE DEF m
<1>3. \A k, u : About(m, k, u) <=> k = "points"
  BY <1>1 DEF About
<1>4. DOMAIN copies = Keys /\ Modules \subseteq Keys /\ "points" \in Keys \ Modules
  BY TheKeys DEF Inv, TypeOK
<1>5. ASSUME NEW k \in Modules PROVE HearsKey(m, k)
  BY <1>1, <1>3, <1>4 DEF HearsKey
<1>6. copies'["points"] = m.value
  BY <1>1, <1>4
<1>7. ASSUME NEW u \in Users PROVE HearsBalance(m, u)
  BY <1>1, <1>2, <1>3, <1>6 DEF HearsBalance, Says
<1>8. \A k \in Modules : ~(m.is = "value" /\ m.key = k)
  BY <1>1, <1>4
<1>9. \A k : ~IsAnswer(m, k)
  BY <1>1 DEF IsAnswer
<1> QED BY <1>1, <1>2, <1>5, <1>6, <1>7, <1>8, <1>9, NothingSent DEF Takes, m

LEMMA PointsPushedTakes ==
  ASSUME Inv, BalancesFirst, PointsPushed
  PROVE  Takes(Head(down))
<1> DEFINE m == Head(down)
           who == m.user
<1>1. /\ down # <<>> /\ m.is = "points" /\ down' = Tail(down)
      /\ IF "points" \in hooks /\ copies["points"] # null
         THEN copies' = [copies EXCEPT !["points"] = [copies["points"] EXCEPT ![who] = m.value]]
         ELSE UNCHANGED copies
      /\ UNCHANGED <<hub, up, conn, drafts, load, save, page, hooks>>
  BY DEF PointsPushed, Receive, view, status
<1>2. who \in Users /\ m.value \in Int
  BY ReceiveOK DEF PointsPushed, Receive, IsMessage
<1>3. copies["points"] # null
  <2> SUFFICES ASSUME copies["points"] = null PROVE FALSE
    OBVIOUS
  <2>1. m = down[1] /\ 1 \in DOMAIN down /\ DOMAIN down \subseteq Nat \ {0}
    BY <1>1, HeadHeld DEF Inv, MessagesOK, IsSeq
  <2>2. PICK j \in DOMAIN down : j < 1
    BY <1>1, <2>1 DEF BalancesFirst
  <2> QED BY <2>1, <2>2
<1> HIDE DEF m
<1>4. \A k, u : About(m, k, u) <=> k = "points" /\ u = who
  BY <1>1 DEF About
<1>5. /\ DOMAIN copies = Keys /\ Modules \subseteq Keys /\ "points" \in Keys \ Modules
      /\ copies["points"] \in [Users -> Int]
  BY <1>3, TheKeys DEF Inv, TypeOK
<1>6. ASSUME NEW k \in Modules PROVE HearsKey(m, k)
  BY <1>1, <1>4, <1>5 DEF HearsKey
<1>7. "points" \in hooks => copies'["points"] = [copies["points"] EXCEPT ![who] = m.value]
  BY <1>1, <1>3, <1>5
<1>8. "points" \in hooks =>
        /\ copies'["points"] \in [Users -> Int] /\ copies'["points"][who] = m.value
        /\ \A u \in Users \ {who} : copies'["points"][u] = copies["points"][u]
  BY <1>2, <1>5, <1>7
<1>9. "points" \in hooks => copies'["points"] # null
  BY <1>8, StoreAssumption
<1>10. ASSUME NEW u \in Users, "points" \in hooks PROVE HearsBalance(m, u)
  BY <1>1, <1>4, <1>8, <1>9, <1>10 DEF HearsBalance, Says
<1>11. copies'["points"] # null
  BY <1>1, <1>3, <1>9
<1>12. \A k : ~IsAnswer(m, k) /\ ~(m.is = "value" /\ m.key = k)
  BY <1>1 DEF IsAnswer
<1> QED BY <1>1, <1>6, <1>10, <1>11, <1>12, NothingSent DEF Takes, m

LEMMA AuthKeysTaken ==
  ASSUME Inv, AuthKeysPushed \/ AuthKeysRead
  PROVE  Takes(Head(down))
<1> DEFINE m == Head(down)
<1>1. /\ down # <<>> /\ m.is \in {"value", "push"} /\ m.key = "authKeys" /\ down' = Tail(down)
      /\ UNCHANGED <<hub, up, conn, copy, load, save, page, hooks>>
  BY DEF AuthKeysPushed, AuthKeysRead, Receive, status
<1> HIDE DEF m
<1>2. \A k \in Keys, u \in Users \union {null} : ~About(m, k, u)
  BY <1>1, TheKeys DEF About
<1>3. \A k \in Keys : m.key # k
  BY <1>1, TheKeys
<1>4. ~IsBalances(m) /\ \A k : ~IsAnswer(m, k)
  BY <1>1 DEF IsBalances, IsAnswer
<1>5. copies' = copies
  BY <1>1 DEF copy
<1> QED BY <1>1, <1>2, <1>3, <1>4, <1>5, CopyStays, NothingSent, TheKeys DEF Takes, m

\* The answer to a save: what awaited it asks for what was saved.
LEMMA SavedTaken ==
  ASSUME Inv, SetterAnswered \/ \E task \in tasks : BotSaved(task) \/ StepSaved(task)
  PROVE  Takes(Head(down))
<1> DEFINE m == Head(down)
<1>1. /\ down # <<>> /\ m.is = "stored" /\ down' = Tail(down)
      /\ UNCHANGED <<hub, conn, copy, page, hooks>>
  BY DEF SetterAnswered, BotSaved, StepSaved, Answered, Receive, view
<1>2. conn = "Connected"
  BY <1>1 DEF Inv, TypeOK, LinkOK
<1>3. \E reqs, k : /\ Send(reqs) /\ IsSeq(reqs) /\ (\A r \in ToSet(reqs) : r.op # "sub")
                   /\ \E r \in ToSet(reqs) : AsksFor(r, k)
                   /\ load' = [load EXCEPT ![k] = "pending"]
  <2>1. CASE SetterAnswered
    <3> DEFINE r == Get(m.key)
    <3>1. AsksFor(r, m.key) /\ r.op # "sub"
      BY DEF Get, AsksFor
    <3>2. Send(<<r>>) /\ load' = [load EXCEPT ![m.key] = "pending"]
      BY <2>1 DEF SetterAnswered
    <3> HIDE DEF m, r
    <3> QED BY <3>1, <3>2, OneHeld
  <2>2. ASSUME NEW task \in tasks, BotSaved(task) \/ StepSaved(task)
        PROVE  \E reqs, k :
                 /\ Send(reqs) /\ IsSeq(reqs) /\ (\A r \in ToSet(reqs) : r.op # "sub")
                 /\ \E r \in ToSet(reqs) : AsksFor(r, k)
                 /\ load' = [load EXCEPT ![k] = "pending"]
    <3>1. PICK k : /\ load' = [load EXCEPT ![k] = "pending"]
                   /\ \/ Send(<<Get(k)>>)
                      \/ \E key, v, base, then : Send(<<Get(k), PutThen(key, v, base, then)>>)
      BY <2>2 DEF BotSaved, StepSaved, Answered, Put
    <3>2. CASE Send(<<Get(k)>>)
      <4>1. AsksFor(Get(k), k) /\ Get(k).op # "sub"
        BY DEF Get, AsksFor
      <4> QED BY <3>1, <3>2, <4>1, OneHeld
    <3>3. ASSUME NEW p, p.op = "put", Send(<<Get(k), p>>)
          PROVE  \E reqs : /\ Send(reqs) /\ IsSeq(reqs)
                           /\ (\A r \in ToSet(reqs) : r.op # "sub")
                           /\ \E r \in ToSet(reqs) : AsksFor(r, k)
      <4>1. AsksFor(Get(k), k) /\ Get(k).op # "sub"
        BY DEF Get, AsksFor
      <4> QED BY <3>3, <4>1, TwoHeld
    <3>4. \A key, v, base, then : PutThen(key, v, base, then).op = "put"
      BY DEF PutThen
    <3> QED BY <3>1, <3>2, <3>3, <3>4
  <2> QED BY <2>1, <2>2
<1>4. ASSUME NEW k \in Disabling, save'[k] = "pending" PROVE save[k] = "pending" /\ ~IsAnswer(m, k)
  <2>1. Disabling \subseteq Modules \ {Bot, Twitch, Ui} /\ save \in [Modules -> Statuses]
    BY DEF Disabling, Modules, Bot, Twitch, Ui, Inv, TypeOK
  <2>2. CASE SetterAnswered
    <3>1. save' = [save EXCEPT ![m.key] = "success"]
      BY <2>2 DEF SetterAnswered
    <3> QED BY <1>4, <2>1, <3>1 DEF IsAnswer
  <2>3. ASSUME NEW task \in tasks, BotSaved(task) \/ StepSaved(task)
        PROVE  save[k] = "pending" /\ ~IsAnswer(m, k)
    <3>1. m.then \in {"setBot", "setStep"}
      BY <2>3 DEF BotSaved, StepSaved, Answered, Ends
    <3>2. save'[k] = save[k]
      BY <2>1, <2>3 DEF BotSaved, StepSaved
    <3> QED BY <1>4, <3>1, <3>2 DEF IsAnswer
  <2> QED BY <2>2, <2>3
<1>11. ASSUME NEW k \in Modules, IsAnswer(m, k) PROVE load'[k] = "pending"
  <2>1. SetterAnswered
    BY <1>11 DEF IsAnswer, BotSaved, StepSaved, Answered, Ends
  <2> QED BY <1>11, <2>1 DEF SetterAnswered, IsAnswer, Inv, TypeOK
<1> HIDE DEF m
<1>5. \A k \in Keys, u \in Users \union {null} : ~About(m, k, u)
  BY <1>1 DEF About
<1>6. PICK reqs, k : /\ Send(reqs) /\ IsSeq(reqs) /\ (\A r \in ToSet(reqs) : r.op # "sub")
                     /\ (\E r \in ToSet(reqs) : AsksFor(r, k))
                     /\ load' = [load EXCEPT ![k] = "pending"]
  BY <1>3
<1>7. up' = up \o reqs /\ ToSet(up') = ToSet(up) \union ToSet(reqs)
  BY <1>2, <1>6, GetsSent
<1>8. ASSUME NEW key \in hooks \intersect Modules, load'[key] = "pending"
      PROVE  \/ load[key] = "pending" /\ ~(m.is = "value" /\ m.key = key)
             \/ \E r \in ToSet(up') : AsksFor(r, key)
  <2>1. CASE key = k
    BY <1>6, <1>7, <2>1
  <2>2. CASE key # k
    BY <1>1, <1>6, <1>8, <2>2 DEF Inv, TypeOK
  <2> QED BY <2>1, <2>2
<1>9. ~IsBalances(m) /\ copies' = copies
  BY <1>1 DEF IsBalances, copy
<1>10. ASSUME NEW key \in Disabling
       PROVE  /\ load'[key] = "none" => load[key] = "none"
              /\ load'[key] = "error" => load[key] = "error" /\ ~IsAnswer(m, key)
  <2>1. key \in Modules /\ load \in [Modules -> Statuses]
    BY DisablingKeys DEF Inv, TypeOK
  <2>2. CASE key = k
    BY <1>6, <2>1, <2>2
  <2>3. CASE key # k
    <3>1. load'[key] = load[key]
      BY <1>6, <2>1, <2>3
    <3>2. IsAnswer(m, key) => load'[key] = "pending"
      BY <2>1, <1>11 DEF IsAnswer
    <3> QED BY <3>1, <3>2
  <2> QED BY <2>2, <2>3
<1> QED BY <1>1, <1>4, <1>5, <1>6, <1>7, <1>8, <1>9, <1>10, CopyStays DEF Takes, m

-----------------------------------------------------------------------------
(* The pages, and the connection.                                          *)

\* Requests that are added.
LEMMA AddsRequests ==
  ASSUME Inv, NEW reqs, IsSeq(reqs), up' = up \o reqs
  PROVE  /\ ToSet(up') = ToSet(up) \union ToSet(reqs)
         /\ Len(up) \in Nat /\ DOMAIN up = 1 .. Len(up)
         /\ DOMAIN reqs = 1 .. Len(reqs) /\ DOMAIN up' = 1 .. Len(up) + Len(reqs)
         /\ Len(reqs) \in Nat
         /\ \A i \in DOMAIN up : up'[i] = up[i]
         /\ \A i \in DOMAIN reqs : up'[i + Len(up)] = reqs[i]
         /\ \A i \in DOMAIN up' : i \in DOMAIN up \/ i - Len(up) \in DOMAIN reqs
BY BothHeld DEF Inv, RequestsOK, IsSeq

LEMMA StillFirst ==
  ASSUME Inv, BalancesFirst, NEW reqs, IsSeq(reqs), ReadFirst(reqs), up' = up \o reqs,
         UNCHANGED <<down, held>>, copies'["points"] = copies["points"]
  PROVE  BalancesFirst'
<1> SUFFICES ASSUME copies["points"] = null,
                    NEW i \in DOMAIN up', up'[i].op = "sub", up'[i].key = "points"
             PROVE  \/ \E m \in ToSet(down') : IsBalances(m)
                    \/ \E j \in DOMAIN up' : j < i /\ AsksFor(up'[j], "points")
  BY DEF BalancesFirst, IsBalances, AsksFor
<1> DEFINE n == Len(up)
<1>1. /\ n \in Nat /\ DOMAIN up = 1 .. n /\ Len(reqs) \in Nat
      /\ DOMAIN reqs = 1 .. Len(reqs) /\ DOMAIN up' = 1 .. n + Len(reqs)
      /\ \A j \in DOMAIN up : up'[j] = up[j]
      /\ \A j \in DOMAIN reqs : up'[j + n] = reqs[j]
      /\ \A j \in DOMAIN up' : j \in DOMAIN up \/ j - n \in DOMAIN reqs
  BY AddsRequests
<1> HIDE DEF n
<1>2. CASE i \in DOMAIN up
  <2>1. up[i].op = "sub" /\ up[i].key = "points"
    BY <1>1, <1>2
  <2>2. \/ \E m \in ToSet(down) : IsBalances(m)
        \/ \E j \in DOMAIN up : j < i /\ AsksFor(up[j], "points")
    BY <1>2, <2>1 DEF BalancesFirst
  <2>3. \A j \in DOMAIN up : j \in DOMAIN up'
    BY <1>1
  <2> QED BY <1>1, <2>2, <2>3
<1>3. CASE i \notin DOMAIN up
  <2>1. i - n \in DOMAIN reqs /\ (i - n) + n = i
    BY <1>1, <1>3
  <2>2. reqs[i - n].op = "sub" /\ reqs[i - n].key = "points"
    BY <1>1, <2>1
  <2>3. PICK j \in 1 .. (i - n) - 1 : AsksFor(reqs[j], "points")
    BY <2>1, <2>2 DEF ReadFirst
  <2>4. j \in DOMAIN reqs /\ j + n \in DOMAIN up' /\ j + n < i
    BY <1>1, <2>1, <2>3
  <2> QED BY <1>1, <2>3, <2>4
<1> QED BY <1>2, <1>3

LEMMA NoReads ==
  ASSUME NEW reqs, \A r \in ToSet(reqs) : r.op # "sub"
  PROVE  ReadFirst(reqs)
BY DEF ReadFirst, ToSet

\* What is still followed has the messages and the copy that it had.
LEMMA StillCurrent ==
  ASSUME KeysCurrent, BalancesCurrent, UNCHANGED <<db, down>>,
         \A k \in Keys : Followed(k)' => Followed(k),
         \A k \in Modules : (copies'[k] = copies[k] /\ (k \in drafts => k \in drafts'))
                              \/ k \in drafts',
         copies'["points"] = copies["points"]
  PROVE  KeysCurrent' /\ BalancesCurrent'
<1>1. KeysCurrent'
  <2> SUFFICES ASSUME NEW k \in Modules, Followed(k)'
               PROVE  /\ EndsWith(down', k, null, db'[k])
                      /\ Silent(down', k, null) =>
                           k \in drafts' \/ copies'[k] = db'[k] \/ db'[k] = absent
    BY DEF KeysCurrent
  <2>1. Followed(k)
    BY TheKeys
  <2> QED BY <2>1 DEF KeysCurrent
<1>2. BalancesCurrent'
  <2> SUFFICES ASSUME Followed("points")'
               PROVE  /\ copies'["points"] = null => \E m \in ToSet(down') : IsBalances(m)
                      /\ \A u \in Users :
                           /\ EndsWith(down', "points", u, db'["points"][u])
                           /\ Silent(down', "points", u) =>
                                /\ copies'["points"] # null
                                /\ copies'["points"][u] = db'["points"][u]
    BY DEF BalancesCurrent, IsBalances
  <2>1. Followed("points")
    BY TheKeys
  <2> QED BY <2>1 DEF BalancesCurrent
<1> QED BY <1>1, <1>2

LEMMA PageStepCurrent ==
  ASSUME Inv, CurrentInv, PageStep
  PROVE  CurrentInv'
<1>1. PICK reqs : Asks(reqs) /\ StatusFits(ToSet(reqs))
  BY DEF PageStep
<1>2. UNCHANGED <<db, held, unheard, down, conn, copies, drafts, page, hooks>>
  BY DEF PageStep, hub, copy
<1>3. ToSet(up) \subseteq ToSet(up')
  BY <1>1, AskedOK
<1>4. \A k \in Keys : Followed(k)' => Followed(k)
  BY <1>2, <1>3 DEF Followed, AsksFor
<1>5. KeysCurrent' /\ BalancesCurrent'
  BY <1>2, <1>4, StillCurrent DEF CurrentInv
<1>6. BalancesFirst'
  <2>1. CASE up' = up
    BY <1>2, <2>1 DEF CurrentInv, BalancesFirst, IsBalances, AsksFor
  <2>2. CASE up' = up \o reqs
    <3>1. IsSeq(reqs) /\ ReadFirst(reqs)
      BY <1>1, NoReads DEF Asks
    <3> QED BY <1>2, <2>2, <3>1, StillFirst DEF CurrentInv
  <2> QED BY <1>1, <2>1, <2>2 DEF Asks, Send
<1>7. ASSUME NEW k PROVE Loading(k) => Loading(k)'
  BY <1>2, <1>3 DEF Loading, AsksFor
<1>8. ASSUME NEW k PROVE (Saving(k) => Saving(k)') /\ (OnItsPage(k) => OnItsPage(k)')
  BY <1>2, <1>3 DEF Saving, Saves, IsAnswer, OnItsPage, Here
<1>9. conn = "Connected" => ToSet(up') = ToSet(up) \union ToSet(reqs)
  BY <1>1, AskedOK
<1>10. LoadsOK'
  <2> SUFFICES ASSUME NEW k \in hooks \intersect Modules, load'[k] = "pending"
               PROVE  Loading(k)'
    BY <1>2 DEF LoadsOK
  <2>1. conn = "Connected"
    BY DEF Inv, TypeOK, LinkOK
  <2>2. CASE load[k] = "pending"
    BY <1>7, <2>2 DEF CurrentInv, LoadsOK
  <2>3. CASE \E r \in ToSet(reqs) : AsksFor(r, k)
    BY <1>9, <2>1, <2>3 DEF Loading, AsksFor
  <2> QED BY <1>1, <2>2, <2>3 DEF StatusFits
<1>11. SavesOK'
  <2> SUFFICES ASSUME NEW k \in Disabling, save'[k] = "pending"
               PROVE  OnItsPage(k)' /\ Saving(k)'
    BY DEF SavesOK
  <2>1. CASE save[k] = "pending"
    BY <1>8, <2>1 DEF CurrentInv, SavesOK
  <2>2. CASE (\E p \in DOMAIN Main : Here(p) /\ Main[p] = k) /\ \E r \in ToSet(reqs) : Saves(r, k)
    <3>1. conn = "Connected" /\ OnItsPage(k)
      BY <2>2 DEF Here, OnItsPage
    <3> QED BY <1>8, <1>9, <2>2, <3>1 DEF Saving, Saves
  <2> QED BY <1>1, <2>1, <2>2 DEF StatusFits
<1>12. AskedOnPage' /\ FoundOK'
  <2>1. \A k \in Disabling : load'[k] = load[k]
    BY <1>1 DEF StatusFits
  <2>2. \A k : OnItsPage(k)' <=> OnItsPage(k)
    BY <1>2 DEF OnItsPage, Here
  <2> QED BY <1>2, <2>1, <2>2 DEF CurrentInv, AskedOnPage, FoundOK, IsNothing, IsAnswer
<1> QED BY <1>5, <1>6, <1>10, <1>11, <1>12 DEF CurrentInv

LEMMA DraftStepCurrent ==
  ASSUME Inv, CurrentInv, DraftStep
  PROVE  CurrentInv'
<1>0. PICK k \in Modules \ (Tables \union {Ui, Queue}) : \E v : Changes(k, v)
  BY DEF DraftStep
<1>1. PICK v : Changes(k, v)
  BY <1>0
<1>2. /\ UNCHANGED <<db, held, unheard, up, down, conn, page, hooks, load, save>>
      /\ copies' = [copies EXCEPT ![k] = v] /\ drafts' = drafts \union {k}
  BY <1>1 DEF Changes, Draft, hub, wire, status, view
<1>3. \A key : Followed(key)' <=> Followed(key)
  BY <1>2 DEF Followed, AsksFor
<1>4. /\ \A key \in Modules : (copies'[key] = copies[key] /\ (key \in drafts => key \in drafts'))
                                \/ key \in drafts'
      /\ copies'["points"] = copies["points"]
  BY <1>2, TheKeys DEF Inv, TypeOK
<1>5. KeysCurrent' /\ BalancesCurrent'
  BY <1>2, <1>3, <1>4, StillCurrent DEF CurrentInv
<1>6. BalancesFirst'
  BY <1>2, <1>4 DEF CurrentInv, BalancesFirst, IsBalances, AsksFor
<1>7. LoadsOK' /\ SavesOK' /\ AskedOnPage' /\ FoundOK'
  BY <1>2 DEF CurrentInv, LoadsOK, SavesOK, Loading, Saving, OnItsPage, Here, AsksFor, Saves,
              IsAnswer, AskedOnPage, FoundOK, IsNothing
<1> QED BY <1>5, <1>6, <1>7 DEF CurrentInv

LEMMA MountStepCurrent ==
  ASSUME Inv, CurrentInv, MountStep
  PROVE  CurrentInv'
<1>1. PICK reqs, in, stays, out, read :
        /\ Mounts(reqs, in)
        /\ stays \subseteq hooks /\ hooks' = stays \union in
        /\ StatusAfter(out, read) /\ read \intersect Modules \subseteq in
        /\ \A p \in DOMAIN Main : Here(p) /\ Main[p] \in Disabling => Main[p] \in out
        /\ \A p \in DOMAIN Main : page' = p /\ Main[p] \in Disabling => Main[p] \in read
  BY DEF MountStep
<1>2. UNCHANGED <<db, held, unheard, down, copies, drafts>>
  BY DEF MountStep, hub, copy
<1>3. up' = up \o reqs /\ IsSeq(reqs) /\ ReadFirst(reqs)
  BY <1>1 DEF Mounts, Inv, LinkOK, TypeOK
<1>4. ToSet(up') = ToSet(up) \union ToSet(reqs)
  BY <1>3, AddsRequests
<1>5. \A k \in in \intersect Keys : \E r \in ToSet(up') : AsksFor(r, k)
  BY <1>1, <1>4 DEF Mounts
<1>6. \A k \in Keys : Followed(k)' => Followed(k)
  BY <1>1, <1>2, <1>4, <1>5 DEF Followed, AsksFor
<1>7. KeysCurrent' /\ BalancesCurrent'
  BY <1>2, <1>6, StillCurrent DEF CurrentInv
<1>8. BalancesFirst'
  BY <1>2, <1>3, StillFirst DEF CurrentInv
<1>9. LoadsOK'
  <2> SUFFICES ASSUME NEW k \in Modules, k \in hooks', load'[k] = "pending"
               PROVE  Loading(k)'
    BY DEF LoadsOK
  <2>1. CASE k \in in
    BY <1>5, <2>1, TheKeys DEF Loading, AsksFor
  <2>2. CASE k \notin in
    <3>1. k \in hooks /\ load[k] = "pending"
      BY <1>1, <2>2 DEF StatusAfter
    <3>2. Loading(k)
      BY <3>1 DEF CurrentInv, LoadsOK
    <3> QED BY <1>2, <1>4, <3>2 DEF Loading, AsksFor
  <2> QED BY <2>1, <2>2
<1>10. SavesOK'
  <2> SUFFICES ASSUME NEW k \in Disabling, save'[k] = "pending"
               PROVE  FALSE
    BY DEF SavesOK
  <2>1. k \in Modules
    BY DEF Disabling, Modules
  <2>2. k \notin out /\ save[k] = "pending"
    BY <1>1, <2>1 DEF StatusAfter
  <2>3. PICK p \in DOMAIN Main : Here(p) /\ Main[p] = k
    BY <2>2 DEF CurrentInv, SavesOK, OnItsPage
  <2> QED BY <1>1, <2>2, <2>3
<1>11. \A k \in Disabling : OnItsPage(k)' => load'[k] = "pending"
  BY <1>1, DisablingKeys DEF StatusAfter, OnItsPage, Here
<1>12. AskedOnPage' /\ FoundOK'
  BY <1>2, <1>11 DEF CurrentInv, AskedOnPage, FoundOK, IsNothing, IsAnswer
<1> QED BY <1>7, <1>8, <1>9, <1>10, <1>12 DEF CurrentInv

LEMMA DisconnectCurrent ==
  ASSUME Inv, CurrentInv, Disconnect
  PROVE  CurrentInv'
<1>1. /\ up' = <<>> /\ down' = <<>> /\ held' = {} /\ hooks' = {}
      /\ StatusAfter(hooks, {}) /\ conn = "Connected"
  BY DEF Disconnect
<1>2. KeysCurrent' /\ BalancesCurrent' /\ LoadsOK' /\ BalancesFirst'
  BY <1>1 DEF KeysCurrent, BalancesCurrent, LoadsOK, BalancesFirst, Followed
<1>3. SavesOK'
  <2> SUFFICES ASSUME NEW k \in Disabling, save'[k] = "pending"
               PROVE  FALSE
    BY DEF SavesOK
  <2>1. k \in Modules
    BY DEF Disabling, Modules
  <2>2. k \notin hooks /\ save[k] = "pending"
    BY <1>1, <2>1 DEF StatusAfter
  <2>3. PICK p \in DOMAIN Main : Here(p) /\ Main[p] = k
    BY <2>2 DEF CurrentInv, SavesOK, OnItsPage
  <2> QED BY <1>1, <2>2, <2>3 DEF Here, Inv, PageOK
<1>4. \A k : ~OnItsPage(k)'
  BY DEF Disconnect, OnItsPage, Here
<1>5. AskedOnPage' /\ FoundOK'
  BY <1>1, <1>4 DEF AskedOnPage, FoundOK
<1> QED BY <1>2, <1>3, <1>5 DEF CurrentInv

LEMMA KindsCurrent ==
  ASSUME Inv, CurrentInv, Kinds
  PROVE  CurrentInv'
<1>1. CASE Hub
  BY <1>1, HubGetTells, HubSubscribeTells, HubPutTells, HubPutPointsTells, TellsOK DEF Hub
<1>2. CASE ManagerRemoves \/ (\E r \in Redeems : ViewerRedeems(r)) \/ ElsewhereStep
  BY <1>2, ManagerTells, ViewerTells, ElsewhereTells, TellsOK
<1>3. CASE Heard
  <2>1. Takes(Head(down))
    BY <1>3, LoadedTakes, PushedTakes, PointsLoadedTakes, PointsPushedTakes, AuthKeysTaken,
       SavedTaken DEF Heard, CurrentInv
  <2>2. PICK m : m = Head(down)
    OBVIOUS
  <2> QED BY <2>1, <2>2, TakesOK
<1>4. CASE PageStep \/ DraftStep \/ MountStep \/ Disconnect
  BY <1>4, PageStepCurrent, DraftStepCurrent, MountStepCurrent, DisconnectCurrent
<1> QED BY <1>1, <1>2, <1>3, <1>4 DEF Kinds

LEMMA InitCurrent ==
  ASSUME Init
  PROVE  CurrentInv
<1>1. /\ hooks = {} /\ up = <<>> /\ down = <<>> /\ held = {}
      /\ \A k \in Modules : save[k] = "none"
  BY DEF Init
<1>2. KeysCurrent /\ BalancesCurrent /\ LoadsOK /\ BalancesFirst
  BY <1>1 DEF KeysCurrent, BalancesCurrent, LoadsOK, BalancesFirst, Followed
<1>3. SavesOK
  BY <1>1 DEF SavesOK, Disabling, Modules
<1>4. AskedOnPage /\ FoundOK
  BY <1>1 DEF AskedOnPage, FoundOK, OnItsPage, Here, Init
<1> QED BY <1>2, <1>3, <1>4 DEF CurrentInv

LEMMA SameCurrent ==
  ASSUME CurrentInv, UNCHANGED vars
  PROVE  CurrentInv'
<1>1. UNCHANGED <<db, held, unheard, up, down, conn, copies, drafts, load, save, page, hooks>>
  BY DEF vars, hub, wire, copy, status, view
<1>2. KeysCurrent' /\ BalancesCurrent'
  <2>1. \A k : Followed(k)' <=> Followed(k)
    BY <1>1 DEF Followed, AsksFor
  <2> QED BY <1>1, <2>1, StillCurrent DEF CurrentInv
<1>3. BalancesFirst'
  BY <1>1 DEF CurrentInv, BalancesFirst, IsBalances, AsksFor
<1>4. LoadsOK' /\ SavesOK' /\ AskedOnPage' /\ FoundOK'
  BY <1>1 DEF CurrentInv, LoadsOK, SavesOK, Loading, Saving, OnItsPage, Here, AsksFor, Saves,
              IsAnswer, AskedOnPage, FoundOK, IsNothing
<1> QED BY <1>2, <1>3, <1>4 DEF CurrentInv

LEMMA AlwaysCurrent == Spec => [](Inv /\ CurrentInv)
<1>1. Inv /\ CurrentInv /\ [Next]_vars => Inv' /\ CurrentInv'
  <2> SUFFICES ASSUME Inv, CurrentInv, [Next]_vars PROVE CurrentInv'
    BY StepOK
  <2>1. CASE Next
    BY <2>1, NextKinds, KindsCurrent
  <2>2. CASE UNCHANGED vars
    BY <2>2, SameCurrent
  <2> QED BY <2>1, <2>2
<1>2. Init => Inv /\ CurrentInv
  BY InitOK, InitCurrent
<1> QED BY <1>1, <1>2, PTL DEF Spec

-----------------------------------------------------------------------------
(* The theorems.                                                           *)

\* Once nothing is on its way, the page shows what is stored, in any order of
\* the first read, the pushes of others' writes, the page's own saves with
\* their second reads, the visits of other pages and the lost connections:
\* but for a draft of the user, a key that was never written, and a write
\* that fell between the read of a key and its subscription.
THEOREM ShowsWhatIsStored == Spec => []QuietCopyIsCurrent
<1>1. Inv /\ CurrentInv => QuietCopyIsCurrent
  <2> SUFFICES ASSUME Inv, CurrentInv, Quiet,
                      NEW k \in (hooks \intersect Keys) \ (drafts \union unheard)
               PROVE  copies[k] = db[k] \/ db[k] = absent
    BY DEF QuietCopyIsCurrent
  <2>1. Followed(k) /\ ToSet(down) = {} /\ \A key, u : Silent(down, key, u)
    BY NoneHeld, NothingSaid DEF Quiet, Followed
  <2>2. CASE k \in Modules
    BY <2>1, <2>2 DEF CurrentInv, KeysCurrent
  <2>3. CASE k = "points"
    <3>1. /\ copies["points"] # null
          /\ \A u \in Users : copies["points"][u] = db["points"][u]
      BY <2>1, <2>3 DEF CurrentInv, BalancesCurrent
    <3>2. copies["points"] \in [Users -> Int] /\ db["points"] \in [Users -> Int]
      BY <3>1 DEF Inv, TypeOK
    <3>3. copies["points"] = db["points"]
      BY <3>1, <3>2
    <3> QED BY <2>3, <3>3
  <2> QED BY <2>2, <2>3 DEF Keys
<1> QED BY <1>1, AlwaysCurrent, PTL

\* A change of a viewer's balance never reaches the reducer before the
\* balances do, which would throw: not on any page, nor after a page was left
\* and visited again, nor across a lost connection.
THEOREM BalancesBeforeChanges == Spec => []PushesFindUsers
<1>1. Inv /\ CurrentInv => PushesFindUsers
  <2> SUFFICES ASSUME Inv, CurrentInv, down # <<>>, Head(down).is = "points",
                      copies["points"] = null
               PROVE  FALSE
    BY DEF PushesFindUsers
  <2>1. Head(down) = down[1] /\ 1 \in DOMAIN down /\ DOMAIN down \subseteq Nat \ {0}
    BY HeadHeld DEF Inv, MessagesOK, IsSeq
  <2>2. PICK j \in DOMAIN down : j < 1
    BY <2>1 DEF CurrentInv, BalancesFirst
  <2> QED BY <2>1, <2>2
<1> QED BY <1>1, AlwaysCurrent, PTL

\* Once everything is answered, the form of the page is enabled: whatever was
\* saved, left, written by others or cut off before, neither its load nor its
\* save is still waited for.  Only a key that the page did not find when it
\* read it leaves the form disabled, until the dashboard itself writes it.
THEOREM FormsComeBack == Spec => []FormsAreEnabled
<1>1. Inv /\ CurrentInv => FormsAreEnabled
  <2> SUFFICES ASSUME Inv, CurrentInv, Quiet, NEW p \in DOMAIN Forms, Here(p), Busy(Forms[p])
               PROVE  /\ load[Forms[p]] = "error" /\ save[Forms[p]] # "pending"
                      /\ db[Forms[p]] \in {absent, Theirs}
    BY DEF FormsAreEnabled
  <2> DEFINE k == Forms[p]
  <2>1. ToSet(up) = {} /\ ToSet(down) = {}
    BY NoneHeld DEF Quiet
  <2>2. k \in Disabling /\ p \in DOMAIN Main /\ Main[p] = k
    BY DEF Forms, Loyalty, Http, Disabling, Main
  <2>3. OnItsPage(k) /\ k \in hooks \intersect Modules /\ load[k] \in Statuses
    BY <2>2, DisablingKeys DEF OnItsPage, Here, Inv, PageOK, TypeOK
  <2> HIDE DEF k
  <2>4. load[k] # "pending" /\ save[k] # "pending"
    BY <2>1, <2>2, <2>3 DEF CurrentInv, LoadsOK, SavesOK, Loading, Saving
  <2>5. load[k] # "none"
    BY <2>2, <2>3 DEF CurrentInv, AskedOnPage
  <2>6. load[k] = "error"
    BY <2>3, <2>4, <2>5 DEF Busy, k, Statuses
  <2>7. db[k] \in {absent, Theirs}
    BY <2>1, <2>2, <2>3, <2>6 DEF CurrentInv, FoundOK
  <2> QED BY <2>4, <2>6, <2>7 DEF k
<1> QED BY <1>1, AlwaysCurrent, PTL
=============================================================================
