---------------------------- MODULE MCDashboard -----------------------------
(* Small instances of the dashboard. *)
EXTENDS Dashboard

CONSTANTS Edits, Inputs, Visits, Writes, Cuts, All

MCLimits == [edit |-> Edits, type |-> Inputs, visit |-> Visits,
             write |-> Writes, cut |-> Cuts, all |-> All]

\* Two IDs, one of which is typed in upper case, and the empty one.
MCTyped == {"a", "A", "b"}
MCSlugOf == ("a" :> "a") @@ ("A" :> "a") @@ ("b" :> "b")
MCTexts == {"x"}

One == ("a" :> [on |-> TRUE, text |-> "x", extra |-> ""])
MCUserOf == [r \in Redeems |-> IF r = 1 THEN "u" ELSE "v"]
MCPrice == [r \in Redeems |-> r]

\* A database in use: an entry in each table, two redeems queued, and the
\* setup done.
Used ==
  [k \in Stored |->
     CASE k \in Tables \ {"loyaltyGoals"} -> One
       [] k = "loyaltyGoals" -> [One EXCEPT !["a"].extra = 1]
       [] k = "points" -> [u \in Users |-> 2]
       [] k = "loyaltyRedeemQueue" -> {1, 2}
       [] k = "uiConfig" -> ("done" :> TRUE)
       [] k = "loyaltyConfig" -> ("on" :> TRUE) @@ ("text" :> "x")
       [] k = "twitchConfig" -> ("on" :> TRUE) @@ ("creds" :> "x") @@ ("bot" :> TRUE)
       [] k = "twitchBotAlerts" -> [s \in Sections |-> ("on" :> TRUE)]
       [] k = "httpConfig" -> ("text" :> "x")
       [] OTHER -> absent]

\* One that is new: the application has made the web server's configuration.
New == [k \in Stored |-> CASE k = "points" -> [u \in Users |-> 0]
                          [] k = "httpConfig" -> ("text" :> "x")
                          [] OTHER -> absent]

\* One whose setup was left at the step of the credentials.
Half == [New EXCEPT !["twitchConfig"] = ("creds" :> "x"),
                    !["uiConfig"] = ("step" :> 1)]

\* One in use whose loyalty was never configured.
Unset == [Used EXCEPT !["loyaltyConfig"] = absent]

MCUsed == {Used}
MCForms == {Unset, Half}
=============================================================================
