----------------------------- MODULE MCAppShell -----------------------------
(* Small instances of the start of the application and of its windows. *)
EXTENDS AppShell

CONSTANTS Entries, Fails, Cuts, Asking, All

MCLimits == [log |-> Entries, fail |-> Fails, cut |-> Cuts,
             ask |-> Asking, all |-> All]
=============================================================================
