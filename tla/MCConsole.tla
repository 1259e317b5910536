------------------------------ MODULE MCConsole ------------------------------
(* Two apps, two commands at a time, and what a session may be about: two    *)
(* apps where a message about one can meet a request about the other, one    *)
(* where it cannot.  A remap may only name a port that no app declares: a    *)
(* conflict then tells whether the port it reports is the catalog's.         *)
EXTENDS Console

TwoApps == <<"a", "b">>
CatalogPorts == [x \in Apps |-> IF x = "a" THEN {1} ELSE {2}]

Uses(entries, installed) == [uses |-> entries, installed |-> installed]

Tasks ==
    {Uses({"install", "a"}, {}),
     Uses({"install", "a", "b"}, {}),
     Uses({"update"}, Apps),
     Uses({"check", "restart"}, Apps),
     Uses({"check", "resources"}, {"a"}),
     Uses({"check", "delete", "a"}, Apps),
     Uses({"backups"}, Apps),
     Uses({"check", "redeploy"}, {"a"}),
     Uses({"check", "remove"}, {"a"}),
     Uses({"check", "editCompose"}, {"a"}),
     Uses({"check", "editEnv"}, {"a"}),
     Uses({"check", "viewEnv", "validate"}, {"a"}),
     Uses({"stopAll", "settings"}, {"a"}),
     Uses({"updateCatalog", "updateWdm"}, {"a"}),
     Uses({"uninstall", "launch"}, {"a"}),
     Uses({"clear", "stopAll"}, {"a"})}
=============================================================================
