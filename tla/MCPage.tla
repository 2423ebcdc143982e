------------------------------- MODULE MCPage -------------------------------
(* Instances of the tabs of a connection's dashboard and of the page's      *)
(* other parts.  They have nothing but the selected database in common, so  *)
(* it is enough that the user uses one of them, chosen at the start, while  *)
(* the others stay in one of their initial states.                          *)
EXTENDS Dashboard, KeyspaceStream, KeptLists, MemoryAnalysis, TextDiff,
        CliConsole, ConnectionForm, ConnectionStore

VARIABLE tab  \* the part that is used

Tabs == {"dashboard", "keyspace", "kept", "memory", "text", "console", "form", "list"}

Used(t, One) == tab # t => One

Init ==
  /\ tab \in Tabs
  /\ DashboardInit
  /\ KeyspaceInit /\ Used("keyspace", ~config)
  /\ KeptInit /\ Used("kept", kind = "bookmarks")
  /\ MemoryInit
  /\ TextInit
  /\ CliInit /\ Used("console", panes = {CHOOSE p \in Panes : TRUE})
  /\ FormInit
  /\ StoreInit

tabsPart == <<dashboardPart, keyspacePart, memoryPart>>
otherPart == <<keptPart, textPart, cliPart, formPart, storePart>>
All == <<tab, db, tabsPart, otherPart>>

Uses(t) == tab = t /\ UNCHANGED tab

Next ==
  \/ /\ Uses("dashboard") /\ DashboardNext
     /\ UNCHANGED <<keyspacePart, memoryPart, otherPart>>
  \/ /\ Uses("keyspace") /\ KeyspaceNext
     /\ UNCHANGED <<dashboardPart, memoryPart, otherPart>>
  \/ /\ Uses("memory") /\ MemoryNext
     /\ UNCHANGED <<dashboardPart, keyspacePart, otherPart>>
  \/ /\ Uses("kept") /\ KeptNext
     /\ UNCHANGED <<db, tabsPart, textPart, cliPart, formPart, storePart>>
  \/ /\ Uses("text") /\ TextNext
     /\ UNCHANGED <<db, tabsPart, keptPart, cliPart, formPart, storePart>>
  \/ /\ Uses("console") /\ CliNext
     /\ UNCHANGED <<tabsPart, keptPart, textPart, formPart, storePart>>
  \/ /\ Uses("form") /\ FormNext
     /\ UNCHANGED <<db, tabsPart, keptPart, textPart, cliPart, storePart>>
  \/ /\ Uses("list") /\ StoreNext
     /\ UNCHANGED <<tabsPart, keptPart, textPart, cliPart, formPart>>

Spec == Init /\ [][Next]_All

(* As only one part is used, values of different parts may be the same: the  *)
(* configuration gives them the same names, so that there are few           *)
(* permutations to try.                                                     *)
(* Connections with a password that can be sealed and with one that cannot, *)
(* one with nodes, and one with a URL.                                      *)
CONSTANTS plain, accented
MCFilled ==
  {[way |-> "host", secret |-> plain], [way |-> "host", secret |-> accented],
   [way |-> "nodes", secret |-> plain], [way |-> "url", secret |-> plain]}

MCSymmetry == UNION {Permutations(S) : S \in {Databases, Requests, Streams, Checks}}

TypeOK ==
  /\ DashboardTypeOK /\ KeyspaceTypeOK
  /\ KeptTypeOK /\ MemoryTypeOK /\ TextTypeOK
  /\ CliTypeOK /\ FormTypeOK /\ StoreTypeOK
=============================================================================
