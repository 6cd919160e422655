----------------------------- MODULE MCHistory -----------------------------
EXTENDS History

AllBranches == {"main", "epic/a", "epic/b", "milestone/m", "topic"}
Rungs == [main |-> "trunk"] @@ ("epic/a" :> "epic") @@ ("epic/b" :> "epic") @@
         ("milestone/m" :> "milestone") @@ ("topic" :> "")
Names == <<"epic/a", "epic/b", "main", "milestone/m", "topic">>
G1 == <<"gap", 1>>
E1 == <<"epic", 1>>
G9 == <<"gap", 9>>
M1 == <<"milestone", 1>>
Parents == M1 :> E1
Directories == (<<E1, "a">> :> "epic/a") @@ (<<E1, "b">> :> "epic/b")
AllEntities == {G1, E1, G9, M1}
BornEntities == [verbs |-> {E1}, walk |-> {G1}, moves |-> {G1}, answers |-> {G1, E1}, origin |-> {G1, E1}, agents |-> {E1}, starts |-> {E1, M1}]
AllPlays == {"verbs", "walk", "moves", "answers", "origin", "agents", "starts"}
Commits == [verbs |-> 4, walk |-> 5, moves |-> 4, answers |-> 4, origin |-> 4, agents |-> 4, starts |-> 4]
StepTable ==
  [verbs   |-> {"promote", "rename", "reallocate", "cut", "merge"},
   walk    |-> {"edit", "rename", "reallocate", "cut", "merge"},
   moves   |-> {"edit", "move", "reallocate", "replace", "cut", "merge"},
   answers |-> {"edit", "pair", "reallocate", "acknowledge", "audit-only", "cut", "merge"},
   origin  |-> {"edit", "audit-only", "acknowledge", "cut", "merge", "squash", "push"},
   agents  |-> {"authorize", "agent", "pick", "acknowledge", "cut", "merge", "rename-branch"},
   starts  |-> {"start", "rename", "reallocate", "acknowledge", "cut", "merge", "delete"}]
Cast == [p \in DOMAIN StepTable |->
  CASE p = "agents" -> AllBranches \ {"topic"}
    [] p = "starts" -> {"main", "epic/a"}
    [] OTHER -> {"main", "topic"}]
=============================================================================
