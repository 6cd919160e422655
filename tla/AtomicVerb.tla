----------------------------- MODULE AtomicVerb -----------------------------
(***************************************************************************)
(* What verb.Apply promises its callers: the record moves by exactly the   *)
(* plan, in one step, or not at all, and the answer says which.  Others    *)
(* may commit at any time; a caller may vanish at any time.                *)
(***************************************************************************)
CONSTANTS
  Procs,
  Tree, Plans,  \* the trees a commit may have, and what a caller may ask for
  Effect(_, _)  \* the tree a plan makes of a tree

VARIABLES
  tree,     \* the tree of HEAD's commit
  client    \* per process: its state and, while it has one, its plan

vars == <<tree, client>>

Idle == [state |-> "idle", plan |-> <<>>]

Init ==
  /\ tree \in Tree
  /\ client = [p \in Procs |-> Idle]

Turn(p, from, to) ==
  /\ client[p].state = from
  /\ client' = [client EXCEPT ![p].state = to]

Request(p) ==
  /\ client[p] = Idle
  /\ \E plan \in Plans : client' = [client EXCEPT ![p] = [state |-> "pending", plan |-> plan]]
  /\ UNCHANGED tree

Commit(p) ==
  /\ Turn(p, "pending", "landed")
  /\ tree' = Effect(client[p].plan, tree)

Succeed(p) == Turn(p, "landed", "done") /\ UNCHANGED tree
Fail(p) == Turn(p, "pending", "failed") /\ UNCHANGED tree

Leave(p) ==
  /\ client[p] # Idle
  /\ client' = [client EXCEPT ![p] = Idle]
  /\ UNCHANGED tree

GitCommit == tree' \in Tree /\ UNCHANGED client

Next ==
  \/ \E p \in Procs : Request(p) \/ Commit(p) \/ Succeed(p) \/ Fail(p) \/ Leave(p)
  \/ GitCommit

Spec == Init /\ [][Next]_vars
=============================================================================
