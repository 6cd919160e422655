------------------------------ MODULE History ------------------------------
(***************************************************************************)
(* A repository's life as the history audit sees it: verbs that promote,   *)
(* rename and renumber entities, people who edit, move and replace entity  *)
(* files by hand, branches that are cut, merged and squash-merged, humans  *)
(* who answer findings (`aiwf acknowledge illegal`, `--audit-only`), and   *)
(* the push the pre-push hook guards.  Every branch has a worktree of its  *)
(* own with nothing uncommitted.                                           *)
(***************************************************************************)
EXTENDS HistoryAudit, TLC

CONSTANTS MaxCommits,  \* bound: play -> commits in the log
          Born,        \* bound: play -> the entities the first commit holds
          Plays,       \* the plays the instance looks into
          StepsOf,     \* bound: play -> the kinds of step taken in it
          NamesOf      \* bound: play -> the branch names used in it

VARIABLES play,   \* which of the plays this behaviour is
          home    \* ghost: the authorize commit of a scope -> the branch it was opened for

allVars == <<vars, play, home>>

May(step) == step \in StepsOf[play]

Slugs == {"a", "b"}

\* A commit nobody wrote trailers into.
Plain == [verb |-> None, actor |-> None, ent |-> Absent.id, force |-> FALSE, audit |-> FALSE,
          forFor |-> 0, by |-> "hand", about |-> <<"none", 0>>,
          bound |-> None, boundSHA |-> 0, ends |-> 0, picked |-> FALSE, want |-> None, stray |-> FALSE]

Human(verb) == [Plain EXCEPT !.verb = verb, !.actor = "human", !.by = "verb"]

Written(parents, files, trailers) ==
  LET new == Len(log) + 1
  IN [parents |-> parents, files |-> files,
      past |-> {new} \cup UNION {Past(p) : p \in ToSet(parents)},
      touches |-> IF Len(parents) = 1 THEN Diff(Files(parents[1]), files) ELSE {},
      line |-> Append(IF parents = <<>> THEN <<>> ELSE Line(parents[1]), new)] @@ trailers

Init ==
  /\ play \in Plays
  /\ log = <<[parents |-> <<>>, past |-> {1}, line |-> <<1>>, touches |-> {},
              files |-> {[about |-> u, id |-> u, slug |-> "a", prior |-> {},
                          status |-> InitialStatus[u[1]]] : u \in Born[play]}] @@ Human("add")>>
  /\ tip = [b \in Branches |-> IF b = "main" THEN 1 ELSE 0]
  /\ pushes = [b \in Branches |-> <<>>]
  /\ home = <<>>

\* One more commit at the tip of a branch.
CommitAt(b, parents, files, trailers) ==
  /\ tip[b] # 0
  /\ Len(log) < MaxCommits[play]
  /\ log' = Append(log, Written(parents, files, trailers))
  /\ tip' = [tip EXCEPT ![b] = Len(log) + 1]
  /\ UNCHANGED <<pushes, play>>

Commit(b, parents, files, trailers) == CommitAt(b, parents, files, trailers) /\ UNCHANGED home

\* A commit that puts one file in another's place.
Rewrite(b, f, g, trailers) ==
  /\ g # f
  /\ Commit(b, <<tip[b]>>, (Files(tip[b]) \ {f}) \cup {g}, trailers)

-----------------------------------------------------------------------------
\* Verbs.

\* `aiwf promote`: a legal step, on the branch it belongs on and a sovereign one only by a
\* human, or any step a human forces.  The commit goes to whatever is checked out by then:
\* another session may have switched branches since the guard looked.
Promote(b) ==
  /\ \E f \in Files(tip[b]), actor \in {"human", "ai"}, force \in BOOLEAN, w \in NamesOf[play] :
     \E s \in Statuses(KindOf(f.id)) :
       LET activating == isActivatingPromoteTransition(KindOf(f.id), s)
           want == expectedParentBranches(b, f) IN
       /\ May("promote") \/ (May("start") /\ activating /\ actor = "human" /\ ~force)
       /\ IF force THEN actor = "human"
          ELSE /\ ValidateTransition(KindOf(f.id), f.status, s)
               /\ IsSovereignActShape(KindOf(f.id), f.status, s) => actor = "human"
               /\ requireExpectedBranch(b, f, s)
       /\ w # b => May("start") /\ f \in Files(tip[w])
       /\ s # f.status
       /\ Commit(w, <<tip[w]>>, (Files(tip[w]) \ {f}) \cup {[f EXCEPT !.status = s]},
                 [Human("promote") EXCEPT
                    !.actor = actor, !.force = force, !.ent = f.id,
                    !.about = IF activating THEN f.about ELSE @,
                    !.want = IF activating /\ want # {} THEN CHOOSE n \in want : TRUE ELSE @,
                    !.stray = activating /\ w # b])

\* `aiwf rename`: the entity's path changes, its id does not (retitle, move and archive alike).
Rename(b) ==
  /\ May("rename")
  /\ \E f \in Files(tip[b]), s \in Slugs :
       Rewrite(b, f, [f EXCEPT !.slug = s], [Human("rename") EXCEPT !.ent = f.id])

\* The next id no commit has used.
NextID(kind) ==
  <<kind, 1 + Max({0} \cup {f.id[2] : f \in {x \in UNION {log[c].files : c \in DOMAIN log} :
                                                 KindOf(x.id) = kind}})>>

\* `aiwf reallocate`: a new id and path; the old id is remembered.
Reallocate(b) ==
  /\ May("reallocate")
  /\ \E f \in Files(tip[b]) :
       Rewrite(b, f, [f EXCEPT !.id = NextID(KindOf(f.id)), !.prior = @ \cup {f.id}],
               [Human("reallocate") EXCEPT !.ent = NextID(KindOf(f.id))])

\* `aiwf acknowledge illegal <sha> [--for-entity <id>]`: nothing to record twice.
AcknowledgeIllegal(b) ==
  /\ May("acknowledge")
  /\ \E c \in DOMAIN log : \E id \in DiffTreeIDs(c) \cup {Absent.id} :
       /\ Touches(c) # {}
       /\ IF id = Absent.id THEN c \notin WalkAcknowledgedSHAs(b) ELSE <<c, id>> \notin Acknowledgements(b)
       /\ Commit(b, <<tip[b]>>, Files(tip[b]),
                 [Human("acknowledge-illegal") EXCEPT !.forFor = c, !.ent = id])

\* `aiwf promote <id> <status it is at> --audit-only`.
PromoteAuditOnly(b) ==
  /\ May("audit-only")
  /\ \E f \in Files(tip[b]) :
       Commit(b, <<tip[b]>>, Files(tip[b]), [Human("promote") EXCEPT !.audit = TRUE, !.ent = f.id, !.about = f.about])

-----------------------------------------------------------------------------
\* Scopes and agents.

\* The authorize commit of the scope in force for an entity on a branch, 0 for none.
InForce(b, id) ==
  LET openers == {o \in Past(tip[b]) : log[o].verb = "authorize" /\ log[o].ent = id}
      ended == {log[e].ends : e \in Past(tip[b])}
  IN Max((openers \ ended) \cup {0})

\* `aiwf authorize <id> --to ai/... [--branch w]`: a branch one rung down, which may not exist
\* yet, or the branch at hand when that is a ritual one.
Authorize(b) ==
  /\ May("authorize")
  /\ home = <<>>
  /\ \E f \in Files(tip[b]), w \in NamesOf[play] :
       /\ \/ <<Rung[b], Rung[w]>> \in {<<"trunk", "epic">>, <<"epic", "milestone">>,
                                      <<"milestone", "patch">>, <<"epic", "patch">>}
          \/ w = b /\ Rung[b] \notin {"trunk", None}
       /\ CommitAt(b, <<tip[b]>>, Files(tip[b]),
                   [Human("authorize") EXCEPT !.ent = f.id, !.bound = w,
                                              !.boundSHA = IF w = b THEN 0 ELSE tip[w]])
       /\ home' = (Len(log) + 1 :> w)

\* `aiwf authorize <id> --end`.
EndScope(b) ==
  /\ May("authorize")
  /\ \E f \in Files(tip[b]) :
       /\ InForce(b, f.id) # 0
       /\ Commit(b, <<tip[b]>>, Files(tip[b]),
                 [Human("authorize-end") EXCEPT !.ent = f.id, !.ends = InForce(b, f.id)])

\* An agent's verb on the entity (a body edit): on the branch it was sent to, or elsewhere.
AgentWork(b) ==
  /\ May("agent")
  /\ \E f \in Files(tip[b]) :
       /\ InForce(b, f.id) # 0
       /\ Commit(b, <<tip[b]>>, Files(tip[b]),
                 [Human("edit-body") EXCEPT !.actor = "ai", !.ent = f.id])

\* A human takes an agent's commit over with `git cherry-pick -x`.
CherryPick(b) ==
  /\ May("pick")
  /\ tip[b] # 0
  /\ \E c \in {d \in DOMAIN log : log[d].actor = "ai" /\ d \notin Past(tip[b])} :
       Commit(b, <<tip[b]>>, Files(tip[b]),
              [Human("edit-body") EXCEPT !.actor = "ai", !.ent = log[c].ent, !.picked = TRUE])

-----------------------------------------------------------------------------
\* Hands.

\* An editor changes a status, moving the file along or not.
HandEdit(b) ==
  /\ May("edit")
  /\ \E f \in Files(tip[b]), s \in Slugs : \E st \in Statuses(KindOf(f.id)) :
       /\ s # f.slug => May("move")
       /\ Rewrite(b, f, [f EXCEPT !.status = st, !.slug = s], Plain)

\* One commit changes the status of two entities, each along its FSM.
HandEditTwo(b) ==
  /\ May("pair")
  /\ \E f, g \in Files(tip[b]) :
     \E s \in AllowedTransitions(KindOf(f.id), f.status), t \in AllowedTransitions(KindOf(g.id), g.status) :
       /\ f # g
       /\ Commit(b, <<tip[b]>>, (Files(tip[b]) \ {f, g}) \cup
                   {[f EXCEPT !.status = s], [g EXCEPT !.status = t]}, Plain)

\* One commit removes an entity's file and adds a fresh one for another.
HandReplace(b) ==
  /\ May("replace")
  /\ \E f \in Files(tip[b]), u \in Entities, st \in UNION {Statuses(v[1]) : v \in Entities} :
       /\ st \in Statuses(u[1])
       /\ \A c \in DOMAIN log : \A x \in log[c].files : x.about # u
       /\ Rewrite(b, f, [about |-> u, id |-> NextID(u[1]), slug |-> "a", prior |-> {}, status |-> st], Plain)

-----------------------------------------------------------------------------
\* Branches and the origin.

Cut(b) ==
  /\ May("cut")
  /\ b \in NamesOf[play] /\ tip[b] = 0
  /\ \E o \in NamesOf[play] : tip[o] # 0 /\ tip' = [tip EXCEPT ![b] = tip[o]]
  /\ UNCHANGED <<log, pushes, play, home>>

\* `git branch -m`, among names of one rung.
RenameBranch(b, w) ==
  /\ May("rename-branch")
  /\ w \in NamesOf[play] /\ tip[b] # 0 /\ tip[w] = 0 /\ Rung[b] = Rung[w]
  /\ tip' = [tip EXCEPT ![w] = tip[b], ![b] = 0]
  /\ home' = [o \in DOMAIN home |-> IF home[o] = b THEN w ELSE home[o]]
  /\ UNCHANGED <<log, pushes, play>>

\* `git branch -d`, of what trunk has.
DeleteBranch(b) ==
  /\ May("delete")
  /\ b # "main" /\ tip[b] # 0 /\ tip[b] \in Past(tip["main"])
  /\ tip' = [tip EXCEPT ![b] = 0]
  /\ UNCHANGED <<log, pushes, play, home>>

\* What merging another branch brings.
MergedWith(b, o) ==
  Merged(Files(MergeBase(tip[b], tip[o])), Files(tip[b]), Files(tip[o]))

Ahead(b, o) == tip[b] # 0 /\ tip[o] # 0 /\ tip[o] \notin Past(tip[b])

FastForward(b, o) ==
  /\ May("merge")
  /\ Ahead(b, o) /\ tip[b] \in Past(tip[o])
  /\ tip' = [tip EXCEPT ![b] = tip[o]]
  /\ UNCHANGED <<log, pushes, play, home>>

MergeBranch(b, o) ==
  /\ May("merge")
  /\ Ahead(b, o)
  /\ Commit(b, <<tip[b], tip[o]>>, MergedWith(b, o), [Plain EXCEPT !.by = "merge"])

\* The host's squash merge: the other branch's work as one commit without trailers.
SquashMerge(b, o) ==
  /\ May("squash")
  /\ Ahead(b, o)
  /\ Commit(b, <<tip[b]>>, MergedWith(b, o), [Plain EXCEPT !.by = "squash"])

\* `git push`, guarded by the pre-push hook's `aiwf check`.  Bound: trunk alone is pushed; the
\* audited range is a matter of one branch and its upstream.
Push(b) ==
  /\ May("push")
  /\ b = "main"
  /\ tip[b] # upstream(b)
  /\ upstream(b) \in Past(tip[b]) \cup {0}
  /\ Passes(b)
  /\ pushes' = [pushes EXCEPT ![b] = Append(@, tip[b])]
  /\ UNCHANGED <<log, tip, play, home>>

Next ==
  \E b \in NamesOf[play] :
    \/ Promote(b) \/ Rename(b) \/ Reallocate(b) \/ AcknowledgeIllegal(b) \/ PromoteAuditOnly(b)
    \/ Authorize(b) \/ EndScope(b) \/ AgentWork(b) \/ CherryPick(b)
    \/ HandEdit(b) \/ HandEditTwo(b) \/ HandReplace(b)
    \/ Cut(b) \/ DeleteBranch(b) \/ Push(b)
    \/ \E o \in NamesOf[play] \ {b} :
         FastForward(b, o) \/ MergeBranch(b, o) \/ SquashMerge(b, o) \/ RenameBranch(b, o)

Spec == Init /\ [][Next]_allVars

-----------------------------------------------------------------------------
\* Properties.

\* The branches there are.
Live == {b \in Branches : tip[b] # 0}

\* What each single-parent commit did to the status of an entity it kept.
Changes ==
  UNION {{[about |-> p[1].about, commit |-> c, prior |-> p[1].status, next |-> p[2].status] :
            p \in {x \in Files(log[c].parents[1]) \X log[c].files :
                     x[1].about = x[2].about /\ x[1].status # x[2].status}} :
         c \in {d \in All : Len(log[d].parents) = 1}}

\* The same of what the walk saw, or of the part of it some verdict reports.
Told(observations) ==
  {[about |-> o.entity.about, commit |-> o.commit, prior |-> o.prior, next |-> o.next] : o \in observations}

Has(b, u) == \E f \in Files(tip[b]) : f.about = u

Concurrent(c, d) == c \notin Past(d) /\ d \notin Past(c)

\* The commits that moved an entity's file.
Moves(u) == {c \in All : \E t \in Touches(c) : t.op = "R" /\ t.pre.about = u /\ t.post.about = u}

\* Where the walk loses the file: it was moved on two lines at once, or a line that had
\* not seen the move went on editing at the old path after it.
MovedMeanwhile(b, ch) ==
  LET moves == Moves(ch.about) \cap Past(tip[b])
  IN \/ \E r, s \in moves : Concurrent(r, s)
     \/ \E r \in moves : r < ch.commit /\ Concurrent(r, ch.commit)

\* The walk reports no status change that no commit made, and misses none of the branch's
\* own history while the entity lives.
WalkIsExact(b, seen) ==
  /\ seen \subseteq Changes
  /\ \A ch \in Changes \ seen :
       (ch.commit \in Past(tip[b]) /\ Has(b, ch.about)) => MovedMeanwhile(b, ch)

\* Status changes the tool holds against somebody.
Error(ch) ==
  /\ ~log[ch.commit].force
  /\ \/ ~ValidateTransition(ch.about[1], ch.prior, ch.next)
     \/ /\ IsSovereignActShape(ch.about[1], ch.prior, ch.next)
        /\ log[ch.commit].actor # "human"

Warning(ch) == ~Error(ch) /\ log[ch.commit].by \in {"hand", "squash"}

\* The branch's history holds an acknowledgement of the commit.
Acknowledged(b, c) == \E a \in Past(tip[b]) : log[a].forFor = c

\* The branch's history holds a record of the entity, made after the commit.
Recorded(b, u, c) == \E a \in Past(tip[b]) : c \in Past(a) /\ log[a].audit /\ log[a].about = u

\* The entity was renumbered after the record.
RenumberedSince(b, u) ==
  \E a \in Past(tip[b]), f \in Files(tip[b]) : log[a].audit /\ log[a].about = u /\ f.about = u /\ log[a].ent # f.id

\* An acknowledgement silences the commit it names, for every entity; a record the changes
\* of its entity before it -- and those made together with them.
AnswersNameTheirChange(b, seen, errors, warnings) ==
  /\ errors = {ch \in seen : Error(ch) /\ ~Acknowledged(b, ch.commit)}
  /\ \A ch \in warnings : /\ ch \in seen /\ Warning(ch)
                         /\ Recorded(b, ch.about, ch.commit) => RenumberedSince(b, ch.about)
  /\ \A ch \in seen \ warnings : Warning(ch) =>
       \E d \in seen : d.commit = ch.commit /\ Recorded(b, d.about, d.commit)

\* `aiwf check` tells the truth about the statuses history gave an entity: what the walk sees
\* happened, what happened it sees -- through renames, renumberings, merges and replaced files,
\* save where MovedMeanwhile says -- and a human's answer silences what it names, no more.
AuditIsExact ==
  \A b \in Live :
    LET observations == batchedWalkStatusChanges(b)
        seen == Told(observations)
    IN /\ WalkIsExact(b, seen)
       /\ AnswersNameTheirChange(b, seen, Told(HistoryErrors(b, observations)),
                                 Told(manualEditFindings(b, observations)))

\* A history the verbs and plain merges wrote, in whatever order and on whatever branches, is
\* clean: no phantom transition across branches, nothing to acknowledge, nothing to backfill.
VerbsPassTheAudit ==
  (\A c \in All : log[c].by \in {"verb", "merge"}) =>
    \A b \in Live :
      LET observations == batchedWalkStatusChanges(b)
      IN /\ RunUntrailedAudit(b) = {}
         /\ RunIDRenameUntrailered(b) = {}
         /\ HistoryErrors(b, observations) = {}
         /\ manualEditFindings(b, observations) = {}

\* The branches origin has.
Published == {b \in Branches : pushes[b] # <<>>}

\* What a push added to origin's first-parent line.
Pushed(b, i) == {c \in ToSet(Line(pushes[b][i])) : c \notin Past(pushes[b][i - 1])}

\* Every error-class change origin holds of an entity still there is acknowledged there too,
\* whatever line it came by...
ErrorsAreAcknowledged ==
  \A b \in Published : \A ch \in Changes :
    (/\ ch.commit \in Past(upstream(b))
     /\ \E f \in Files(upstream(b)) : f.about = ch.about
     /\ Error(ch) /\ ~MovedMeanwhile(b, ch))
      => \E a \in Past(upstream(b)) : log[a].forFor = ch.commit

\* ...and every untrailered commit a push after the first put on the first-parent line is
\* answered for each entity it touched.
CommitsAreAnswered ==
  \A b \in Published : \A i \in 2..Len(pushes[b]) : \A c \in Pushed(b, i) :
    log[c].by \in {"hand", "squash"} =>
      \A id \in TouchedIDs(c) : \E a \in Past(pushes[b][i]) :
        log[a].ent = id /\ (log[a].forFor = c \/ (log[a].audit /\ c \in Past(a)))

OriginIsAnswered == ErrorsAreAcknowledged /\ CommitsAreAnswered

\* The rule still takes the scope to be for the branch it was opened for: a bare name holds
\* until the branch is renamed, a commit as long as no other ritual branch is as near to it.
Pinned(o) ==
  IF log[o].boundSHA = 0 THEN log[o].bound = home[o]
  ELSE \A w \in FirstParentBranches(log[o].boundSHA) \ {"main", home[o]} :
         distanceFromTip(home[o], log[o].boundSHA) < distanceFromTip(w, log[o].boundSHA)

\* An agent's commit is reported exactly when it rides some branch the oracle knows but not
\* the one its scope was opened for -- whatever that one is called by now -- and no human took
\* it over, acknowledged it, or had ended the scope before.
EscapesAreReported ==
  \A b \in Live : \A c \in {d \in Past(tip[b]) : log[d].actor = "ai"}, o \in DOMAIN home :
    Pinned(o) =>
      (c \in RunIsolationEscape(b) <=>
         /\ \E w \in Branches : Rung[w] # None /\ c \in ToSet(Line(tip[w]))
         /\ c \notin ToSet(Line(tip[home[o]]))
         /\ ~log[c].picked /\ ~Acknowledged(b, c)
         /\ \A e \in Past(tip[b]) : log[e].ends = o => e > c)

\* The epic's branch is gone, or cut anew, and trunk took it over without a merge commit.
FastForwarded(c) == c \notin Past(tip[log[c].want]) /\ c \in ToSet(Line(tip["main"]))

\* An activation that landed where it belongs is never reported -- by a check of any branch,
\* after merges, renumberings and the end of the epic's branch -- and one that another
\* session's checkout led astray is reported by a check of any branch that knows the entity
\* by the commit's id, its own or an earlier one, until a human answers or a merge brings it
\* where it belongs.  A tree in which the epic's directory has another name expects another
\* branch.
ActivationsAreJudged ==
  \A b \in Live : \A c \in {d \in DOMAIN log : log[d].want \in Branches /\ ~log[d].force /\ d \in All} :
    \A f \in Files(tip[b]) :
      (f.about = log[c].about /\ expectedParentBranches(b, f) = {log[c].want}) =>
        /\ ~log[c].stray => c \notin RunPromoteOnWrongBranch(b) \/ FastForwarded(c)
        /\ log[c].stray /\ log[c].ent \in {f.id} \cup f.prior =>
                           \/ c \in RunPromoteOnWrongBranch(b)
                           \/ Acknowledged(b, c)
                           \/ c \in Past(tip[log[c].want])
                           \/ \E m \in Past(tip["main"]) : Len(log[m].parents) = 2 /\ c \in Past(m)

\* The two rules of the branch model, for agents and for activations, tell the truth.
BranchModelIsPoliced == EscapesAreReported /\ ActivationsAreJudged
=============================================================================
