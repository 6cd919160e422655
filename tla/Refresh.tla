------------------------------- MODULE Refresh -------------------------------
(***************************************************************************)
(* aiwf init and aiwf update over the files they keep (Managed), run again *)
(* and again: by newer and older binaries, after crashes and failed        *)
(* writes, with the configuration changed, files edited or deleted, and    *)
(* hooks put in place in between.  A linked worktree of the repository     *)
(* updates as well: of its files only the git hooks are shared, and the    *)
(* lock is not.                                                            *)
(***************************************************************************)
EXTENDS Managed

CONSTANTS
  Scenarios   \* bounds: records [start, versions, edits, answers, linked, runs, faults, changes]

Worktrees == {"main", "linked"}

\* A scenario starts from a repository without aiwf, or as aiwf init left it: all
\* it keeps is recorded, no guidance is installed, and no hook is the user's.
Bare == [p \in Paths |-> CASE p = Project -> {} [] p = Cli -> Hosts [] OTHER -> None]
Starting(s) == [p \in Paths |-> IF p \in DOMAIN s.start THEN s.start[p] ELSE Bare[p]]
ASSUME RefreshAssumption ==
  /\ \A s \in Scenarios :
       /\ s.versions \subseteq Versions /\ s.answers \subseteq {None, "on", "off"} /\ {s.runs, s.faults, s.changes} \subseteq Nat
       /\ LET d == Starting(s) IN
          /\ Typed(d)
          /\ \A f \in Families : d[Pending(f)] = None /\ \A n \in Names(f) \ parseOwnedNames(d, f) : d[<<f, n>>] = None
          /\ \A p \in GuidancePaths \cup {ownedFile, pendingFile} :
               d[p] # None => p \in RootFiles /\ d[p].route = None /\ d[p].legacy = "none" /\ ~d[p].link
          /\ \A h \in HookNames : d[Hook(h)] \in {None, hookScript} /\ d[Local(h)] = None
  /\ FamiliesOf["claude-code"] \cap FamiliesOf["codex"] = {}

VARIABLES
  play,       \* the scenario
  disk,       \* the files
  upstream,   \* the revision the guidance source is at
  run,        \* per worktree: the command in progress, or how the last one ended
  left,       \* how many runs, faults and changes there may still be
  kept,       \* files and blocks the user wrote, by path
  bodies,     \* per hook: the user's scripts, as of the last change
  ran,        \* ... and those of them that git ran
  meddled,    \* the user wrote where aiwf keeps its own, or linked its files
  asked,      \* packs in aiwf.yaml that the user put there
  raced       \* both worktrees were at the hooks together

vars == <<play, disk, upstream, run, left, kept, bodies, ran, meddled, asked, raced>>

Idle(w) == run[w].todo = <<>> /\ run[w].ops = <<>>
NoRun == [kind |-> "", ver |-> 0, cfg |-> None, hosts |-> {}, answer |-> None, todo |-> <<>>, ops |-> <<>>,
          undo |-> {}, part |-> <<"", "">>, said |-> {}, result |-> ""]
HookStages == <<<<"hook", "pre-push">>, <<"hook", "post-commit">>>>
OfHost(h) == <<<<"artifacts", h>>>> \o (IF h = "claude-code" THEN <<<<"fragment", h>>>> ELSE <<>>) \o <<<<"import", h>>>>

\* Init, then refreshArtifacts, then (if no hook is in conflict) Claude's hooks.
refreshArtifacts(hosts) ==
  (IF "claude-code" \in hosts THEN OfHost("claude-code") ELSE <<>>)
  \o (IF "codex" \in hosts THEN OfHost("codex") ELSE <<>>)
  \o <<<<"guidance", "">>, <<"files", "">>>> \o HookStages
  \o (IF "claude-code" \in hosts THEN <<<<"registry", "">>>> ELSE <<>>)
Stages == {"config", "claude-md", "guidance", "files", "registry"} \X {""} \cup {"artifacts", "fragment", "import"} \X Hosts
          \cup {"hook"} \X HookNames
StagesOf(kind, hosts) ==
  (IF kind = "init" THEN <<<<"config", "">>>> \o (IF "claude-code" \in hosts THEN <<<<"claude-md", "">>>> ELSE <<>>) ELSE <<>>)
  \o refreshArtifacts(hosts)

\* What a stage does: given the files, and the configuration the run has read.
Decided(d, r) == IF d[Yaml].decision = None THEN r.answer ELSE d[Yaml].decision
PlanOf(d, rev, r, stage) ==
  CASE stage[1] = "config" -> Steps(ensureConfig(d))
    [] stage[1] = "claude-md" -> Steps(ensureClaudeMd(d))
    [] stage[1] = "artifacts" -> materializeArtifactFamilies(d, stage[2], r.ver)
    [] stage[1] = "fragment" -> Steps(<<put(Fragment, Made(r.ver))>>)
    [] stage[1] = "import" -> Steps(ensureGuidanceImport(d, stage[2], r.ver, r.cfg))
    [] stage[1] = "guidance" -> ensureProjectGuidance(d, rev, r.cfg, r.hosts, r.ver)
    [] stage[1] = "files" -> Steps(LegacyClean(d) \o <<put(Example, Made(r.ver))>> \o ensureGitignore(d, r.cfg, r.hosts))
    [] stage[1] = "hook" -> ensureHook(d, stage[2], r.cfg)
    [] stage[1] = "registry" -> Steps(<<put(Yaml, [d[Yaml] EXCEPT !.decision = Decided(d, r)])>> \o SyncHook(d, Decided(d, r)))

-----------------------------------------------------------------------------
\* A run: it reads aiwf.yaml once, and plans each stage from the files as they are.
Start(w, kind, v, answer) ==
  LET hosts == ResolveHosts(disk)
      cfg == IF disk[Yaml] = None THEN DefaultConfig ELSE disk[Yaml] IN
  /\ Idle(w) /\ left.runs > 0
  /\ IF kind = "init" THEN disk[Yaml] = None \/ "init" \in play.edits ELSE disk[Yaml] # None  \* bound
  /\ w = "linked" => play.linked /\ kind = "update"
  /\ run' = [run EXCEPT ![w] = [NoRun EXCEPT !.kind = kind, !.ver = v, !.answer = answer, !.cfg = cfg, !.hosts = hosts,
               !.todo = IF w = "main" THEN StagesOf(kind, hosts) ELSE HookStages, !.result = "running"]]
  /\ left' = [left EXCEPT !.runs = @ - 1]
  /\ UNCHANGED <<play, disk, upstream, kept, bodies, ran, meddled, asked, raced>>

Ends(r, result) == [r EXCEPT !.todo = <<>>, !.ops = <<>>, !.undo = {}, !.part = <<"", "">>, !.result = result]
AtHooks(w) == run[w].part[1] = "hook" /\ run[w].ops # <<>>

\* The next stage.  Guidance that cannot be fetched or installed is reported, and
\* the run goes on; so it does after a hook it must not replace.
Begin(w) ==
  /\ run[w].ops = <<>> /\ run[w].todo # <<>>
  /\ LET r == run[w]
         stage == Head(r.todo)
         plan == PlanOf(disk, upstream, r, stage)
     IN run' = [run EXCEPT ![w] =
          IF plan.err = "abort" THEN Ends([r EXCEPT !.said = @ \cup {"refused"}], "failed")
          ELSE IF stage[1] = "registry" /\ "conflict" \in r.said THEN Ends(r, "findings")
          ELSE [r EXCEPT !.todo = Tail(@), !.ops = plan.ops, !.undo = plan.undo, !.part = stage,
                         !.said = IF plan.err = "" THEN @ ELSE @ \cup {plan.err}]]
  /\ UNCHANGED <<play, disk, upstream, left, kept, bodies, ran, meddled, asked, raced>>

Unreachable(w) ==
  /\ run[w].ops = <<>> /\ run[w].todo # <<>> /\ Head(run[w].todo)[1] = "guidance" /\ left.faults > 0
  /\ run' = [run EXCEPT ![w].todo = Tail(@), ![w].said = @ \cup {"unreachable"}]
  /\ left' = [left EXCEPT !.faults = @ - 1]
  /\ UNCHANGED <<play, disk, upstream, kept, bodies, ran, meddled, asked, raced>>

Do(w) ==
  /\ run[w].ops # <<>>
  /\ Possible(disk, Head(run[w].ops))
  /\ disk' = Effect(disk, Head(run[w].ops))
  /\ run' = [run EXCEPT ![w].ops = Tail(@)]
  /\ raced' = (raced \/ (AtHooks(w) /\ \E o \in Worktrees \ {w} : AtHooks(o)))
  /\ UNCHANGED <<play, upstream, left, kept, bodies, ran, meddled, asked>>

\* An operation fails: it cannot be done, or the file system refuses it.  The
\* temporary files of the guidance are removed and the run goes on.
Removed(d, S) == [p \in Paths |-> IF p \in S THEN None ELSE d[p]]
Fail(w) ==
  /\ run[w].ops # <<>>
  /\ \/ ~Possible(disk, Head(run[w].ops)) /\ UNCHANGED left
     \/ left.faults > 0 /\ left' = [left EXCEPT !.faults = @ - 1]
  /\ disk' = Removed(disk, run[w].undo)
  /\ LET r == run[w] IN
     run' = [run EXCEPT ![w] = IF r.part[1] = "guidance" THEN [r EXCEPT !.ops = <<>>, !.undo = {}, !.said = @ \cup {"fault"}]
                               ELSE Ends(r, "failed")]
  /\ UNCHANGED <<play, upstream, kept, bodies, ran, meddled, asked, raced>>

Crash(w) ==
  /\ ~Idle(w) /\ left.faults > 0
  /\ left' = [left EXCEPT !.faults = @ - 1]
  /\ run' = [run EXCEPT ![w] = Ends(@, "crashed")]
  /\ UNCHANGED <<play, disk, upstream, kept, bodies, ran, meddled, asked, raced>>

Finish(w) ==
  /\ Idle(w) /\ run[w].result = "running"
  /\ run' = [run EXCEPT ![w].result = IF "conflict" \in run[w].said THEN "findings" ELSE "done"]
  /\ UNCHANGED <<play, disk, upstream, left, kept, bodies, ran, meddled, asked, raced>>

-----------------------------------------------------------------------------
\* What the user changes between runs (bound: not during one).  `files` maps the
\* changed paths to their new contents.
Bodies(d, h) == {d[p].by : p \in {p \in {Hook(h), Local(h)} : Theirs(d[p])}}
Change(name, files, now, meddles, wants) ==
  LET d == [p \in Paths |-> IF p \in DOMAIN files THEN files[p] ELSE disk[p]] IN
  /\ name \in play.edits /\ left.changes > 0 /\ \A w \in Worktrees : Idle(w) /\ run[w].result # "running"
  /\ d # disk
  /\ disk' = d /\ kept' = now /\ meddled' = (meddled \/ meddles) /\ asked' = asked \cup wants
  /\ bodies' = [h \in HookNames |-> Bodies(d, h)]
  /\ ran' = [h \in HookNames |-> Runs(d, h) \ {"aiwf"}]
  /\ run' = [w \in Worktrees |-> NoRun]
  /\ left' = [left EXCEPT !.changes = @ - 1]
  /\ UNCHANGED <<play, upstream, raced>>
Keep(p, c) == {k \in kept : k[1] # p} \cup {<<p, c>>}
Only(p, c) == [q \in {p} |-> c]
Forget(S) == {k \in kept : k[1] \notin S}

Owns(p) == \E f \in Families : p[1] = f /\ p[2] \in parseOwnedNames(disk, f) \cup DOMAIN parseArtifactReceipts(disk, f)
AuthorArtifact == \E p \in Artifacts : ~Owns(p) /\ Change("author", Only(p, Mine), Keep(p, Mine), TRUE, {})
EditArtifact == \E p \in Artifacts : Owns(p) /\ disk[p] # None /\ Change("edit", Only(p, Damaged), kept, p[2] \notin parseOwnedNames(disk, p[1]), {})
CleanArtifacts ==  \* git clean -X, or a fresh clone: what is ignored is gone
  LET S == {p \in Paths : p[1] \in Families \cup {"claude"}} \ {Settings, Script} IN
  Change("clean", [p \in S |-> None], Forget(S), FALSE, {})
SelectHosts == \E hosts \in SUBSET Hosts : hosts # {} /\ Change("hosts", Only(Yaml, [disk[Yaml] EXCEPT !.hosts = hosts]), kept, FALSE, {})

Configure(name, c, wants) == Change(name, Only(Yaml, c), kept, FALSE, wants)
SelectPacks == \E p \in Packs, packs \in {IF disk[Yaml].packs = None THEN {} ELSE disk[Yaml].packs} :
                 Configure("packs", [disk[Yaml] EXCEPT !.packs = IF p \in packs THEN packs \ {p} ELSE packs \cup {p}], {p})
IgnorePack == \E p \in Packs : Configure("ignore", [disk[Yaml] EXCEPT !.ignored = @ \cup {p}], {})
WireHosts == \E h \in Hosts : Configure("wire", [disk[Yaml] EXCEPT !.wired = IF h \in @ THEN @ \ {h} ELSE @ \cup {h}], {})
EditPolicy == \E p \in GuidancePaths \ RootFiles : Change("policy", Only(p, Mine), Keep(p, Mine), TRUE, {})
DeletePolicy == \E p \in GuidancePaths : disk[p] # None /\ Change("delete", Only(p, None), Forget({p}), FALSE, {})
EditRoute == \E p \in RootFiles, r \in {Mine, Damaged} :
               disk[p] # None /\ Change("route", Only(p, [disk[p] EXCEPT !.route = r]), Keep(p, r), TRUE, {})
LegacyImport == \E p \in RootFiles, l \in {"block", "handwritten"} :
                  Change("legacy", Only(p, [At(disk, p) EXCEPT !.legacy = l]), kept, TRUE, {})
LinkInstructions == \E p \in RootFiles : Change("link", Only(p, [At(disk, p) EXCEPT !.link = TRUE]), kept, TRUE, {})
AddFiles == \E p \in Packs : Change("project", Only(Project, disk[Project] \cup {p}), kept, FALSE, {})

OwnHook(p, o) == \E x \in BOOLEAN, b \in {"user", "other"} : Change("hooks", Only(p, [by |-> b, x |-> x]), kept, Theirs(disk[o]), {})
PlaceHook == \E h \in HookNames : OwnHook(Hook(h), Local(h))
PlaceLocal == \E h \in HookNames : OwnHook(Local(h), Hook(h))
ToggleAuto == Configure("auto", [disk[Yaml] EXCEPT !.auto = ~@], {})
ToggleCommit == Configure("site", [disk[Yaml] EXCEPT !.commitOutput = ~@], {})
ToggleGuidance == Configure("maintain", [disk[Yaml] EXCEPT !.enabled = ~@], {})
Decide == \E x \in {None, "on", "off"} : Configure("decide", [disk[Yaml] EXCEPT !.decision = x], {})
EditSettings == \E b \in BOOLEAN : Change("settings", Only(Settings, [parses |-> b, entries |-> {"user"}]), Keep(Settings, "user"), ~b, {})

Publish ==
  /\ upstream + 1 \in DOMAIN Catalogue /\ "publish" \in play.edits /\ \A w \in Worktrees : Idle(w)
  /\ upstream' = upstream + 1
  /\ run' = [w \in Worktrees |-> NoRun]
  /\ UNCHANGED <<play, disk, left, kept, bodies, ran, meddled, asked, raced>>

-----------------------------------------------------------------------------
Init ==
  /\ play \in Scenarios
  /\ disk = Starting(play)
  /\ upstream = Min(DOMAIN Catalogue)
  /\ run = [w \in Worktrees |-> NoRun]
  /\ left = [runs |-> play.runs, faults |-> play.faults, changes |-> play.changes]
  /\ kept = {} /\ meddled = FALSE /\ asked = {} /\ raced = FALSE
  /\ bodies = [h \in HookNames |-> {}] /\ ran = [h \in HookNames |-> {}]

Changes ==
  \/ AuthorArtifact \/ EditArtifact \/ CleanArtifacts \/ SelectHosts
  \/ SelectPacks \/ IgnorePack \/ WireHosts \/ EditPolicy \/ DeletePolicy \/ EditRoute \/ LegacyImport
  \/ LinkInstructions \/ AddFiles \/ PlaceHook \/ PlaceLocal \/ ToggleAuto \/ ToggleCommit \/ ToggleGuidance
  \/ Decide \/ EditSettings \/ Publish

Next ==
  \/ \E w \in Worktrees :
       \/ \E kind \in {"init", "update"}, v \in play.versions, answer \in play.answers :
            Start(w, kind, v, answer)
       \/ Begin(w) \/ Unreachable(w) \/ Do(w) \/ Fail(w) \/ Crash(w) \/ Finish(w)
  \/ disk[Yaml] # None /\ Changes

Spec == Init /\ [][Next]_vars
-----------------------------------------------------------------------------
TypeOK ==
  /\ Typed(disk)
  /\ \A h \in HookNames : {disk[Hook(h)], disk[Local(h)]} \subseteq {None} \cup Scripts
  /\ play \in Scenarios /\ upstream \in DOMAIN Catalogue /\ left \in [runs : Nat, faults : Nat, changes : Nat]
  /\ run = [w \in Worktrees |-> run[w]]
  /\ \A w \in Worktrees : run[w] \in
       [kind : {"", "init", "update"}, ver : {0} \cup Versions, cfg : {None} \cup Configs, hosts : SUBSET Hosts,
        answer : {None, "on", "off"}, todo : Seq(Stages), ops : Seq(Range(run[w].ops)), undo : SUBSET Temps,
        part : {<<"", "">>} \cup Stages, said : SUBSET {"refused", "blocked", "conflict", "unreachable", "fault"},
        result : {"", "running", "done", "findings", "failed", "crashed"}]
  /\ {meddled, raced} \subseteq BOOLEAN /\ asked \subseteq Packs

\* No run, of any version, interrupted anywhere, overwrites or removes an artifact, a
\* guidance file, a routed block or a setting that the user wrote.
UserFilesKept ==
  \A k \in kept : LET p == k[1] IN
    CASE p \in RootFiles -> At(disk, p).route = k[2]
      [] p = Settings -> disk[p] # None /\ k[2] \in disk[p].entries
      [] OTHER -> disk[p] = k[2]

\* A hook that was there before aiwf's is never lost: it is the hook or its .local,
\* whatever step a run stops at.  Two worktrees at once are another matter.
HookBodiesKept == ~raced => \A h \in HookNames : bodies[h] \subseteq Bodies(disk, h)

\* ... and after a run git still runs it, unless the post-commit hook was opted out of.
HooksStillRun ==
  \A w \in Worktrees : run[w].result \in {"done", "findings"} /\ ~raced =>
    \A h \in HookNames : (h = "post-commit" => disk[Yaml].auto) => ran[h] \subseteq Runs(disk, h)

\* No run takes anything of the user's: files and settings keep their text, a hook that
\* was there before aiwf's keeps its body and still runs.
UsersWorkKept == UserFilesKept /\ HookBodiesKept /\ HooksStillRun

\* What aiwf left behind, after crashes, upgrades, downgrades and changed selections,
\* never makes a later run refuse.
NeverStuck ==
  ~meddled /\ ~raced => \A w \in Worktrees : run[w].said \cap {"refused", "blocked", "conflict"} = {}

\* Every artifact and pack aiwf wrote is claimed by a record, also in mid-run: a
\* later version can retire it.
NothingOrphaned ==
  /\ \A f \in Families : \A p \in {p \in Artifacts : p[1] = f} :
       disk[p] \in {Made(v) : v \in Versions} => p[2] \in parseOwnedNames(disk, f) \cup DOMAIN parseArtifactReceipts(disk, f)
  /\ \A k \in Packs : disk[Pack(k)] \notin {None, Mine} =>
       Pack(k) \in DOMAIN recordOf(disk, ownedFile) \cup DOMAIN recordOf(disk, pendingFile)

\* Where the user leaves them alone, and no recovery record says otherwise, the index and the packs are of one
\* revision of the catalogue, and the packs are those the index lists.
PolicyWholeOrPending ==
  LET index == disk[indexFile]
      listed == IF index = None THEN {} ELSE index[3]
  IN disk[pendingFile] = None /\ ~meddled /\ "delete" \notin play.edits =>
       \A k \in Packs : disk[Pack(k)] = IF k \in listed THEN <<"pack", index[2]>> ELSE None

\* An interrupted or finished run leaves nothing no record speaks of.
NothingLeftBehind == NothingOrphaned /\ PolicyWholeOrPending

Clean(w) == run[w].result = "done" /\ run[w].said = {} /\ \A o \in Worktrees \ {w} : run[o] = NoRun
\* A second update by the same binary changes nothing.
SecondRunChangesNothing ==
  Clean("main") =>
    LET again == [run["main"] EXCEPT !.cfg = disk[Yaml], !.hosts = ResolveHosts(disk), !.answer = None] IN
    \A stage \in Range(refreshArtifacts(again.hosts)) : Effects(disk, PlanOf(disk, upstream, again, stage).ops) = disk

\* After a clean run the doctor has nothing to report that an update would repair:
\* what is left is the user's to settle.
DoctorSatisfied ==
  Clean("main") =>
    LET cfg == disk[Yaml]
        usersToSettle ==
          {FileOf[h] : h \in Hosts \ (ResolveHosts(disk) \cap cfg.wired)}
          \cup {Pack(p) : p \in Packs \ Catalogue[upstream]}
          \cup (IF cfg.enabled /\ cfg.packs # None THEN {} ELSE GuidancePaths \cup {pendingFile})
          \cup {Hook(h) : h \in {h \in HookNames : localChainProblem(disk, h) \/ (h = "post-commit" /\ ~cfg.auto /\ Theirs(disk[Hook(h)]))}}
    IN \A i \in DoctorReport(disk, run["main"].ver) : i[1] \in usersToSettle \/ i[2] = "undecided"

\* One run is enough: neither a second one nor the doctor finds anything to do.
Converged == SecondRunChangesNothing /\ DoctorSatisfied

\* A pack is recorded in aiwf.yaml by aiwf only once it is installed.
AdoptedIsInstalled ==
  [][\A p \in Packs :
       disk[Yaml] # None /\ p \in Chosen(disk'[Yaml]) \ (Chosen(disk[Yaml]) \cup asked') =>
         /\ Pack(p) \in DOMAIN recordOf(disk', ownedFile) /\ disk'[pendingFile] = None /\ disk'[Pack(p)] # None]_vars
=============================================================================
