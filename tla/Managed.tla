------------------------------- MODULE Managed -------------------------------
(***************************************************************************)
(* What `aiwf init` and `aiwf update` keep in a repository besides the     *)
(* planning tree: generated skills and agents (internal/skills), project   *)
(* guidance installed from a catalogue (internal/projectguidance), blocks  *)
(* in CLAUDE.md and AGENTS.md, git hooks, .gitignore lines and one         *)
(* settings entry (internal/initrepo).  Each part is a function from the   *)
(* files on disk to the operations it performs on them, in order; `aiwf    *)
(* doctor` is a function from the files to what it reports.                *)
(*                                                                         *)
(* The disk maps paths to contents.  A content is told apart by who made   *)
(* it and from what, so a digest is the content itself.                    *)
(***************************************************************************)
EXTENDS Naturals, Sequences, FiniteSets, FiniteSetsExt, SequencesExt

CONSTANTS
  None,
  FamiliesOf,   \* per host: its families of artifacts (skills, agents, templates)
  Shipped,      \* per version of the binary, the names of each family's artifacts
  Catalogue     \* per revision of the guidance source: the packs it lists

Versions == DOMAIN Shipped
Packs == UNION {Catalogue[r] : r \in DOMAIN Catalogue}
Hosts == {"claude-code", "codex"}
FileOf == [h \in Hosts |-> <<"root", IF h = "codex" THEN "AGENTS.md" ELSE "CLAUDE.md">>]
Families == UNION {FamiliesOf[h] : h \in Hosts}
Made(v) == <<"aiwf", v>>
Mine == <<"user", "text">>
Damaged == <<"user", "damaged markers">>

\* Paths.
Owned(f) == <<f, ".aiwf-owned">>
Pending(f) == <<f, ".aiwf-pending">>
Names(f) == UNION {Shipped[v][f] : v \in Versions}
Artifacts == UNION {{<<f, n>> : n \in Names(f)} : f \in Families}
Pack(p) == <<"packs", p>>
indexFile == <<"guidance", "index.md">>
ownedFile == <<"guidance", ".aiwf-owned">>
pendingFile == <<"guidance", ".aiwf-pending">>
RootFiles == {FileOf[h] : h \in Hosts}
GuidancePaths == {Pack(p) : p \in Packs} \cup {indexFile} \cup RootFiles
Temp(p, g) == <<"temp", p, g>>
Temps == {Temp(p, g) : p \in GuidancePaths, g \in {1, 2}}
HookNames == {"pre-push", "post-commit"}
Hook(h) == <<"hooks", h>>
Local(h) == <<"local", h>>
Yaml == <<"root", "aiwf.yaml">>
Fragment == <<"claude", "aiwf-guidance.md">>
Example == <<"root", "aiwf.example.yaml">>
Gitignore == <<"root", ".gitignore">>
Script == <<"claude", "hook script">>
Settings == <<"claude", "settings.json">>
Project == <<"root", "project files">>   \* the kinds of source files git lists
Cli == <<"root", "PATH">>                \* the hosts whose command is installed
Paths == Artifacts \cup {Owned(f) : f \in Families} \cup {Pending(f) : f \in Families}
  \cup GuidancePaths \cup {ownedFile, pendingFile} \cup Temps
  \cup {Hook(h) : h \in HookNames} \cup {Local(h) : h \in HookNames}
  \cup {Yaml, Fragment, Example, Gitignore, Script, Settings, Project, Cli}

\* An instruction file: handwritten text, aiwf's import block, the block that
\* routes to the project guidance, older imports, and whether it is a link.
BlankFile == [import |-> None, route |-> None, legacy |-> "none", link |-> FALSE]

\* What can be at a path besides nothing.
Mades == {Made(v) : v \in Versions}
Installed == {<<"pack", r>> : r \in DOMAIN Catalogue} \cup {<<"index", r, S>> : r \in DOMAIN Catalogue, S \in SUBSET Packs}
             \cup {<<"route", v>> : v \in Versions}
Receipts == [before : {None} \cup Installed, after : {None} \cup Installed, temp : 0..2]
Roots == [import : {None, Made(0)} \cup Mades, route : {None, Mine, Damaged} \cup Installed,
          legacy : {"none", "block", "handwritten"}, link : BOOLEAN]
Configs == [hosts : {None} \cup SUBSET Hosts, wired : SUBSET Hosts, packs : {None} \cup SUBSET Packs, ignored : SUBSET Packs,
            enabled : BOOLEAN, auto : BOOLEAN, commitOutput : BOOLEAN, legacy : BOOLEAN, decision : {None, "on", "off"}]
Scripts == [by : {"aiwf", "user", "other"}, x : BOOLEAN]
SettingsFiles == [parses : BOOLEAN, entries : SUBSET {"user", "aiwf"}]
Lines == SUBSET (Hosts \cup {"example", "STATUS.md", "site/"})

\* None at all, or what fits there; hooks are told apart in Refresh, temporary
\* files hold whatever was being written.
Fits(p, c) == c = None \/
  /\ p \in Artifacts => c \in {Mine, Damaged} \cup Mades
  /\ \A f \in Families : /\ p = Owned(f) => c \in SUBSET Names(f)
                         /\ p = Pending(f) => \E N \in SUBSET Names(f) : c \in [N -> Mades]
  /\ p \in {Pack(k) : k \in Packs} => c \in {Mine} \cup {<<"pack", r>> : r \in DOMAIN Catalogue}
  /\ p = indexFile => c \in {Mine} \cup {<<"index", r, S>> : r \in DOMAIN Catalogue, S \in SUBSET Packs}
  /\ p = ownedFile => \E N \in SUBSET GuidancePaths : c \in [N -> Installed]
  /\ p = pendingFile => \E N \in SUBSET GuidancePaths : c \in [N -> Receipts]
  /\ p \in RootFiles => c \in Roots
  /\ p = Yaml => c \in Configs
  /\ p \in {Fragment, Example} => c \in Mades
  /\ p = Gitignore => c \in Lines
  /\ p = Script => c = [by |-> "aiwf", x |-> TRUE]
  /\ p = Settings => c \in SettingsFiles
Typed(d) == /\ d = [p \in Paths |-> d[p]] /\ \A p \in Paths : Fits(p, d[p])
            /\ d[Project] \in SUBSET Packs /\ d[Cli] \in SUBSET Hosts

ASSUME ManagedAssumption ==
  /\ \A f \in Families : IsFiniteSet(Names(f)) /\ {".aiwf-owned", ".aiwf-pending"} \cap Names(f) = {}
  /\ \A h \in Hosts : IsFiniteSet(FamiliesOf[h])
  /\ Families \cap {"root", "claude", "hooks", "local", "packs", "guidance", "temp"} = {}
  /\ IsFiniteSet(Packs) /\ DOMAIN Catalogue \subseteq Nat /\ DOMAIN Catalogue # {}
  /\ None \notin Installed /\ None \notin Mades \cup {Made(0), Mine, Damaged} /\ None \notin {"on", "off"}
  /\ None \notin Roots /\ None \notin Configs /\ None \notin Scripts /\ None \notin SettingsFiles
  /\ \A N \in SUBSET GuidancePaths : None \notin [N -> Installed] /\ None \notin [N -> Receipts]
  /\ \A f \in Families : \A N \in SUBSET Names(f) : N # None /\ None \notin [N -> Mades]
  /\ \A S \in UNION {Lines, SUBSET Packs, SUBSET Hosts} : S # None

-----------------------------------------------------------------------------
\* Operations on files, each atomic: a file is replaced, removed or renamed.
put(p, c) == [op |-> "put", at |-> p, what |-> c]
del(p) == put(p, None)
move(p, q) == [op |-> "move", at |-> q, what |-> p]
chmod(p) == [op |-> "chmod", at |-> p, what |-> None]
stop == [op |-> "stop", at |-> None, what |-> None]
Possible(d, o) == o.op \notin {"stop"} /\ (o.op = "move" => d[o.what] # None) /\ (o.op = "chmod" => d[o.at] # None)
Effect(d, o) ==
  CASE o.op = "put" -> [d EXCEPT ![o.at] = o.what]
    [] o.op = "move" -> [d EXCEPT ![o.at] = d[o.what], ![o.what] = None]
    [] o.op = "chmod" -> [d EXCEPT ![o.at].x = TRUE]
    [] o.op = "stop" -> d
Effects(d, ops) == FoldLeft(Effect, d, ops)

\* What a part decides: its operations, the files it removes again when one of
\* them fails, and an `err` that ends the run, blocks this part, or is reported
\* at the end ("conflict").
Steps(ops) == [err |-> "", ops |-> ops, undo |-> {}]
Refuse(err) == [err |-> err, ops |-> <<>>, undo |-> {}]
Over(S, F(_)) == LET q == SetToSeq(S) IN [i \in DOMAIN q |-> F(q[i])]

-----------------------------------------------------------------------------
(* Generated artifacts: one family of a host.                              *)

parseOwnedNames(d, f) == IF d[Owned(f)] = None THEN {} ELSE d[Owned(f)]
parseArtifactReceipts(d, f) == IF d[Pending(f)] = None THEN <<>> ELSE d[Pending(f)]

recoveredArtifacts(d, f) ==
  LET pending == parseArtifactReceipts(d, f) IN
    {n \in DOMAIN pending \ parseOwnedNames(d, f) : d[<<f, n>>] = pending[n] /\ d[<<f, n>>] # None}

planArtifactFamily(d, f, v) ==
  LET pending == parseArtifactReceipts(d, f)
      recovered == recoveredArtifacts(d, f)
      prior == parseOwnedNames(d, f) \cup recovered
      new == Shipped[v][f] \ prior
      claimed == DOMAIN pending
  IN [refused |-> \/ \E n \in claimed \ prior : d[<<f, n>>] # None
                  \/ \E n \in new \ claimed : d[<<f, n>>] # None,
      prior |-> prior, recovered |-> recovered # {},
      receipts |-> [n \in claimed \cup new |-> IF n \in new THEN Made(v) ELSE pending[n]],
      hadPending |-> d[Pending(f)] # None]

Mut_receiptAfterFiles(f, v, plan) ==  \* Mutant: the receipt is written once the files are there.
  Over(plan.prior \ Shipped[v][f], LAMBDA n : del(<<f, n>>))
  \o Over(Shipped[v][f], LAMBDA n : put(<<f, n>>, Made(v)))
  \o <<put(Pending(f), plan.receipts), put(Owned(f), Shipped[v][f]), del(Pending(f))>>
applyArtifactPlan(f, v, plan) ==
  LET journal == DOMAIN plan.receipts # {} IN
  (IF plan.recovered THEN <<put(Owned(f), plan.prior)>> ELSE <<>>)
  \o (IF journal THEN <<put(Pending(f), plan.receipts)>> ELSE <<>>)
  \o Over(plan.prior \ Shipped[v][f], LAMBDA n : del(<<f, n>>))
  \o Over(Shipped[v][f], LAMBDA n : put(<<f, n>>, Made(v)))
  \o <<put(Owned(f), Shipped[v][f])>>
  \o (IF plan.hadPending \/ journal THEN <<del(Pending(f))>> ELSE <<>>)

\* Every family is planned before the first of them is written.
materializeArtifactFamilies(d, h, v) ==
  LET F == FamiliesOf[h] IN
  IF \E f \in F : planArtifactFamily(d, f, v).refused THEN Refuse("abort")
  ELSE Steps(FlattenSeq(Over(F, LAMBDA f : applyArtifactPlan(f, v, planArtifactFamily(d, f, v)))))

-----------------------------------------------------------------------------
(* Blocks in the instruction files.                                        *)

\* A link to the other file makes both untouchable; `refusal` in the code.
inspectInstructionFiles(d) == {p \in RootFiles : \E q \in RootFiles : d[q] # None /\ d[q].link}
At(d, p) == IF d[p] = None THEN BlankFile ELSE d[p]

\* ensureGuidanceImport for CLAUDE.md, ensureAgentsGuidance for AGENTS.md, whose
\* block carries text of the binary.  Damaged markers are left alone.
importBlock(h, v) == IF h = "codex" THEN Made(v) ELSE Made(0)
ensureGuidanceImport(d, h, v, cfg) ==
  LET p == FileOf[h] IN
  IF h \notin cfg.wired \/ p \in inspectInstructionFiles(d) \/ At(d, p).import \in {Damaged, importBlock(h, v)} THEN <<>>
  ELSE <<put(p, [At(d, p) EXCEPT !.import = importBlock(h, v)])>>

-----------------------------------------------------------------------------
(* Project guidance: packs of a catalogue, an index, and a route to them in *)
(* each instruction file that is wired.                                     *)

\* What an installation owns of a file: a block of an instruction file, all of
\* any other.  Damaged markers are an error, here a value no digest equals.
ownedBytes(d, p) == IF p \in RootFiles THEN At(d, p).route ELSE d[p]

renderInstallation(rev, sel, hosts, v) ==
  [p \in {Pack(k) : k \in sel \cap Catalogue[rev]} \cup {indexFile} \cup {FileOf[h] : h \in hosts} |->
     IF p = indexFile THEN <<"index", rev, sel \cap Catalogue[rev]>> ELSE IF p \in RootFiles THEN <<"route", v>> ELSE <<"pack", rev>>]

recordOf(d, p) == IF d[p] = None THEN <<>> ELSE d[p]
recognizes(receipt, bytes) == bytes \in {receipt.before, receipt.after}

Mut_anyReceipt(d, p) ==  \* Mutant: a receipt speaks for its path whatever was written there since.
  \/ ownedBytes(d, p) = None
  \/ p \in DOMAIN recordOf(d, ownedFile) /\ ownedBytes(d, p) = recordOf(d, ownedFile)[p]
  \/ p \in DOMAIN recordOf(d, pendingFile)
Mut_ignoreReceipts(d, p) ==  \* Mutant: only the ownership record counts.
  \/ ownedBytes(d, p) = None
  \/ p \in DOMAIN recordOf(d, ownedFile) /\ ownedBytes(d, p) = recordOf(d, ownedFile)[p]
replaceable(d, p) ==
  \/ ownedBytes(d, p) = None
  \/ p \in DOMAIN recordOf(d, ownedFile) /\ ownedBytes(d, p) = recordOf(d, ownedFile)[p]
  \/ p \in DOMAIN recordOf(d, pendingFile) /\ recognizes(recordOf(d, pendingFile)[p], ownedBytes(d, p))

\* replacementInput: legacy imports may be replaced in a selected file, by aiwf's
\* own block only when that is all there is of them.
legacyConflict(d, p, selected) == \/ At(d, p).legacy = "handwritten"
                                  \/ At(d, p).legacy = "block" /\ ~selected

\* The record an unselected instruction file keeps: its block is retained.
retainedRecord(d, p) ==
  LET pending == recordOf(d, pendingFile)
      owned == recordOf(d, ownedFile)
      b == ownedBytes(d, p) IN
  IF p \in DOMAIN pending /\ b \notin {None, Damaged} /\ recognizes(pending[p], b) THEN b
  ELSE IF p \in DOMAIN owned THEN owned[p]
  ELSE IF p \in DOMAIN pending THEN pending[p].after ELSE None

planInstallation(d, desired) ==
  LET names == RootFiles \cup DOMAIN desired \cup DOMAIN recordOf(d, ownedFile) \cup DOMAIN recordOf(d, pendingFile)
      retained == {p \in RootFiles : p \notin DOMAIN desired}
      after(p) == IF p \in DOMAIN desired THEN desired[p] ELSE None
      same(p) == ownedBytes(d, p) = after(p) /\ At(d, p).legacy = "none"
      changed == {p \in names \ retained : IF p \in RootFiles THEN ~same(p) ELSE d[p] # after(p)}
  IN [refused |-> \/ \E p \in RootFiles : At(d, p).link \/ legacyConflict(d, p, p \notin retained)
                  \/ \E p \in names \ retained : ~replaceable(d, p),
      writes |-> Over(changed \ {indexFile}, LAMBDA p : [at |-> p, before |-> ownedBytes(d, p), after |-> after(p)])
        \o (IF indexFile \in changed THEN <<[at |-> indexFile, before |-> d[indexFile], after |-> after(indexFile)]>> ELSE <<>>),
      owned |-> [p \in DOMAIN desired \cup {p \in retained : retainedRecord(d, p) # None} |->
                   IF p \in retained THEN retainedRecord(d, p) ELSE desired[p]]]

\* The new content is staged beside each file, the receipts are published, and
\* only then is each file replaced, the index last.
contentOf(d, w) == IF w.at \in RootFiles THEN [At(d, w.at) EXCEPT !.route = w.after, !.legacy = "none"] ELSE w.after
stagedAt(d, p) ==
  LET pending == recordOf(d, pendingFile) IN
    Temp(p, IF p \in DOMAIN pending /\ pending[p].temp = 1 THEN 2 ELSE 1)
Puts(writes) == {w \in Range(writes) : w.after # None}
stageInstallation(d, writes) ==
  LET pending == recordOf(d, pendingFile) IN
  Over(Puts(writes), LAMBDA w : put(stagedAt(d, w.at), contentOf(d, w)))
  \o Over({p \in DOMAIN pending : pending[p].temp # 0}, LAMBDA p : del(Temp(p, pending[p].temp)))
receipts(d, writes) ==
  LET pending == recordOf(d, pendingFile)
      of(p) == {w \in Range(writes) : w.at = p} IN
  [p \in DOMAIN pending \cup {w.at : w \in Range(writes)} |->
     IF of(p) = {} THEN [pending[p] EXCEPT !.temp = 0]
     ELSE LET w == CHOOSE w \in of(p) : TRUE IN
       [before |-> w.before, after |-> w.after, temp |-> IF w.after = None THEN 0 ELSE stagedAt(d, p)[3]]]
Renames(d, writes) ==
  [i \in DOMAIN writes |-> IF writes[i].after = None THEN del(writes[i].at) ELSE move(stagedAt(d, writes[i].at), writes[i].at)]
Mut_receiptLast(d, writes, owned) ==  \* Mutant: the receipts are published after the files.
  Renames(d, writes) \o <<put(pendingFile, receipts(d, writes)), put(ownedFile, owned), del(pendingFile)>>
publishInstallation(d, writes, owned) ==
  <<put(pendingFile, receipts(d, writes))>> \o Renames(d, writes) \o <<put(ownedFile, owned), del(pendingFile)>>

Install(d, desired) ==
  LET plan == planInstallation(d, desired) IN
  IF plan.refused THEN Refuse("blocked")
  ELSE IF plan.writes = <<>> /\ d[pendingFile] = None THEN Steps(<<>>)
  ELSE [err |-> "", ops |-> stageInstallation(d, plan.writes) \o publishInstallation(d, plan.writes, plan.owned),
        undo |-> {stagedAt(d, w.at) : w \in Puts(plan.writes)}]

\* Packs whose detection patterns match the project's files are adopted unless
\* ignored; the selection is recorded in aiwf.yaml once it is installed.
Chosen(cfg) == IF cfg.packs = None THEN {} ELSE cfg.packs
Detect(d, rev) == d[Project] \cap Catalogue[rev]
Mut_adoptedOnly(d, rev, cfg) ==  \* Mutant: what was selected before is dropped.
  LET added == Detect(d, rev) \ (Chosen(cfg) \cup cfg.ignored) IN IF added = {} THEN cfg.packs ELSE added
Adopt(d, rev, cfg) ==
  LET added == Detect(d, rev) \ (Chosen(cfg) \cup cfg.ignored) IN IF added = {} THEN cfg.packs ELSE added \cup Chosen(cfg)

Mut_recordFirst(d, rev, cfg, hosts, v) ==  \* Mutant: the selection is recorded before it is installed.
  LET selected == Adopt(d, rev, cfg) IN
  IF ~cfg.enabled \/ selected = None THEN Steps(<<>>)
  ELSE LET install == Install(d, renderInstallation(rev, selected, hosts \cap cfg.wired, v)) IN
    IF install.err # "" \/ selected = cfg.packs THEN install
    ELSE [install EXCEPT !.ops = <<put(Yaml, [d[Yaml] EXCEPT !.packs = selected])>> \o @]
ensureProjectGuidance(d, rev, cfg, hosts, v) ==
  LET selected == Adopt(d, rev, cfg) IN
  IF ~cfg.enabled THEN Steps(<<>>)
  ELSE IF \E h \in hosts \cap cfg.wired : FileOf[h] \in inspectInstructionFiles(d) THEN Refuse("blocked")
  ELSE IF selected = None THEN Steps(<<>>)
  ELSE LET install == Install(d, renderInstallation(rev, selected, hosts \cap cfg.wired, v)) IN
    IF install.err # "" \/ selected = cfg.packs THEN install
    ELSE [install EXCEPT !.ops = @ \o <<put(Yaml, [d[Yaml] EXCEPT !.packs = selected])>>]

-----------------------------------------------------------------------------
(* Git hooks, shared by the worktrees of a repository.                      *)

Ours(c) == c # None /\ c.by = "aiwf"
Theirs(c) == c # None /\ c.by # "aiwf"
hookScript == [by |-> "aiwf", x |-> TRUE]

migrateHookToLocal(h) == <<move(Hook(h), Local(h)), chmod(Local(h))>>

Mut_migrateOver(d, h) ==  \* Mutant: an existing .local is not looked for.
  IF Theirs(d[Hook(h)]) THEN Steps(migrateHookToLocal(h) \o <<put(Hook(h), hookScript)>>)
  ELSE Steps(<<put(Hook(h), hookScript)>>)
ensurePreHook(d, h) ==
  IF ~Theirs(d[Hook(h)]) THEN Steps(<<put(Hook(h), hookScript)>>)
  ELSE IF d[Local(h)] # None THEN Refuse("conflict")
  ELSE Steps(migrateHookToLocal(h) \o <<put(Hook(h), hookScript)>>)
ensurePostCommitHook(d, h, cfg) ==
  IF cfg.auto THEN ensurePreHook(d, h) ELSE Steps(IF Ours(d[Hook(h)]) THEN <<del(Hook(h))>> ELSE <<>>)
ensureHook(d, h, cfg) == IF h = "post-commit" THEN ensurePostCommitHook(d, h, cfg) ELSE ensurePreHook(d, h)

\* What git runs for a hook: an executable file; aiwf's script runs .local first
\* (chainPrelude) and fails when that is there and not executable.
Mut_noChain(d, h) ==  \* Mutant: the script does not look for .local.
  IF d[Hook(h)] = None \/ ~d[Hook(h)].x THEN {} ELSE {d[Hook(h)].by}
Runs(d, h) ==
  IF d[Hook(h)] = None \/ ~d[Hook(h)].x THEN {}
  ELSE IF Theirs(d[Hook(h)]) THEN {d[Hook(h)].by}
  ELSE IF d[Local(h)] = None THEN {"aiwf"}
  ELSE IF d[Local(h)].x THEN {"aiwf", d[Local(h)].by} ELSE {}

-----------------------------------------------------------------------------
(* The rest: aiwf.yaml, .gitignore, and Claude's hook with its settings.    *)

DefaultConfig == [hosts |-> None, wired |-> Hosts, packs |-> None, ignored |-> {}, enabled |-> TRUE,
                  auto |-> TRUE, commitOutput |-> FALSE, legacy |-> FALSE, decision |-> None]
ResolveHosts(d) == IF d[Yaml] = None \/ d[Yaml].hosts = None THEN d[Cli] ELSE d[Yaml].hosts
ensureConfig(d) == IF d[Yaml] = None THEN <<put(Yaml, DefaultConfig)>> ELSE <<>>
ensureClaudeMd(d) == IF d[FileOf["claude-code"]] # None \/ FileOf["claude-code"] \in inspectInstructionFiles(d) THEN <<>>
                     ELSE <<put(FileOf["claude-code"], BlankFile)>>
LegacyClean(d) == IF d[Yaml] # None /\ d[Yaml].legacy THEN <<put(Yaml, [d[Yaml] EXCEPT !.legacy = FALSE])>> ELSE <<>>

Mut_neverRemoves(d, cfg, hosts) ==  \* Mutant: lines are added, none is taken out.
  LET lines == IF d[Gitignore] = None THEN {} ELSE d[Gitignore]
      wanted == hosts \cup {"example"} \cup (IF cfg.auto THEN {"STATUS.md"} ELSE {})
                \cup (IF cfg.commitOutput THEN {} ELSE {"site/"})
  IN IF wanted \subseteq lines THEN <<>> ELSE <<put(Gitignore, lines \cup wanted)>>
ensureGitignore(d, cfg, hosts) ==
  LET lines == IF d[Gitignore] = None THEN {} ELSE d[Gitignore]
      wanted == hosts \cup {"example"} \cup (IF cfg.auto THEN {"STATUS.md"} ELSE {})
                \cup (IF cfg.commitOutput THEN {} ELSE {"site/"})
      unwanted == (IF cfg.auto THEN {} ELSE {"STATUS.md"}) \cup (IF cfg.commitOutput THEN {"site/"} ELSE {})
      next == (lines \ unwanted) \cup wanted
  IN IF next = lines THEN <<>> ELSE <<put(Gitignore, next)>>

Entries(d) == IF d[Settings] = None THEN {} ELSE d[Settings].entries

\* The script first, then its settings entry; a settings file that does not
\* parse stops the run with the script already there.
Settle(d, entries) ==
  LET s == d[Settings] IN
  IF s # None /\ ~s.parses THEN <<stop>> ELSE IF entries = Entries(d) THEN <<>> ELSE <<put(Settings, [parses |-> TRUE, entries |-> entries])>>
WireHookSettings(d) == Settle(d, Entries(d) \cup {"aiwf"})
UnwireHookSettings(d) == Settle(d, Entries(d) \ {"aiwf"})
MaterializeHooks(decision) == IF decision = "on" THEN <<put(Script, hookScript)>> ELSE <<del(Script)>>
SyncHook(d, decision) ==
  CASE decision = "on" -> MaterializeHooks(decision) \o WireHookSettings(d)
    [] decision = "off" -> MaterializeHooks(decision) \o UnwireHookSettings(d)
    [] decision = None -> <<>>
-----------------------------------------------------------------------------
(* aiwf doctor: what it reports of these files, as <<path, what>>.          *)

InspectArtifacts(d, h, v) ==
  {<<p, "artifact">> : p \in {p \in UNION {{<<f, n>> : n \in Shipped[v][f]} : f \in FamiliesOf[h]} : d[p] # Made(v)}}

\* The writer's own plan says what is wrong with a root instruction file.
HostGuidanceReport(d, h, v, cfg) ==
  (IF h = "claude-code" /\ d[Fragment] # Made(v) THEN {<<Fragment, "artifact">>} ELSE {})
  \cup (IF h \in cfg.wired /\ (FileOf[h] \in inspectInstructionFiles(d) \/ At(d, FileOf[h]).import # importBlock(h, v))
        THEN {<<FileOf[h], "import">>} ELSE {})

Inspect(d) ==
  LET owned == recordOf(d, ownedFile)
      pending == recordOf(d, pendingFile)
      modified(p) == ownedBytes(d, p) # owned[p]
                     /\ ~(p \in DOMAIN pending /\ recognizes(pending[p], ownedBytes(d, p)))
      wrong == {p \in DOMAIN owned : ownedBytes(d, p) = None \/ modified(p)}
      intact == indexFile \in DOMAIN owned \ wrong
  IN [files |-> DOMAIN owned, intact |-> intact,
      packs |-> IF intact THEN d[indexFile][3] ELSE {},
      issues |-> {<<p, IF ownedBytes(d, p) = None THEN "missing" ELSE "modified">> : p \in wrong}]

ProjectGuidanceReport(d, cfg, hosts) ==
  LET report == Inspect(d) IN
  report.issues
  \cup (IF d[pendingFile] # None THEN {<<pendingFile, "pending">>} ELSE {})
  \cup (IF ~cfg.enabled \/ cfg.packs = None THEN {} ELSE
          {<<Pack(p), "not installed">> : p \in {p \in cfg.packs : report.intact /\ p \notin report.packs}}
          \cup {<<indexFile, "not installed">> : x \in {indexFile} \ report.files}
          \cup {<<p, "no route">> : p \in {FileOf[h] : h \in hosts \cap cfg.wired} \ report.files})

localChainProblem(d, h) == d[Local(h)] # None /\ ~d[Local(h)].x
HookReport(d, h, cfg) ==
  LET expected == h # "post-commit" \/ cfg.auto IN
  {<<Hook(h), "hook">> : x \in {x \in {h} : \/ expected /\ d[Hook(h)] = None
                                          \/ Theirs(d[Hook(h)])
                                          \/ (Ours(d[Hook(h)]) /\ (~expected \/ localChainProblem(d, h)))}}

RenderReport(d, cfg) ==
  IF cfg.commitOutput /\ d[Gitignore] # None /\ "site/" \in d[Gitignore] THEN {<<Gitignore, "drift">>} ELSE {}

HookDrift(d, decision) ==
  LET wired == d[Settings] # None /\ "aiwf" \in d[Settings].entries
      materialized == d[Script] # None IN
  IF decision = None THEN {<<Script, "undecided">>}
  ELSE IF d[Settings] # None /\ ~d[Settings].parses THEN {<<Settings, "unreadable">>}
  ELSE IF decision = "on" THEN IF materialized /\ wired THEN {} ELSE {<<Script, "not wired">>}
  ELSE IF materialized \/ wired THEN {<<Script, "stale">>} ELSE {}

DoctorReport(d, v) ==
  LET cfg == d[Yaml]
      hosts == ResolveHosts(d) IN
  UNION {InspectArtifacts(d, h, v) \cup HostGuidanceReport(d, h, v, cfg) : h \in hosts}
  \cup ProjectGuidanceReport(d, cfg, hosts)
  \cup UNION {HookReport(d, h, cfg) : h \in HookNames}
  \cup RenderReport(d, cfg)
  \cup (IF "claude-code" \in hosts THEN HookDrift(d, cfg.decision) ELSE {})
=============================================================================
