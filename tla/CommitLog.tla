----------------------------- MODULE CommitLog -----------------------------
(***************************************************************************)
(* The git history aiwf audits: commits with the entity files they hold,   *)
(* the branches, what of them the origin has, and the git readings the     *)
(* checks are built on (`git log --all --raw -M`, rev-list, merge-base,    *)
(* name-only diffs).  git itself is not part of the repository: it is      *)
(* modelled from how internal/gitops and internal/check call it.           *)
(*                                                                         *)
(* A commit is named by its place in `log`, which is also its date.  An    *)
(* entity file is [about, id, slug, prior, status]; `about` is a ghost:    *)
(* which entity the file has been about since it was added, whatever its   *)
(* id and path have become since.                                          *)
(***************************************************************************)
EXTENDS EntityFSM, Naturals, FiniteSets, SequencesExt, FiniteSetsExt

CONSTANTS Branches,   \* local branches, "main" among them
          Entities    \* the entities files are about: the ids they were first given

VARIABLES log,        \* Seq of commits, oldest first
          tip,        \* branch -> its commit, 0 where the branch does not exist
          pushes      \* branch -> the commits its pushes published, oldest first

vars == <<log, tip, pushes>>

\* What origin has of a branch, 0 where it has nothing.
upstream(b) == IF pushes[b] = <<>> THEN 0 ELSE Last(pushes[b])

KindOf(id) == id[1]
Path(f) == <<f.id, f.slug>>

Files(c) == IF c = 0 THEN {} ELSE log[c].files
Past(c)  == IF c = 0 THEN {} ELSE log[c].past
Line(c)  == IF c = 0 THEN <<>> ELSE log[c].line

\* Every commit some local or remote-tracking branch reaches.
All == UNION {Past(tip[b]) \cup Past(upstream(b)) : b \in Branches}

\* The latest commit both lines hold.
MergeBase(c, d) == Max((Past(c) \cap Past(d)) \cup {0})

Absent == [about |-> "none", id |-> <<"none", 0>>, slug |-> "none", prior |-> {}, status |-> None]

(***************************************************************************)
(* The raw diff of two trees with renames found (-M): a file at a kept     *)
(* path is modified; a file that left pairs with one that came, by the     *)
(* likeness of their contents.  An entity's own file is the likest; where  *)
(* it is gone, two entities written from one template are like enough.     *)
(***************************************************************************)
Diff(before, after) ==
  LET old == {f \in before : \A g \in after : Path(f) # Path(g)}
      new == {g \in after : \A f \in before : Path(f) # Path(g)}
      spare == {f \in old : \A g \in new : f.about # g.about}
      source(g) == LET own == {f \in old : f.about = g.about} IN IF own = {} THEN spare ELSE own
      touch(s, f, g) == [op |-> s, path |-> Path(IF g = Absent THEN f ELSE g), src |-> Path(f),
                         pre |-> f, post |-> g]
      renames == UNION {{touch("R", f, g) : f \in source(g)} : g \in new}
      kept == {p \in before \X after : Path(p[1]) = Path(p[2]) /\ p[1] # p[2]}
  IN {touch("M", p[1], p[2]) : p \in kept}
     \cup renames
     \cup {touch("A", Absent, g) : g \in {h \in new : source(h) = {}}}
     \cup {touch("D", f, Absent) : f \in {o \in old : \A t \in renames : t.pre # o}}

\* What a commit's log entry lists: a merge lists nothing without -m, and the first commit
\* changes no entity that was there before.
Touches(c) == log[c].touches

\* The ids of the paths a commit's name-only listing shows (a rename shows where it ended).
TouchedIDs(c) == {t.path[1] : t \in Touches(c)}

\* The ids of the paths `git diff-tree -r` shows: without -M both ends of a rename.
DiffTreeIDs(c) == UNION {{t.path[1], t.src[1]} : t \in Touches(c)} \ {Absent.id}

(***************************************************************************)
(* A three-way merge, file by file: a file either side removed goes, each  *)
(* attribute comes from the side that changed it, theirs where both did    *)
(* (the operator's resolution).                                            *)
(***************************************************************************)
Merged(base, ours, theirs) ==
  LET at(fs, u) == IF \E f \in fs : f.about = u THEN CHOOSE f \in fs : f.about = u ELSE Absent
      pick(o, a, b) == IF b = o THEN a ELSE b
      one(o, a, b) ==
        IF o # Absent /\ Absent \in {a, b} THEN Absent
        ELSE IF o = Absent THEN pick(o, a, b)
        ELSE [field \in DOMAIN o |-> pick(o[field], a[field], b[field])]
  IN {one(at(base, u), at(ours, u), at(theirs, u)) : u \in Entities} \ {Absent}
=============================================================================
