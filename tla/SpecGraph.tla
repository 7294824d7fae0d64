------------------------------ MODULE SpecGraph ------------------------------
(***************************************************************************)
(* The graph of specs, commits and code fragments in commit4spec.db: how a *)
(* build fills it from the history (src/spec/build), how an evolution      *)
(* brings it up to HEAD and rewrites the specs it affects (src/spec/evolve) *)
(* and how mining adds specs of its own (src/spec/mine).  Each is a process *)
(* of its own, started by hand or by the post-commit hook; only evolutions *)
(* take a lock, and it goes stale.                                         *)
(*                                                                         *)
(* Commits are numbered in the order of the history.  A record is <<s, 0>> *)
(* for spec s itself, <<s, v>> for what version v of it became (s_v<v>)    *)
(* and <<s, -1>> for the target of a deprecation (s_deprecated).  A text   *)
(* is the number of times the document had been rewritten; a record has    *)
(* the text its title and headings come from.  Fragments are known by      *)
(* their paths.                                                            *)
(***************************************************************************)
EXTENDS Integers, FiniteSets, FiniteSetsExt, Functions

CONSTANTS
  Procs,      \* processes that may run a command
  Specs,      \* names of specs, as numbers
  Documents,  \* those that have a document at first
  Last,       \* number of commits
  Scope,      \* the spec a commit's message names, or Unscoped
  Touches,    \* the paths a commit changes
  Mined,      \* the name mining gives to what ends with a commit
  HasClient,  \* an agent or an LLM is there
  MaxRuns,    \* commands that are started
  MayDie      \* processes that may be killed

Unscoped == 0
NoText == -1
Commits == 1..Last

SpecGraphAssumption ==
  /\ Specs \subseteq Nat \ {Unscoped} /\ Documents \subseteq Specs /\ Last \in Nat
  /\ Scope \in [Commits -> Specs \cup {Unscoped}]
  /\ DOMAIN Touches = Commits /\ Mined \in [Commits -> Specs]
  /\ HasClient \in BOOLEAN /\ MaxRuns \in Nat /\ MayDie \subseteq Procs

VARIABLES
  head,        \* HEAD, 0 before the first commit
  meta,        \* currentCommitID of meta.json: a commit, 0 if it has none, -1 without a file
  graph,       \* the tables of commit4spec.db
  disk,        \* the document of each spec, its .bak and its .new
  lock,        \* evolve.lock: "absent", "fresh", or "old"
  writer,      \* the process whose transaction holds the database
  run,         \* what each process does
  started,     \* commands started so far
  torn,        \* commits whose rows were replaced and not filled again
  cut,         \* specs with a rewrite that reached one of document and record
  overlapped   \* two commands have been under way at once

vars == <<head, meta, graph, disk, lock, writer, run, started, torn, cut, overlapped>>
world == <<head, started, overlapped>>

NoMeta == -1
Nobody == "nobody"
Idle == [job |-> "none", at |-> "idle", from |-> 0, upto |-> 0, took |-> {}, todo |-> {}, hit |-> {},
         due |-> {}, spec |-> 0, version |-> 0, seen |-> [s \in Specs |-> NoText]]
Steps == {"idle", "look", "take", "begin", "persist", "advance", "locate", "judge",
          "await", "backup", "install", "commit", "release",
          "range", "cluster", "spec", "node", "link", "fragments", "finish"}
Ids == Specs \X (Nat \cup {-1})
Texts == Nat \cup {NoText}
DocumentFiles == [plan : Texts, bak : Texts, new : Texts, rewritten : Nat]
Records == [status : {"active", "deprecated"}, version : Nat \ {0}, text : Texts]
Commands ==
  [job : {"none", "build", "mine", "evolve"}, at : Steps, from : -1..Last, upto : 0..Last,
   took : SUBSET Commits, todo : SUBSET Commits, hit : SUBSET Commits,
   due : SUBSET (Specs \X Commits), spec : Specs \cup {0}, version : Nat,
   seen : [Specs -> Texts]]

\* The tables, whose foreign keys find what they refer to.
IsGraph(g) ==
  /\ DOMAIN g = {"nodes", "commits", "links", "contains", "evolved"}
  /\ DOMAIN g.nodes \subseteq Ids /\ g.nodes \in [DOMAIN g.nodes -> Records]
  /\ g.commits \subseteq Commits
  /\ g.links \subseteq (DOMAIN g.nodes) \X g.commits \X {"GENERATE", "SUMMARIZED_FROM"}
  /\ g.contains \subseteq UNION {{c} \X Touches[c] : c \in g.commits}
  /\ g.evolved \subseteq (DOMAIN g.nodes) \X (DOMAIN g.nodes)
  /\ \A e \in g.evolved : e[1][1] = e[2][1]

TypeOK ==
  /\ head \in 0..Last /\ meta \in -1..Last
  /\ IsGraph(graph) /\ disk \in [Specs -> DocumentFiles]
  /\ lock \in {"absent", "fresh", "old"} /\ writer \in Procs \cup {Nobody}
  /\ run \in [Procs -> Commands] /\ overlapped \in BOOLEAN
  /\ started \in 0..MaxRuns /\ torn \subseteq Commits /\ cut \subseteq Specs

EmptyGraph ==
  [nodes |-> <<>>, commits |-> {}, links |-> {}, contains |-> {}, evolved |-> {}]

Quiet ==
  /\ disk = [s \in Specs |-> [plan |-> IF s \in Documents THEN 0 ELSE NoText,
                              bak |-> NoText, new |-> NoText, rewritten |-> 0]]
  /\ lock = "absent" /\ writer = Nobody
  /\ run = [p \in Procs |-> Idle]
  /\ started = 0 /\ torn = {} /\ cut = {} /\ overlapped = FALSE

-----------------------------------------------------------------------------
(* The tables.  The foreign keys cascade, and a row that is replaced is      *)
(* deleted first.                                                            *)

DeleteSpec(g, id) ==
  [g EXCEPT !.nodes = Restrict(@, DOMAIN @ \ {id}),
            !.links = {l \in @ : l[1] # id},
            !.evolved = {e \in @ : id \notin {e[1], e[2]}}]

InsertSpec(g, id, status, version, text) ==
  LET row == [status |-> status, version |-> version, text |-> text]
  IN [DeleteSpec(g, id) EXCEPT
        !.nodes = [i \in DOMAIN @ \cup {id} |-> IF i = id THEN row ELSE @[i]]]

InsertCommit(g, c) ==
  [g EXCEPT !.commits = @ \cup {c}, !.links = {l \in @ : l[2] # c},
            !.contains = {x \in @ : x[1] # c}]

Link(g, id, c, type) == [g EXCEPT !.links = @ \cup {<<id, c, type>>}]
Contain(g, c) == [g EXCEPT !.contains = @ \cup {c} \X Touches[c]]

\* upsertSpecFromMetadata: an active record of version 1, whatever it was before.
Upsert(g, s, text) == InsertSpec(g, <<s, 0>>, "active", 1, text)

\* persistCommitSpecGraph, one transaction.
Persist(g, c, text) ==
  Contain(Link(Upsert(InsertCommit(g, c), Scope[c], text),
               <<Scope[c], 0>>, c, "GENERATE"), c)

\* transferSpecCommitRelations and transferSpecSpecRelations.
Transfer(g, old, new) ==
  LET Moved(id) == IF id = old THEN new ELSE id
  IN [g EXCEPT !.links = {<<Moved(l[1]), l[2], l[3]>> : l \in @},
               !.evolved = {<<Moved(e[1]), Moved(e[2])>> : e \in @}]

EvolvedFrom(g, new, old) == [g EXCEPT !.evolved = @ \cup {<<new, old>>}]

\* Steps 5 and 6 of applyUpdate: what the active record has moves to its old version.
DeletesFirst(g, now, old) == Transfer(DeleteSpec(g, now), now, old)
MovesAside(g, now, old) == DeleteSpec(Transfer(g, now, old), now)

\* applyUpdate: the record of version v moves aside and the new one leads to it.
Update(g, s, v, text, c) ==
  LET now == <<s, 0>>
      aside == InsertSpec(g, <<s, v>>, "deprecated", v, g.nodes[now].text)
      fresh == InsertSpec(MovesAside(aside, now, <<s, v>>), now, "active", v + 1, text)
  IN Link(EvolvedFrom(fresh, now, <<s, v>>), now, c, "GENERATE")

\* applyDeprecate.
Deprecate(g, s) ==
  LET marked == [g EXCEPT !.nodes[<<s, 0>>].status = "deprecated"]
  IN EvolvedFrom(InsertSpec(marked, <<s, -1>>, "deprecated", 1, NoText), <<s, 0>>, <<s, -1>>)

PathsOf(g, id) ==
  {x[2] : x \in {y \in g.contains : \E l \in g.links : l[1] = id /\ l[2] = y[1]}}

\* locateAffectedSpecsWithCommits: the active specs, other than those the new commits
\* name, with a commit that touched a path the new commits touch; and the last of these.
Affected(g, hit) ==
  LET Affecting(s) == {c \in hit : Touches[c] \cap PathsOf(g, <<s, 0>>) # {}}
      active == {s \in Specs \ {Scope[c] : c \in hit} :
                   /\ <<s, 0>> \in DOMAIN g.nodes
                   /\ g.nodes[<<s, 0>>].status = "active"}
  IN {<<s, Max(Affecting(s))>> : s \in {t \in active : Affecting(t) # {}}}

\* A project that has no graph, or the graph a build made when its first commit was HEAD.
Built ==
  LET s == Scope[1]
  IN Contain(Link(Upsert(InsertCommit(EmptyGraph, 1), s, 0), <<s, 0>>, 1, "SUMMARIZED_FROM"), 1)
Fresh == Quiet /\ head = 0 /\ meta = NoMeta /\ graph = EmptyGraph
Init ==
  \/ Fresh
  \/ Quiet /\ Last > 0 /\ Scope[1] \in Documents /\ head = 1 /\ meta = 1 /\ graph = Built

-----------------------------------------------------------------------------
(* A command's own steps.  Between two awaits a process runs alone, but      *)
(* other processes run beside it, so a step is one statement or one          *)
(* transaction on the database, or one call of the file system.              *)

At(p, step) == run[p].at = step
Goto(p, step) == run' = [run EXCEPT ![p].at = step]
Ends(p) == run' = [run EXCEPT ![p] = Idle]

\* finally: the lock is removed, whoever's it is.
Leaves(p) == IF run[p].job = "evolve" THEN Goto(p, "release") ELSE Ends(p)

\* Of its document and its record, a command has changed one.
Halfway(p) ==
  run[p].at \in {"install", "commit"} \/ (At(p, "spec") /\ run[p].job # "build")

\* The commits of a range whose scope is the name of a spec that has a document.
Readable == [s \in Specs |-> disk[s].plan]
Matched(range) == {c \in range : Scope[c] # Unscoped /\ disk[Scope[c]].plan # NoText}

Starts(p, command) ==
  /\ At(p, "idle") /\ started < MaxRuns
  /\ started' = started + 1
  /\ overlapped' = (overlapped \/ \E q \in Procs : ~At(q, "idle"))
  /\ run' = [run EXCEPT ![p] = command]
  /\ UNCHANGED <<head, meta, graph, disk, lock, writer, torn, cut>>

\* The user commits.
UserCommits ==
  /\ head < Last /\ head' = head + 1
  /\ UNCHANGED <<meta, graph, disk, lock, writer, run, started, torn, cut, overlapped>>

-----------------------------------------------------------------------------
(* spec build.                                                              *)

\* runBuildPipeline scans all of the history; the commits are taken in its order.
StartBuild(p) ==
  LET pairs == {c \in 1..head : Scope[c] \in Documents}
  IN /\ ~(meta > 0 /\ meta = head)
     /\ Starts(p, [Idle EXCEPT !.job = "build", !.took = pairs, !.todo = pairs,
                               !.at = IF pairs = {} THEN "finish" ELSE "spec",
                               !.seen = Readable])

\* The statements of one pair, each committed on its own: the spec (if its document
\* could be read), the commit, their relation, and the fragments.
ReplaceSpec(p) ==
  LET s == run[p].spec
      c == Min(run[p].todo)
      name == IF run[p].job = "build" THEN Scope[c] ELSE s
  IN /\ At(p, "spec") /\ writer = Nobody
     /\ graph' = IF run[p].seen[name] = NoText THEN graph
                 ELSE Upsert(graph, name, run[p].seen[name])
     /\ cut' = IF run[p].seen[name] = NoText THEN cut ELSE cut \ {name}
     /\ run' = [run EXCEPT ![p].at = "node", ![p].spec = name]
     /\ UNCHANGED <<world, meta, disk, lock, writer, torn>>

ReplaceCommit(p) ==
  LET c == Min(run[p].todo)
  IN /\ At(p, "node") /\ writer = Nobody
     /\ graph' = InsertCommit(graph, c)
     /\ torn' = torn \cup {c}
     /\ Goto(p, "link")
     /\ UNCHANGED <<world, meta, disk, lock, writer, cut>>

LinkCommit(p) ==
  LET s == run[p].spec
  IN /\ At(p, "link") /\ writer = Nobody
     /\ graph' = IF run[p].seen[s] = NoText THEN graph
                 ELSE Link(graph, <<s, 0>>, Min(run[p].todo), "SUMMARIZED_FROM")
     /\ Goto(p, "fragments")
     /\ UNCHANGED <<world, meta, disk, lock, writer, torn, cut>>

StoreFragments(p) ==
  LET c == Min(run[p].todo)
      left == run[p].todo \ {c}
  IN /\ At(p, "fragments") /\ writer = Nobody
     /\ graph' = Contain(graph, c)
     /\ torn' = torn \ {c}
     /\ run' = [run EXCEPT ![p].todo = left,
                           ![p].at = IF left = {} THEN "finish"
                                     ELSE IF run[p].job = "build" THEN "spec" ELSE "node"]
     /\ UNCHANGED <<world, meta, disk, lock, writer, cut>>

\* A statement finds the database busy, or fails: the command gives up where it is.
LoopFails(p) ==
  /\ run[p].at \in {"spec", "node", "link", "fragments"}
  /\ Leaves(p)
  /\ cut' = IF Halfway(p) THEN cut \cup {run[p].spec} ELSE cut
  /\ UNCHANGED <<world, meta, graph, disk, lock, writer, torn>>

\* writeMeta: a build passes what is HEAD now, mining what was HEAD when it began.
Finish(p) ==
  /\ At(p, "finish")
  /\ meta' = IF run[p].job = "build" THEN head ELSE run[p].upto
  /\ Leaves(p)
  /\ UNCHANGED <<world, graph, disk, lock, writer, torn, cut>>

-----------------------------------------------------------------------------
(* spec mine, of its own or where an evolution found nothing.               *)

StartMine(p) == Starts(p, [Idle EXCEPT !.job = "mine", !.at = "range"])

\* runMinePipeline takes the commits after the one meta.json names.
MineRange(p) ==
  LET range == (IF meta > 0 THEN meta + 1 ELSE 1)..head
  IN /\ At(p, "range")
     /\ IF range = {} THEN Leaves(p)
        ELSE run' = [run EXCEPT ![p].at = "cluster", ![p].upto = head,
                                ![p].took = range, ![p].todo = range]
     /\ UNCHANGED <<world, meta, graph, disk, lock, writer, torn, cut>>

\* The LLM writes the document of the cluster; the graph follows.
MineWrites(p) ==
  LET s == Mined[run[p].upto]
      text == disk[s].rewritten + 1
  IN /\ At(p, "cluster") /\ HasClient
     /\ disk' = [disk EXCEPT ![s].plan = text, ![s].rewritten = text]
     /\ run' = [run EXCEPT ![p].at = "spec", ![p].spec = s, ![p].seen[s] = text]
     /\ UNCHANGED <<world, meta, graph, lock, writer, torn, cut>>

\* There is no client, or it has no document to give.
MineFindsNothing(p) ==
  /\ At(p, "cluster")
  /\ Leaves(p)
  /\ UNCHANGED <<world, meta, graph, disk, lock, writer, torn, cut>>

-----------------------------------------------------------------------------
(* spec evolve process.                                                     *)

\* runEvolvePipeline refuses to run without a meta.json, which it reads before it has
\* the lock.
StartEvolve(p) ==
  meta # NoMeta /\ Starts(p, [Idle EXCEPT !.job = "evolve", !.at = "look", !.from = meta])

\* acquireEvolveLock looks whether there is a lock, and how old it is ...
SeesTheLock(p) ==
  /\ At(p, "look")
  /\ IF lock = "fresh" THEN Ends(p) ELSE Goto(p, "take")
  /\ UNCHANGED <<world, meta, graph, disk, lock, writer, torn, cut>>

\* ... and then removes an old one and writes its own, whatever is there by now.
TakesTheLock(p) ==
  /\ At(p, "take")
  /\ lock' = "fresh"
  /\ Goto(p, "begin")
  /\ UNCHANGED <<world, meta, graph, disk, writer, torn, cut>>

\* Another command holds the database: initSpecSchema throws, and the lock stays.
SchemaFails(p) ==
  /\ At(p, "begin")
  /\ Ends(p)
  /\ UNCHANGED <<world, meta, graph, disk, lock, writer, torn, cut>>

\* The commits since the one that was in meta.json, or HEAD alone if there was none,
\* and of these the ones analyzeIncrementalCommits matches.
Analyze(p) ==
  LET range == IF run[p].from = 0 THEN {head} ELSE run[p].from + 1..head
      took == Matched(range \ {0})
  IN /\ At(p, "begin")
     /\ run' = [run EXCEPT ![p].at = IF range \ {0} = {} THEN "release" ELSE "persist",
                           ![p].upto = head, ![p].took = took, ![p].todo = took,
                           ![p].seen = Readable]
     /\ UNCHANGED <<world, meta, graph, disk, lock, writer, torn, cut>>

\* One transaction for each commit, in the order of the history.
PersistNext(p) ==
  LET c == Min(run[p].todo)
      s == Scope[c]
  IN /\ At(p, "persist") /\ run[p].todo # {} /\ writer = Nobody
     /\ graph' = Persist(graph, c, run[p].seen[s])
     /\ torn' = torn \ {c} /\ cut' = cut \ {s}
     /\ run' = [run EXCEPT ![p].todo = @ \ {c}, ![p].hit = @ \cup {c}]
     /\ UNCHANGED <<world, meta, disk, lock, writer>>

\* The first transaction that fails ends the phase.
PersistFails(p) ==
  /\ At(p, "persist") /\ run[p].todo # {}
  /\ run' = [run EXCEPT ![p].todo = {}]
  /\ UNCHANGED <<world, meta, graph, disk, lock, writer, torn, cut>>

\* Nothing was persisted: mining takes over, unless it was HEAD alone or there is no
\* client.  Otherwise meta.json advances, first if it was HEAD alone and last if not.
Single(p) == run[p].from = 0
PhaseOneEnds(p) ==
  /\ At(p, "persist") /\ run[p].todo = {}
  /\ Goto(p, CASE run[p].hit = {} /\ (Single(p) \/ ~HasClient) -> "release"
                [] run[p].hit = {} /\ ~Single(p) /\ HasClient -> "range"
                [] run[p].hit # {} /\ Single(p) -> "advance"
                [] run[p].hit # {} /\ ~Single(p) -> "locate")
  /\ UNCHANGED <<world, meta, graph, disk, lock, writer, torn, cut>>

\* meta.json advances to the last commit that was persisted.
ToHead(p) == run[p].upto
LastSuccess(p) == Max(run[p].hit)
Advance(p) ==
  /\ At(p, "advance")
  /\ meta' = LastSuccess(p)
  /\ Goto(p, IF Single(p) THEN "locate" ELSE "release")
  /\ UNCHANGED <<world, graph, disk, lock, writer, torn, cut>>

Locate(p) ==
  /\ At(p, "locate")
  /\ run' = [run EXCEPT ![p].due = IF HasClient THEN Affected(graph, run[p].hit) ELSE {},
                        ![p].at = "judge"]
  /\ UNCHANGED <<world, meta, graph, disk, lock, writer, torn, cut>>

\* Each affected spec is read and, if it has a document, given to the LLM.
Next1(p) == CHOOSE d \in run[p].due : \A e \in run[p].due : d[1] <= e[1]
Judge(p) ==
  LET s == Next1(p)[1]
  IN /\ At(p, "judge") /\ run[p].due # {}
     /\ run' = IF disk[s].plan = NoText
               THEN [run EXCEPT ![p].due = @ \ {Next1(p)}]
               ELSE [run EXCEPT ![p].at = "await", ![p].spec = s,
                                ![p].version = graph.nodes[<<s, 0>>].version]
     /\ UNCHANGED <<world, meta, graph, disk, lock, writer, torn, cut>>

AllJudged(p) ==
  /\ At(p, "judge") /\ run[p].due = {}
  /\ Goto(p, IF Single(p) THEN "release" ELSE "advance")
  /\ UNCHANGED <<world, meta, graph, disk, lock, writer, torn, cut>>

\* The next affected spec; this one is done with.
Onward(p) == run' = [run EXCEPT ![p].at = "judge", ![p].due = @ \ {Next1(p)}]

\* The answer is to leave the spec alone, or there is none, or the transaction that
\* would deprecate it fails.
Keeps(p) ==
  /\ At(p, "await")
  /\ Onward(p)
  /\ UNCHANGED <<world, meta, graph, disk, lock, writer, torn, cut>>

Deprecates(p) ==
  /\ At(p, "await") /\ writer = Nobody
  /\ graph' = Deprecate(graph, run[p].spec)
  /\ Onward(p)
  /\ UNCHANGED <<world, meta, disk, lock, writer, torn, cut>>

\* applyUpdate: the new text goes to .new and the tables are changed in a transaction,
\* which other processes do not see before it ends; the document is renamed to .bak and
\* .new to the document; the transaction commits.
Rewrites(p) ==
  LET s == run[p].spec
  IN /\ At(p, "await") /\ disk[s].rewritten < MaxRuns
     /\ disk' = [disk EXCEPT ![s].new = disk[s].rewritten + 1, ![s].rewritten = @ + 1]
     /\ run' = [run EXCEPT ![p].seen[s] = disk[s].rewritten + 1,
                           ![p].at = IF writer = Nobody THEN "backup" ELSE "judge",
                           ![p].due = IF writer = Nobody THEN @ ELSE @ \ {Next1(p)}]
     /\ writer' = IF writer = Nobody THEN p ELSE writer
     /\ UNCHANGED <<world, meta, graph, lock, torn, cut>>

\* A statement of the transaction fails: nothing but the .new file is left of it.
RewriteFails(p) ==
  /\ At(p, "backup")
  /\ writer' = Nobody
  /\ Onward(p)
  /\ UNCHANGED <<world, meta, graph, disk, lock, torn, cut>>

Renamed(file, from, to) ==
  IF file[from] = NoText THEN file ELSE [file EXCEPT ![to] = file[from], ![from] = NoText]
NotKept(file) == file
SetsAside(file) == Renamed(file, "plan", "bak")

Backup(p) ==
  /\ At(p, "backup")
  /\ disk' = [disk EXCEPT ![run[p].spec] = SetsAside(@)]
  /\ Goto(p, "install")
  /\ UNCHANGED <<world, meta, graph, lock, writer, torn, cut>>

Install(p) ==
  /\ At(p, "install")
  /\ disk' = [disk EXCEPT ![run[p].spec] = Renamed(@, "new", "plan")]
  /\ Goto(p, "commit")
  /\ UNCHANGED <<world, meta, graph, lock, writer, torn, cut>>

CommitUpdate(p) ==
  LET s == run[p].spec
  IN /\ At(p, "commit")
     /\ graph' = Update(graph, s, run[p].version, run[p].seen[s], Next1(p)[2])
     /\ writer' = Nobody
     /\ Onward(p)
     /\ UNCHANGED <<world, meta, disk, lock, torn, cut>>

\* A reader keeps the database from committing: the tables are as before, the files not.
CommitFails(p) ==
  /\ At(p, "commit")
  /\ writer' = Nobody /\ cut' = cut \cup {run[p].spec}
  /\ Onward(p)
  /\ UNCHANGED <<world, meta, graph, disk, lock, torn>>

Release(p) ==
  /\ At(p, "release")
  /\ lock' = "absent"
  /\ Ends(p)
  /\ UNCHANGED <<world, meta, graph, disk, writer, torn, cut>>

-----------------------------------------------------------------------------
\* Five minutes pass since the lock was written.
LockAges ==
  /\ lock = "fresh" /\ lock' = "old"
  /\ UNCHANGED <<world, meta, graph, disk, writer, run, torn, cut>>

\* A process is killed.  Its transaction is rolled back, its files and its lock stay as
\* they are, and a meta.json that was being written may be empty.
Dies(p) ==
  /\ p \in MayDie /\ ~At(p, "idle")
  /\ Ends(p)
  /\ writer' = IF writer = p THEN Nobody ELSE writer
  /\ cut' = IF Halfway(p) THEN cut \cup {run[p].spec} ELSE cut
  /\ meta' \in IF run[p].at \in {"advance", "finish"} THEN {meta, NoMeta} ELSE {meta}
  /\ UNCHANGED <<world, graph, disk, lock, torn>>

Building(p) ==
  \/ StartBuild(p) \/ ReplaceSpec(p) \/ ReplaceCommit(p) \/ LinkCommit(p)
  \/ StoreFragments(p) \/ LoopFails(p) \/ Finish(p)
Mining(p) == StartMine(p) \/ MineRange(p) \/ MineWrites(p) \/ MineFindsNothing(p)
Evolving(p) ==
  \/ StartEvolve(p) \/ SeesTheLock(p) \/ TakesTheLock(p) \/ SchemaFails(p)
  \/ Analyze(p) \/ PersistNext(p) \/ PersistFails(p) \/ PhaseOneEnds(p)
  \/ Advance(p) \/ Locate(p) \/ Judge(p) \/ AllJudged(p)
  \/ Keeps(p) \/ Deprecates(p) \/ Rewrites(p) \/ RewriteFails(p)
  \/ Backup(p) \/ Install(p) \/ CommitUpdate(p) \/ CommitFails(p) \/ Release(p)

Next ==
  \/ UserCommits \/ LockAges
  \/ \E p \in Procs : Building(p) \/ Mining(p) \/ Evolving(p) \/ Dies(p)

Spec == Init /\ [][Next]_vars

-----------------------------------------------------------------------------
\* The record of a spec describes its document, and the record of the version before,
\* to which it leads, the .bak.
Describes(g, d, s) ==
  /\ <<s, 0>> \in DOMAIN g.nodes => g.nodes[<<s, 0>>].text = d[s].plan
  /\ \A e \in g.evolved :
       e[1] = <<s, 0>> /\ e[2][2] > 0 => g.nodes[e[2]].text = d[s].bak

\* So it does while no two commands have been under way at once, unless one was cut
\* between the files and the commit (spec-rewriter.ts: applyUpdate renames and commits in
\* two steps).
RecordsMatchTheFiles ==
  ~overlapped =>
    \A s \in Specs \ cut :
      (\A p \in Procs : Halfway(p) => run[p].spec # s) => Describes(graph, disk, s)

\* From a spec the EVOLVED_FROM relations lead through all its versions, down to the
\* first since its document was last read into the graph.
Chained(g, s) ==
  LET version == g.nodes[<<s, 0>>].version
      Id(v) == IF v = version THEN <<s, 0>> ELSE <<s, v>>
  IN <<s, 0>> \in DOMAIN g.nodes =>
       \A v \in 2..version : <<Id(v), <<s, v - 1>>>> \in g.evolved

VersionsAreChained == ~overlapped => \A s \in Specs : Chained(graph, s)

\* A commit in the graph has all its fragments, unless a build or mining replaced its
\* row and has not, or not yet, filled it again.
CommitsAreWhole ==
  \A c \in graph.commits \ torn : {c} \X Touches[c] \subseteq graph.contains

\* meta.json moves only over commits that the command that moves it has put in the
\* graph: those it matched, up to the one it names (pipeline.ts stops at the first
\* commit that fails and advances to the last that did not).
AdvancesOverStored ==
  [][\A p \in Procs : Advance(p) \/ Finish(p) =>
       \A c \in run[p].took : c <= meta' => c \in graph.commits]_vars

\* build/pipeline.ts:69: every commit relation is created.
EveryRelationIsCreated ==
  [][\A p \in Procs : Finish(p) /\ run[p].job = "build" =>
       \A c \in run[p].took : <<<<Scope[c], 0>>, c, "SUMMARIZED_FROM">> \in graph.links]_vars
=============================================================================
