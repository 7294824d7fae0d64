------------------------------ MODULE GraphSync ------------------------------
(***************************************************************************)
(* What an incremental sync does to the graph: ExtractionOrchestrator.sync *)
(* and storeExtractionResult of src/extraction/index.ts, and the           *)
(* resolution that sync() of src/index.ts has follow, over the tables of   *)
(* src/db/queries.ts.  A file defines names and refers to names; a         *)
(* reference is bound to one of the definitions of its name in the whole   *)
(* project, and its row is then deleted, or it is parked as failed.  So an *)
(* edit of one file can change what references of other files should be    *)
(* bound to, and the rest of the sync has to find those.                   *)
(*                                                                         *)
(* One step ends where a transaction does or where the code awaits: files  *)
(* may be edited in between, and the process may die.                      *)
(***************************************************************************)
EXTENDS Naturals, FiniteSets, FiniteSetsExt

CONSTANTS
  N,          \* the files are 1 .. N; the nearer, the closer their directories
  Names,      \* symbols
  MaxEdits,   \* bound of the model: edits
  MaxCrashes  \* bound of the model: processes that die in a sync

ASSUME GraphSyncAssumption == N \in Nat /\ MaxEdits \in Nat /\ MaxCrashes \in Nat

Files == 1 .. N
Contents == [defs : SUBSET Names, refs : SUBSET Names]
Absent == [defs |-> {}, refs |-> {}, absent |-> TRUE]
Present(tree) == {f \in Files : tree[f] # Absent}
Trees == [Files -> Contents \cup {Absent}]

VARIABLES
  disk,      \* the working tree
  unguessed, \* the names, fixed, whose references are dropped rather than guessed
             \* when several files define them and the referring one does not:
             \* of the attributes of ArkTS, say; the others go to the nearest
  \* the database
  rows,      \* files and nodes: the content each file was indexed with
  edges,     \* <<file, name, file>>: a reference, bound to a definition
  refs,      \* <<file, name, "pending" or "failed">>: unresolved_refs
  \* the sync
  pc,
  current,   \* currentFiles, as the scan saw them
  todo,      \* files still to remove or to index, in order
  changed,   \* changedFilePaths
  before,    \* pairsBefore
  storing,   \* the file that is being stored, with what indexFile has read
  incoming,  \* its crossFileIncomingEdges
  owed,      \* references whose edges are gone and whose rows are not back yet
  binding,   \* rows whose edges are in and which are themselves not gone yet
  skipped,   \* history: files of `changed' that were left as they were
  \* the model
  edits, crashes,
  completed, \* history: the last sync has run to its end
  forgot,    \* history: a sync has died that had replaced files and not yet
             \* looked for the references this concerns
  passedBy   \* history: a sync has taken edges of a file it skipped for fresh

db == <<rows, edges, refs>>
syncVars == <<pc, current, todo, changed, before, storing, incoming, owed, binding, skipped>>
history == <<completed, forgot, passedBy>>
vars == <<disk, unguessed, db, syncVars, edits, crashes, history>>

\* findBestMatch: the file itself, or the nearest; a tie goes to the first.
Distance(f, g) == 2 * (IF f < g THEN g - f ELSE f - g) + (IF g < f THEN 0 ELSE 1)
Best(f, D) == CHOOSE g \in D : \A h \in D : g = f \/ (h # f /\ Distance(f, g) <= Distance(f, h))
Definers(tree, n) == {f \in Files : n \in tree[f].defs}
Resolvable(tree, f, n) ==
  LET D == Definers(tree, n)
  IN D # {} /\ (n \in unguessed => f \in D \/ Cardinality(D) = 1)
Bound(tree, f, n) == <<f, n, Best(f, Definers(tree, n))>>

\* The graph of a full index of a tree.
AllRefs(tree) == {fn \in Files \X Names : fn[2] \in tree[fn[1]].refs}
RebuiltEdges(tree) ==
  {Bound(tree, fn[1], fn[2]) : fn \in {p \in AllRefs(tree) : Resolvable(tree, p[1], p[2])}}
RebuiltRefs(tree) ==
  {<<fn[1], fn[2], "failed">> : fn \in {p \in AllRefs(tree) : ~Resolvable(tree, p[1], p[2])}}

Nothing == [file |-> 0, content |-> Absent]

\* The types of the state, and what a sync holds only while it runs.
TypeOK ==
  /\ disk \in Trees /\ rows \in Trees /\ unguessed \subseteq Names
  /\ edges \subseteq Files \X Names \X Files
  /\ refs \subseteq Files \X Names \X {"pending", "failed"}
  /\ pc \in {"idle", "remove", "delete", "classify", "index", "store", "reattach",
             "reopen", "resolve", "retry", "rebind", "sweep"}
  /\ current \subseteq Files /\ todo \subseteq Files
  /\ changed \subseteq Files /\ before \subseteq Files \X Names
  /\ storing \in [file : 0 .. N, content : Contents \cup {Absent}]
  /\ incoming \subseteq Files \X Names \X Files
  /\ edits \in 0 .. MaxEdits /\ crashes \in 0 .. MaxCrashes
  /\ completed \in BOOLEAN /\ forgot \in BOOLEAN /\ passedBy \in BOOLEAN
  /\ owed \subseteq Files \X Names \X {"pending"} /\ binding \subseteq refs
  /\ skipped \subseteq changed
  /\ pc = "idle" => current = {} /\ changed = {} /\ before = {}
  /\ pc \notin {"store", "reattach"} => incoming = {}
  /\ owed # {} => pc = "reopen"

\* A project that has been indexed.
Init ==
  /\ disk \in Trees /\ unguessed \in SUBSET Names
  /\ rows = disk /\ edges = RebuiltEdges(disk) /\ refs = RebuiltRefs(disk)
  /\ pc = "idle" /\ current = {} /\ todo = {}
  /\ changed = {} /\ before = {} /\ incoming = {} /\ storing = Nothing
  /\ owed = {} /\ binding = {} /\ skipped = {}
  /\ edits = 0 /\ crashes = 0 /\ completed = TRUE /\ forgot = FALSE /\ passedBy = FALSE

-----------------------------------------------------------------------------
(* The world.                                                               *)

\* A file is written, replaced, created or removed, at any moment.
Edit(f) ==
  /\ edits < MaxEdits /\ edits' = edits + 1
  /\ \E c \in (Contents \cup {Absent}) \ {disk[f]} : disk' = [disk EXCEPT ![f] = c]
  /\ UNCHANGED <<unguessed, db, syncVars, crashes, history>>

KeepsBefore ==
  /\ pc' = "idle" /\ current' = {} /\ todo' = {} /\ changed' = {} /\ skipped' = {}
  /\ incoming' = {} /\ storing' = Nothing /\ owed' = {} /\ binding' = {}
  /\ UNCHANGED before
Forget ==
  /\ pc' = "idle" /\ current' = {} /\ todo' = {} /\ changed' = {} /\ skipped' = {}
  /\ before' = {} /\ incoming' = {} /\ storing' = Nothing /\ owed' = {} /\ binding' = {}

\* The process dies in a sync: what it had not written is gone, and the next
\* sync is that of its successor.
Crash ==
  /\ pc # "idle"
  /\ crashes < MaxCrashes /\ crashes' = crashes + 1
  /\ Forget
  /\ completed' = FALSE
  /\ forgot' = (forgot \/ pc \notin {"remove", "delete", "sweep"})
  /\ UNCHANGED <<disk, unguessed, db, edits, passedBy>>

-----------------------------------------------------------------------------
(* The tables.                                                              *)

\* An edge whose target goes becomes the pending reference it was made from.
Resurrected(E) == {<<e[1], e[2], "pending">> : e \in E}

\* Cross-file edges into f.
IncomingOf(f) == {e \in edges : e[3] = f /\ e[1] # f}

\* deleteFile, whose cascade takes the edges and references of the file's nodes.
DeletesFile(f) ==
  /\ rows' = [rows EXCEPT ![f] = Absent]
  /\ edges' = {e \in edges : e[1] # f /\ e[3] # f}
  /\ refs' = {r \in refs : r[1] # f}

-----------------------------------------------------------------------------
(* ExtractionOrchestrator.sync.                                             *)

model == <<unguessed, edits, crashes, forgot, passedBy>>
rest == <<owed, binding, skipped, model>>

\* The scan, of the whole tree or of the paths the watcher names.
Start ==
  /\ pc = "idle"
  /\ \E S \in SUBSET Files \ {{}} :
       /\ current' = S \cap Present(disk)
       /\ todo' = S \cap Present(rows)
  /\ pc' = "remove"
  /\ completed' = FALSE
  /\ UNCHANGED <<disk, db, changed, before, storing, incoming, rest>>

\* A tracked file that is gone: first the references that were bound to it.
PairsOf(F) == UNION {{f} \X rows[f].defs : f \in F}
ResurrectsNone(f) == UNCHANGED refs
Resurrects(f) == refs' = refs \cup Resurrected(IncomingOf(f))
Remove(f) ==
  /\ pc = "remove" /\ f \in todo /\ f = Min(todo)
  /\ IF f \in current /\ disk[f] # Absent
       THEN todo' = todo \ {f} /\ UNCHANGED <<pc, before, refs>>
       ELSE /\ before' = before \cup PairsOf({f})
            /\ Resurrects(f)
            /\ pc' = "delete" /\ UNCHANGED todo
  /\ UNCHANGED <<disk, rows, edges, current, changed, storing, incoming, rest, completed>>
Delete(f) ==
  /\ pc = "delete" /\ f = Min(todo)
  /\ DeletesFile(f)
  /\ todo' = todo \ {f} /\ pc' = "remove"
  /\ UNCHANGED <<disk, current, changed, before, storing, incoming, rest, completed>>

\* The content hashes of the files that were scanned, which are not asked for again.
Classify ==
  /\ pc = "remove" /\ todo = {}
  /\ changed' = {f \in current : disk[f] \notin {Absent, rows[f]}}
  /\ todo' = changed' /\ current' = {}
  /\ before' = before \cup PairsOf(changed')
  /\ pc' = "index"
  /\ UNCHANGED <<disk, db, storing, incoming, rest, completed>>

\* indexFile reads the file again.  What is gone, has become as it was indexed, is too
\* large by now or cannot be parsed stays as it is; else storeExtractionResult notes the
\* edges into the file and deletes it, in a transaction of its own.
Skip(f) ==
  /\ pc = "index" /\ f \in todo /\ f = Min(todo)
  /\ todo' = todo \ {f} /\ skipped' = skipped \cup {f}
  /\ UNCHANGED <<disk, db, pc, current, changed, before, storing, incoming, owed, binding,
                 model, completed>>
Index(f) ==
  /\ pc = "index" /\ f \in todo /\ f = Min(todo)
  /\ disk[f] \notin {Absent, rows[f]}
  /\ todo' = todo \ {f}
  /\ storing' = [file |-> f, content |-> disk[f]]
  /\ incoming' = IncomingOf(f)
  /\ DeletesFile(f)
  /\ pc' = "store"
  /\ UNCHANGED <<disk, current, changed, before, rest, completed>>

\* storeFileBundle: the nodes, the references and the file's row, in one.
Store ==
  /\ pc = "store"
  /\ rows' = [rows EXCEPT ![storing.file] = storing.content]
  /\ refs' = refs \cup {<<storing.file, n, "pending">> : n \in storing.content.refs}
  /\ pc' = "reattach"
  /\ UNCHANGED <<disk, edges, current, todo, changed, before, storing, incoming, rest,
                 completed>>

\* reattachCrossFileEdges: to what still defines the name, the others back to
\* references, in a transaction of their own.
Kept == {e \in incoming : e[2] \in storing.content.defs}
Reattach ==
  /\ pc = "reattach"
  /\ edges' = edges \cup Kept
  /\ owed' = Resurrected(incoming \ Kept)
  /\ pc' = "reopen" /\ incoming' = {}
  /\ UNCHANGED <<disk, rows, refs, current, todo, changed, before, storing, binding,
                 skipped, model, completed>>
Reopen ==
  /\ pc = "reopen"
  /\ refs' = refs \cup owed /\ owed' = {}
  /\ pc' = IF storing = Nothing THEN "sweep" ELSE "index"
  /\ storing' = Nothing
  /\ UNCHANGED <<disk, rows, edges, current, todo, changed, before, incoming, binding,
                 skipped, model, completed>>

-----------------------------------------------------------------------------
(* HomeGraph.sync, after that.                                              *)

Indexed ==
  /\ pc = "index" /\ todo = {}
  /\ pc' = IF changed = {} THEN "rebind" ELSE "resolve"
  /\ UNCHANGED <<disk, db, current, todo, changed, before, storing, incoming, rest, completed>>

\* The references of the changed files; the failed ones whose name a changed
\* file has now; and whatever is pending, of this sync or an interrupted one.
NamesOf(F) == UNION {rows[f].defs : f \in F}
Rows ==
  {r \in refs :
    \/ pc = "resolve" /\ r[3] = "pending" /\ r[1] \in changed
    \/ pc = "retry" /\ r[3] = "failed" /\ r[2] \in NamesOf(changed)
    \/ pc = "sweep" /\ r[3] = "pending"}

\* First the edges of those that can be resolved, then their rows are deleted
\* and those of the others marked failed.
Bind ==
  /\ binding = {} /\ Rows # {} /\ binding' = Rows
  /\ edges' = edges \cup {Bound(rows, r[1], r[2]) :
                          r \in {q \in Rows : Resolvable(rows, q[1], q[2])}}
  /\ UNCHANGED <<disk, rows, refs, pc, current, todo, changed, before, storing, incoming,
                 owed, skipped, model, completed>>
Parked == {<<r[1], r[2], "failed">> : r \in {q \in binding : ~Resolvable(rows, q[1], q[2])}}
BindingEnds ==
  /\ binding # {} \/ Rows = {}
  /\ refs' = (refs \ binding) \cup Parked
CleanUp ==
  /\ pc \in {"resolve", "retry"}
  /\ BindingEnds /\ binding' = {}
  /\ pc' = IF pc = "resolve" THEN "retry" ELSE "rebind"
  /\ UNCHANGED <<disk, rows, edges, current, todo, changed, before, storing, incoming,
                 owed, skipped, model, completed>>

\* resurrectStaleResolutionEdges: references of files that were not touched, to
\* names whose definitions were, become pending again.
DeltaOfBatch == LET After == NamesOf(changed)  Were == {p[2] : p \in before}
                IN (Were \ After) \cup (After \ Were)
DefinitionDelta == LET After == PairsOf(changed)
                   IN {p[2] : p \in (before \ After) \cup (After \ before)}
Unbound(E) == edges' = edges \ E
Rebind ==
  /\ pc = "rebind"
  /\ LET Affected == {e \in edges : e[2] \in DefinitionDelta}
         Stale == {e \in Affected : e[1] \notin changed}
     IN /\ Unbound(Stale) /\ owed' = Resurrected(Stale)
        /\ passedBy' = (passedBy \/ \E e \in Affected : e[1] \in skipped)
  /\ pc' = "reopen"
  /\ UNCHANGED <<disk, unguessed, rows, refs, current, todo, changed, before, storing,
                 incoming, binding, skipped, edits, crashes, forgot, completed>>

\* The last batch of resolveReferencesBatched.
Sweep ==
  /\ pc = "sweep"
  /\ BindingEnds
  /\ Forget
  /\ completed' = TRUE
  /\ UNCHANGED <<disk, rows, edges, model>>

-----------------------------------------------------------------------------
FileSteps == \E f \in Files : Remove(f) \/ Delete(f) \/ Skip(f) \/ Index(f)
Working ==
  \/ FileSteps \/ Classify \/ Store \/ Reattach \/ Reopen \/ Indexed
  \/ Bind \/ CleanUp \/ Rebind \/ Sweep
Next == (\E f \in Files : Edit(f)) \/ Crash \/ Start \/ Working

Spec == Init /\ [][Next]_vars

-----------------------------------------------------------------------------
(* What a sync promises.                                                    *)

Converged(names) ==
  /\ edges = {e \in RebuiltEdges(rows) : e[2] \in names}
             \cup {e \in edges : e[2] \notin names}
  /\ refs = {r \in RebuiltRefs(rows) : r[2] \in names}
            \cup {r \in refs : r[2] \notin names}
Rested == pc = "idle" /\ completed

\* After a sync, of all files or of some, the graph is the one a full index of the same
\* contents would have: every reference to a guessed name has the same definition, or
\* none, and what is bound, to any name, is bound to the right one and to no other.
\* Excepted is what a sync that died had left to do, and a file that was to be indexed and
\* was not: resurrectStaleResolutionEdges takes the edges of every file of changedFilePaths
\* for re-resolved (2304-2313).
Kempt == ~forgot /\ ~passedBy
SyncConverges ==
  Rested /\ Kempt => /\ Converged(Names \ unguessed)
                     /\ edges \subseteq RebuiltEdges(rows)

\* No reference is lost, in the middle of a sync or after its death: it is an
\* edge, or a row, or in the memory of the store that will put it back.
ReferencesAreKept ==
  forgot \/ \A fn \in AllRefs(rows) :
    \/ \E g \in Files : <<fn[1], fn[2], g>> \in edges \cup incoming
    \/ \E s \in {"pending", "failed"} : <<fn[1], fn[2], s>> \in refs \cup owed

\* The header of test/sync-rebuild-convergence.test.ts: "Incremental sync must
\* converge to a full rebuild (definitionDelta / rebind)".  A reference that was
\* parked because several files defined its name is not looked at again when
\* all of them but one stop to.
SyncEqualsRebuild == Rested /\ Kempt => Converged(Names)

=============================================================================
