--------------------------- MODULE GraphSyncProofs ---------------------------
(***************************************************************************)
(* Theorems about what a sync does to the graph, for any number of files,  *)
(* of names, of edits and of crashes: it loses no reference and leaves the *)
(* graph that a full index of the same contents would have.  And about the *)
(* graph of the specs, for any history, any documents and any number of    *)
(* commands that run beside one another and may be killed: its tables      *)
(* describe the documents, and meta.json passes nothing that is not in it. *)
(***************************************************************************)
EXTENDS BothGraphs, FiniteSetTheorems, WellFoundedInduction, TLAPS

\* The phases of a sync: files are replaced, and at the end all is swept up.
Replacing ==
  \/ pc \in {"index", "store", "reattach"}
  \/ pc = "reopen" /\ storing # Nothing
Sweeping == pc = "sweep" \/ (pc = "reopen" /\ storing = Nothing)

\* The changed files that have been replaced.
Replaced == changed \ (todo \cup skipped)

\* What is noted of the file that is being removed or stored.
Noted ==
  /\ pc \in {"idle", "remove", "delete"} => changed = {}
  /\ Replacing => todo \subseteq changed /\ todo \cap skipped = {}
  /\ pc \in {"resolve", "retry", "rebind"} \/ Sweeping => todo = {}
  /\ pc = "delete" =>
       \A f \in Files : f = Min(todo) =>
         Resurrected(IncomingOf(f)) \subseteq refs /\ PairsOf({f}) \subseteq before
  /\ pc \in {"store", "reattach"} => storing.file \in Replaced
  /\ pc = "store" => rows[storing.file] = Absent
  /\ pc = "reattach" => rows[storing.file] = storing.content
  /\ pc \notin {"store", "reattach", "reopen"} => storing = Nothing

\* Edges and rows are of references that their files have.
Known ==
  /\ \A e \in edges \cup incoming : <<e[1], e[2]>> \in AllRefs(rows)
  /\ \A r \in refs \cup owed : <<r[1], r[2]>> \in AllRefs(rows)

\* The rows that are being bound are those of the phase, and their edges are in.
Binds ==
  /\ binding = {} \/ binding = Rows
  /\ \A r \in binding : Resolvable(rows, r[1], r[2]) => Bound(rows, r[1], r[2]) \in edges

\* The definers of a name when the sync began: those of the files that it removed or
\* found changed are remembered.
WereDefiners(n) ==
  {f \in Files : <<f, n>> \in before \/ (f \notin changed /\ n \in rows[f].defs)}

\* An edge is what the resolution makes of its reference, given the definers.
RightAmong(e, D) ==
  /\ D # {} /\ (e[2] \in unguessed => e[1] \in D \/ Cardinality(D) = 1)
  /\ e[3] = Best(e[1], D)
Right(e) == RightAmong(e, Definers(rows, e[2]))
WasRight(e) == RightAmong(e, WereDefiners(e[2]))

\* Edges were right when the sync began, or are right now.
EdgesAreRight ==
  Kempt =>
    /\ pc \in {"idle", "remove", "delete"} => \A e \in edges : Right(e) /\ WasRight(e)
    /\ Replacing => \A e \in edges \cup incoming : WasRight(e) /\ e[1] \notin Replaced
    /\ pc \in {"resolve", "retry", "rebind"} =>
         \A e \in edges : Right(e) \/ (WasRight(e) /\ e[1] \notin changed \ skipped)
    /\ Sweeping => \A e \in edges : Right(e)

\* A guessed name that was not found is defined by none, or by files that have changed
\* and are yet to be looked at.
Failed == {r \in refs : r[3] = "failed" /\ r[2] \notin unguessed}
FailuresAreRight ==
  Kempt =>
    \A r \in Failed :
      /\ Definers(rows, r[2]) \subseteq changed
      /\ pc = "rebind" \/ Sweeping => Definers(rows, r[2]) = {}

\* A sync that has ended leaves nothing pending.
Settled == Rested => \A r \in refs : r[3] = "failed"

GInv ==
  /\ TypeOK /\ Noted /\ Known /\ Binds /\ ReferencesAreKept
  /\ EdgesAreRight /\ FailuresAreRight /\ Settled
-----------------------------------------------------------------------------
(* The nearest definer.                                                     *)

IsBest(f, D, g) == \A h \in D : g = f \/ (h # f /\ Distance(f, g) <= Distance(f, h))

\* Distances are numbers, and tell files apart.
LEMMA Distances ==
  ASSUME NEW f \in Files
  PROVE  /\ \A g \in Files : Distance(f, g) \in Nat
         /\ \A g, h \in Files : Distance(f, g) = Distance(f, h) => g = h
<1> USE GraphSyncAssumption DEF Files
<1>1. \A g \in Files : Distance(f, g) \in Nat
  BY DEF Distance
<1>2. ASSUME NEW g \in Files, NEW h \in Files, Distance(f, g) = Distance(f, h) PROVE g = h
  BY <1>2 DEF Distance
<1> QED BY <1>1, <1>2

\* One definer is the best, and no other.
LEMMA BestExists ==
  ASSUME NEW f \in Files, NEW D, D \subseteq Files, D # {}
  PROVE  \E g \in D : IsBest(f, D, g)
<1>1. CASE f \in D
  BY <1>1 DEF IsBest
<1>2. CASE f \notin D
  <2> DEFINE R == {Distance(f, g) : g \in D}
  <2>1. R \subseteq Nat /\ R # {}
    BY Distances
  <2>2. PICK x \in R : \A y \in R : ~ (<<y, x>> \in OpToRel(<, Nat))
    BY <2>1, NatLessThanWellFounded, WFMin, Zenon
  <2>3. \A y \in R : ~(y < x)
    BY <2>1, <2>2 DEF OpToRel
  <2>4. PICK g \in D : x = Distance(f, g)
    OBVIOUS
  <2>5. \A h \in D : Distance(f, g) <= Distance(f, h)
    BY <2>1, <2>3, <2>4, Distances
  <2> QED BY <1>2, <2>5 DEF IsBest
<1> QED BY <1>1, <1>2

LEMMA BestIsOne ==
  ASSUME NEW f \in Files, NEW D, D \subseteq Files,
         NEW g \in D, NEW h \in D, IsBest(f, D, g), IsBest(f, D, h)
  PROVE  g = h
<1>1. CASE g = f \/ h = f
  BY <1>1 DEF IsBest
<1>2. CASE g # f /\ h # f
  <2>1. Distance(f, g) <= Distance(f, h) /\ Distance(f, h) <= Distance(f, g)
    BY <1>2 DEF IsBest
  <2> QED BY <2>1, Distances
<1> QED BY <1>1, <1>2

LEMMA BestIs ==
  ASSUME NEW f \in Files, NEW D, D \subseteq Files, D # {}
  PROVE  Best(f, D) \in D /\ IsBest(f, D, Best(f, D))
<1>1. Best(f, D) = CHOOSE g \in D : IsBest(f, D, g)
  BY DEF Best, IsBest
<1> QED BY <1>1, BestExists

\* An edge stays right when another file than its own and its target is gone.
LEMMA RightWithout ==
  ASSUME NEW e \in Files \X Names \X Files, NEW D, D \subseteq Files, RightAmong(e, D),
         NEW f \in Files, f # e[1], f # e[3]
  PROVE  RightAmong(e, D \ {f})
<1> DEFINE a == e[1]
           b == e[3]
           n == e[2]
<1>1. a \in Files /\ b \in Files /\ D # {} /\ b = Best(a, D)
  BY DEF RightAmong
<1>2. b \in D \ {f} /\ IsBest(a, D, b)
  BY <1>1, BestIs
<1>3. IsBest(a, D \ {f}, b)
  BY <1>2 DEF IsBest
<1>4. Best(a, D \ {f}) = b
  <2>1. D \ {f} \subseteq Files /\ D \ {f} # {}
    BY <1>2
  <2>2. Best(a, D \ {f}) \in D \ {f} /\ IsBest(a, D \ {f}, Best(a, D \ {f}))
    BY <1>1, <2>1, BestIs
  <2> QED BY <1>1, <1>2, <1>3, <2>1, <2>2, BestIsOne
<1>5. n \in unguessed => a \in D \ {f} \/ Cardinality(D \ {f}) = 1
  <2>1. CASE a \in D
    BY <2>1
  <2>2. CASE a \notin D
    <3> SUFFICES ASSUME n \in unguessed PROVE Cardinality(D \ {f}) = 1
      OBVIOUS
    <3>1. Cardinality(D) = 1
      BY <2>2 DEF RightAmong
    <3>2. IsFiniteSet(D)
      <4>1. IsFiniteSet(1 .. N)
        BY GraphSyncAssumption, FS_Interval
      <4> QED BY <4>1, FS_Subset DEF Files
    <3>3. \E x : D = {x}
      BY <3>1, <3>2, FS_Singleton
    <3> QED BY <1>2, <3>1, <3>3
  <2> QED BY <2>1, <2>2
<1> QED BY <1>2, <1>4, <1>5 DEF RightAmong

-----------------------------------------------------------------------------
\* A reference that a tree has, and the edges and rows that a rebuild has.
LEMMA Refs ==
  ASSUME NEW tree, NEW f, NEW n
  PROVE  <<f, n>> \in AllRefs(tree) <=> f \in Files /\ n \in Names /\ n \in tree[f].refs
BY DEF AllRefs

LEMMA Pairs ==
  ASSUME NEW F, NEW f, NEW n
  PROVE  <<f, n>> \in PairsOf(F) <=> f \in F /\ n \in rows[f].defs
BY DEF PairsOf

\* A name whose definitions a sync has not changed has the definers it had.
LEMMA UnchangedName ==
  ASSUME TypeOK, NEW n, n \notin DefinitionDelta
  PROVE  WereDefiners(n) = Definers(rows, n)
<1>1. \A f : <<f, n>> \in before <=> <<f, n>> \in PairsOf(changed)
  <2> SUFFICES ASSUME NEW f, ~(<<f, n>> \in before <=> <<f, n>> \in PairsOf(changed))
               PROVE  FALSE
    OBVIOUS
  <2>1. <<f, n>>[2] = n
    OBVIOUS
  <2>2. <<f, n>> \in (before \ PairsOf(changed)) \cup (PairsOf(changed) \ before)
    OBVIOUS
  <2> QED BY <2>1, <2>2 DEF DefinitionDelta
<1>2. \A f : <<f, n>> \in before <=> f \in changed /\ n \in rows[f].defs
  BY <1>1, Pairs
<1> QED BY <1>2 DEF WereDefiners, Definers

\* Without changed files or remembered ones the definers are the same.
LEMMA NothingChanged ==
  ASSUME NEW n, changed = {}, before = {}
  PROVE  WereDefiners(n) = Definers(rows, n)
BY DEF WereDefiners, Definers

-----------------------------------------------------------------------------
\* A project that has been indexed is as it should be.
LEMMA GraphInit == Init => GInv
<1> SUFFICES ASSUME Init PROVE GInv
  OBVIOUS
<1>1. rows \in Trees /\ \A f \in Files : rows[f] \in Contents \cup {Absent}
  BY DEF Init, Trees
<1>2. \A n \in Names : Definers(rows, n) \subseteq Files
  BY DEF Definers
<1>3. \A fn \in AllRefs(rows) :
        /\ fn \in Files \X Names /\ fn = <<fn[1], fn[2]>>
        /\ Resolvable(rows, fn[1], fn[2]) =>
             LET e == Bound(rows, fn[1], fn[2])
             IN e \in Files \X Names \X Files /\ e[1] = fn[1] /\ e[2] = fn[2] /\ Right(e)
  <2> SUFFICES ASSUME NEW fn \in AllRefs(rows)
               PROVE  /\ fn \in Files \X Names /\ fn = <<fn[1], fn[2]>>
                      /\ Resolvable(rows, fn[1], fn[2]) =>
                           LET e == Bound(rows, fn[1], fn[2])
                           IN e \in Files \X Names \X Files /\ e[1] = fn[1] /\ e[2] = fn[2]
                              /\ Right(e)
    OBVIOUS
  <2>1. fn \in Files \X Names /\ fn = <<fn[1], fn[2]>>
    BY DEF AllRefs
  <2>2. ASSUME Resolvable(rows, fn[1], fn[2])
        PROVE  LET e == Bound(rows, fn[1], fn[2])
               IN e \in Files \X Names \X Files /\ e[1] = fn[1] /\ e[2] = fn[2] /\ Right(e)
    <3>1. Definers(rows, fn[2]) # {}
      BY <2>2 DEF Resolvable
    <3>2. Best(fn[1], Definers(rows, fn[2])) \in Files
      BY <1>2, <2>1, <3>1, BestIs
    <3> QED BY <2>1, <2>2, <3>2 DEF Bound, Right, RightAmong, Resolvable
  <2> QED BY <2>1, <2>2
<1>4. /\ edges \subseteq Files \X Names \X Files
      /\ \A e \in edges : <<e[1], e[2]>> \in AllRefs(rows) /\ Right(e)
  BY <1>3 DEF Init, RebuiltEdges
<1>5. /\ refs \subseteq Files \X Names \X {"pending", "failed"}
      /\ \A r \in refs : /\ r[3] = "failed" /\ <<r[1], r[2]>> \in AllRefs(rows)
                         /\ ~Resolvable(rows, r[1], r[2])
  BY <1>3 DEF Init, RebuiltRefs
<1>6. TypeOK
  <2>1. storing \in [file : 0 .. N, content : Contents \cup {Absent}]
    BY GraphSyncAssumption DEF Init, Nothing
  <2>2. edits \in 0 .. MaxEdits /\ crashes \in 0 .. MaxCrashes
    BY GraphSyncAssumption DEF Init
  <2> QED BY <1>1, <1>4, <1>5, <2>1, <2>2 DEF Init, TypeOK
<1>7. Noted
  BY DEF Init, Noted, Replacing, Sweeping
<1>8. Known
  BY <1>4, <1>5 DEF Init, Known
<1>9. Binds
  BY DEF Init, Binds
<1>10. ReferencesAreKept
  <2> SUFFICES ASSUME NEW fn \in AllRefs(rows)
               PROVE  \/ \E g \in Files : <<fn[1], fn[2], g>> \in edges
                      \/ <<fn[1], fn[2], "failed">> \in refs
    BY DEF ReferencesAreKept
  <2>1. CASE Resolvable(rows, fn[1], fn[2])
    <3>1. Bound(rows, fn[1], fn[2]) \in edges
      BY <2>1 DEF Init, RebuiltEdges
    <3> QED BY <1>3, <2>1, <3>1 DEF Bound
  <2>2. CASE ~Resolvable(rows, fn[1], fn[2])
    BY <2>2 DEF Init, RebuiltRefs
  <2> QED BY <2>1, <2>2
<1>11. EdgesAreRight
  <2>1. \A n : WereDefiners(n) = Definers(rows, n)
    BY NothingChanged DEF Init
  <2> QED BY <1>4, <2>1 DEF Init, EdgesAreRight, Right, WasRight, Replacing, Sweeping
<1>12. FailuresAreRight
  BY <1>5 DEF FailuresAreRight, Failed, Resolvable
<1>13. Settled
  BY <1>5 DEF Settled
<1> QED BY <1>6, <1>7, <1>8, <1>9, <1>10, <1>11, <1>12, <1>13 DEF GInv

-----------------------------------------------------------------------------
(* What the steps have in common.                                           *)

\* Only the end of a sync and the failed references bind.
LEMMA NoneBinds ==
  ASSUME Binds, pc \notin {"resolve", "retry", "sweep"}
  PROVE  binding = {}
BY DEF Binds, Rows

\* What is right depends on the rows only, and what was right on those of files that are
\* not changed.
LEMMA StaysRight ==
  ASSUME UNCHANGED <<rows, unguessed>>
  PROVE  /\ \A n : Definers(rows, n)' = Definers(rows, n)
         /\ \A e : Right(e)' <=> Right(e)
BY DEF Right, RightAmong, Definers

LEMMA StaysBound ==
  ASSUME UNCHANGED <<rows, unguessed>>
  PROVE  \A f, n : /\ Resolvable(rows, f, n)' <=> Resolvable(rows, f, n)
                    /\ Bound(rows, f, n)' = Bound(rows, f, n)
BY StaysRight DEF Resolvable, Bound

LEMMA WasRightStays ==
  ASSUME UNCHANGED unguessed, \A n : WereDefiners(n)' = WereDefiners(n)
  PROVE  \A e : WasRight(e)' <=> WasRight(e)
BY DEF WasRight, RightAmong

LEMMA WereDefinersStay ==
  ASSUME UNCHANGED <<rows, before, changed>>
  PROVE  \A n : WereDefiners(n)' = WereDefiners(n)
BY DEF WereDefiners

\* A file that is saved, or nothing, is of no concern to a sync.
LEMMA GraphFrame ==
  ASSUME GInv, UNCHANGED <<unguessed, db, syncVars, history>>
  PROVE  /\ Noted' /\ Known' /\ Binds' /\ ReferencesAreKept' /\ EdgesAreRight'
         /\ FailuresAreRight' /\ Settled'
<1> USE DEF GInv, db, syncVars, history
<1>1. Noted'
  BY DEF Noted, Replacing, Sweeping, Replaced, IncomingOf, Resurrected, PairsOf
<1>2. Known'
  BY DEF Known, AllRefs
<1>3. Binds'
  <2>1. Rows' = Rows /\ UNCHANGED <<binding, edges>>
    BY DEF Rows, NamesOf
  <2> QED BY <2>1, StaysBound DEF Binds
<1>4. ReferencesAreKept'
  BY DEF ReferencesAreKept, AllRefs
<1>5. EdgesAreRight'
  BY StaysRight, WasRightStays, WereDefinersStay
     DEF EdgesAreRight, Kempt, Replacing, Sweeping, Replaced
<1>6. FailuresAreRight'
  BY StaysRight DEF FailuresAreRight, Failed, Kempt, Sweeping
<1>7. Settled'
  BY DEF Settled, Rested
<1> QED BY <1>1, <1>2, <1>3, <1>4, <1>5, <1>6, <1>7

LEMMA EditStep == ASSUME GInv, NEW f \in Files, Edit(f) PROVE GInv'
<1>1. TypeOK'
  <2>1. disk' \in Trees
    BY DEF GInv, TypeOK, Edit, Trees
  <2>2. edits' \in 0 .. MaxEdits
    BY GraphSyncAssumption DEF GInv, TypeOK, Edit
  <2> QED BY <2>1, <2>2 DEF GInv, TypeOK, Edit, db, syncVars, history
<1> QED BY <1>1, GraphFrame DEF GInv, Edit

\* A process that dies forgets what it held.
LEMMA CrashStep == ASSUME GInv, Crash PROVE GInv'
<1> USE DEF GInv
<1>1. /\ UNCHANGED <<rows, edges, refs, unguessed, passedBy>> /\ completed' = FALSE
      /\ pc' = "idle" /\ changed' = {} /\ before' = {} /\ incoming' = {} /\ owed' = {}
      /\ binding' = {} /\ storing' = Nothing
      /\ ~forgot' => ~forgot /\ pc \in {"remove", "delete", "sweep"}
  BY DEF Crash, Forget, db
<1>2. TypeOK'
  <2>1. Nothing \in [file : 0 .. N, content : Contents \cup {Absent}]
    BY GraphSyncAssumption DEF Nothing
  <2>2. crashes' \in 0 .. MaxCrashes
    BY GraphSyncAssumption DEF TypeOK, Crash
  <2> QED BY <2>1, <2>2 DEF TypeOK, Crash, Forget, db
<1>3. Noted'
  BY <1>1 DEF Noted, Replacing, Sweeping
<1>4. Known'
  BY <1>1 DEF Known, AllRefs
<1>5. Binds'
  BY <1>1 DEF Binds
<1>6. ReferencesAreKept'
  <2> SUFFICES ASSUME ~forgot' PROVE ReferencesAreKept'
    BY DEF ReferencesAreKept
  <2>1. ~forgot /\ incoming = {} /\ owed = {}
    BY <1>1 DEF TypeOK
  <2> QED BY <1>1, <2>1 DEF ReferencesAreKept, AllRefs
<1>7. EdgesAreRight'
  <2> SUFFICES ASSUME Kempt' PROVE \A e \in edges : Right(e)' /\ WasRight(e)'
    BY <1>1 DEF EdgesAreRight, Replacing, Sweeping
  <2>1. Kempt /\ pc \in {"remove", "delete", "sweep"}
    BY <1>1 DEF Kempt
  <2>2. \A e \in edges : Right(e)
    BY <2>1 DEF EdgesAreRight, Sweeping
  <2>3. \A e \in edges : Right(e)'
    BY <1>1, <2>2, StaysRight
  <2>4. \A n : WereDefiners(n)' = Definers(rows, n)'
    BY <1>1 DEF WereDefiners, Definers
  <2> QED BY <2>3, <2>4 DEF Right, WasRight
<1>8. FailuresAreRight'
  <2> SUFFICES ASSUME Kempt', NEW r \in Failed PROVE Definers(rows, r[2])' = {}
    BY <1>1 DEF FailuresAreRight, Failed
  <2>1. Kempt /\ pc \in {"remove", "delete", "sweep"}
    BY <1>1 DEF Kempt
  <2>2. Definers(rows, r[2]) = {}
    BY <2>1 DEF FailuresAreRight, Sweeping, Noted
  <2> QED BY <1>1, <2>2, StaysRight
<1>9. Settled'
  BY <1>1 DEF Settled, Rested
<1> QED BY <1>2, <1>3, <1>4, <1>5, <1>6, <1>7, <1>8, <1>9

LEMMA StartStep == ASSUME GInv, Start PROVE GInv'
<1> USE DEF GInv
<1>1. /\ UNCHANGED <<rows, edges, refs, unguessed, changed, before, storing, incoming, owed,
                     binding, skipped, forgot, passedBy>>
      /\ pc = "idle" /\ pc' = "remove" /\ completed' = FALSE
      /\ changed = {} /\ before = {}
  BY DEF Start, db, rest, model, TypeOK
<1>2. TypeOK'
  BY DEF TypeOK, Start, db, rest, model
<1>3. Noted'
  BY <1>1 DEF Noted, Replacing, Sweeping
<1>4. Known'
  BY <1>1 DEF Known, AllRefs
<1>5. Binds'
  BY <1>1, NoneBinds DEF Binds
<1>6. ReferencesAreKept'
  BY <1>1 DEF ReferencesAreKept, AllRefs
<1>7. EdgesAreRight'
  BY <1>1, StaysRight, WasRightStays, WereDefinersStay
     DEF EdgesAreRight, Kempt, Replacing, Sweeping
<1>8. FailuresAreRight'
  BY <1>1, StaysRight DEF FailuresAreRight, Failed, Kempt, Sweeping
<1>9. Settled'
  BY <1>1 DEF Settled, Rested
<1> QED BY <1>2, <1>3, <1>4, <1>5, <1>6, <1>7, <1>8, <1>9

-----------------------------------------------------------------------------
(* Files that are gone.                                                     *)

LEMMA RemoveStep == ASSUME GInv, NEW f \in Files, Remove(f) PROVE GInv'
<1> USE DEF GInv
<1>1. /\ UNCHANGED <<disk, rows, edges, unguessed, current, changed, storing, incoming, owed,
                     binding, skipped, forgot, passedBy, completed, edits, crashes>>
      /\ pc = "remove" /\ changed = {} /\ f \in todo /\ f = Min(todo)
  BY DEF Remove, rest, model, Noted
<1>2. \/ todo' = todo \ {f} /\ UNCHANGED <<pc, before, refs>>
      \/ /\ before' = before \cup PairsOf({f}) /\ refs' = refs \cup Resurrected(IncomingOf(f))
         /\ pc' = "delete" /\ UNCHANGED todo
  BY DEF Remove, Resurrects
<1>3. refs' \ refs \subseteq Resurrected(edges) /\ refs \subseteq refs'
  BY <1>2 DEF Resurrected, IncomingOf
<1>4. PairsOf({f}) \subseteq Files \X Names
  BY DEF PairsOf, TypeOK, Trees, Contents, Absent
<1>5. TypeOK'
  <2>1. refs' \subseteq Files \X Names \X {"pending", "failed"}
    BY <1>3 DEF TypeOK, Resurrected
  <2>2. before' \subseteq Files \X Names /\ todo' \subseteq Files
    BY <1>2, <1>4 DEF TypeOK
  <2>3. binding' \subseteq refs'
    BY <1>1, <1>3 DEF TypeOK
  <2> QED BY <1>1, <1>2, <2>1, <2>2, <2>3 DEF TypeOK
<1>6. Noted'
  <2>1. pc' = "delete" =>
          \A g \in Files : g = Min(todo') =>
            Resurrected(IncomingOf(g))' \subseteq refs' /\ PairsOf({g})' \subseteq before'
    BY <1>1, <1>2 DEF Resurrected, IncomingOf, PairsOf
  <2> QED BY <1>1, <1>2, <2>1 DEF Noted, Replacing, Sweeping
<1>7. Known'
  BY <1>1, <1>3 DEF Known, AllRefs, Resurrected
<1>8. Binds'
  BY <1>1, NoneBinds DEF Binds
<1>9. ReferencesAreKept'
  BY <1>1, <1>3 DEF ReferencesAreKept, AllRefs
<1>10. EdgesAreRight'
  <2>1. \A n : WereDefiners(n)' = WereDefiners(n)
    BY <1>1, <1>2, Pairs DEF WereDefiners
  <2> QED BY <1>1, <1>2, <2>1, StaysRight, WasRightStays
          DEF EdgesAreRight, Kempt, Replacing, Sweeping
<1>11. FailuresAreRight'
  <2>1. \A r \in refs' : r[3] = "failed" => r \in refs
    BY <1>3 DEF Resurrected
  <2> QED BY <1>1, <1>2, <2>1, StaysRight DEF FailuresAreRight, Failed, Kempt, Sweeping
<1>12. Settled'
  BY <1>1, <1>2 DEF Settled, Rested
<1> QED BY <1>5, <1>6, <1>7, <1>8, <1>9, <1>10, <1>11, <1>12

\* Without the rows of a file, the references of the others stay.
LEMMA WithoutFile ==
  ASSUME TypeOK, NEW f \in Files, rows' = [rows EXCEPT ![f] = Absent]
  PROVE  /\ rows' \in Trees /\ rows'[f] = Absent
         /\ \A g \in Files \ {f} : rows'[g] = rows[g]
         /\ \A a, n : <<a, n>> \in AllRefs(rows)' <=> <<a, n>> \in AllRefs(rows) /\ a # f
         /\ \A n : Definers(rows, n)' = Definers(rows, n) \ {f}
<1>1. rows' \in Trees /\ rows'[f] = Absent /\ \A g \in Files \ {f} : rows'[g] = rows[g]
  BY DEF TypeOK, Trees
<1>2. ASSUME NEW a, NEW n
      PROVE  <<a, n>> \in AllRefs(rows)' <=> <<a, n>> \in AllRefs(rows) /\ a # f
  <2>1. <<a, n>> \in AllRefs(rows)' <=> a \in Files /\ n \in Names /\ n \in rows'[a].refs
    BY DEF AllRefs
  <2> QED BY <1>1, <2>1, Refs DEF Absent
<1>3. \A n : Definers(rows, n)' = Definers(rows, n) \ {f}
  BY <1>1 DEF Definers, Absent
<1> QED BY <1>1, <1>2, <1>3

\* What the cascade leaves is of the other files.
LEMMA Cascade ==
  ASSUME TypeOK, Known, NEW f \in Files, DeletesFile(f)
  PROVE  /\ \A e \in edges' : e \in edges /\ e[1] # f /\ e[3] # f
         /\ \A r \in refs' : r \in refs /\ r[1] # f
         /\ \A e \in edges : e[1] # f /\ e \notin edges' => e \in IncomingOf(f)
         /\ \A e \in edges' : <<e[1], e[2]>> \in AllRefs(rows)'
         /\ \A r \in refs' : <<r[1], r[2]>> \in AllRefs(rows)'
<1>1. rows' = [rows EXCEPT ![f] = Absent]
  BY DEF DeletesFile
<1>2. \A a, n : <<a, n>> \in AllRefs(rows) /\ a # f => <<a, n>> \in AllRefs(rows)'
  BY <1>1, WithoutFile
<1> QED BY <1>2 DEF DeletesFile, IncomingOf, Known

LEMMA DeleteStep == ASSUME GInv, NEW f \in Files, Delete(f) PROVE GInv'
<1> USE DEF GInv
<1>1. /\ UNCHANGED <<disk, unguessed, current, changed, before, storing, incoming, owed,
                     binding, skipped, forgot, passedBy, completed, edits, crashes>>
      /\ pc = "delete" /\ pc' = "remove" /\ changed = {} /\ f = Min(todo)
      /\ DeletesFile(f) /\ todo' = todo \ {f}
      /\ storing = Nothing /\ owed = {} /\ incoming = {} /\ binding = {}
  BY NoneBinds DEF Delete, rest, model, Noted, TypeOK
<1>2. Resurrected(IncomingOf(f)) \subseteq refs /\ PairsOf({f}) \subseteq before
  BY <1>1 DEF Noted
<1>3. rows' = [rows EXCEPT ![f] = Absent]
  BY <1>1 DEF DeletesFile
<1>4. edges' \subseteq edges /\ refs' \subseteq refs
  BY <1>1 DEF DeletesFile
<1>5. TypeOK'
  BY <1>1, <1>3, <1>4, WithoutFile DEF TypeOK
<1>6. Noted'
  BY <1>1 DEF Noted, Replacing, Sweeping
<1>7. Known'
  BY <1>1, Cascade DEF Known
<1>8. Binds'
  BY <1>1 DEF Binds
<1>9. ReferencesAreKept'
  <2> SUFFICES ASSUME ~forgot, NEW fn \in AllRefs(rows)'
               PROVE  \/ \E g \in Files : <<fn[1], fn[2], g>> \in edges'
                      \/ \E s \in {"pending", "failed"} : <<fn[1], fn[2], s>> \in refs'
    BY <1>1 DEF ReferencesAreKept
  <2>1. fn = <<fn[1], fn[2]>> /\ fn \in AllRefs(rows) /\ fn[1] # f
    <3>1. fn = <<fn[1], fn[2]>>
      BY DEF AllRefs
    <3>2. <<fn[1], fn[2]>> \in AllRefs(rows)'
      BY <3>1
    <3>3. \A a, n : <<a, n>> \in AllRefs(rows)' => <<a, n>> \in AllRefs(rows) /\ a # f
      BY <1>3, WithoutFile
    <3>4. <<fn[1], fn[2]>> \in AllRefs(rows) /\ fn[1] # f
      BY <3>2, <3>3, Zenon
    <3> QED BY <3>1, <3>4
  <2>2. CASE \E g \in Files : <<fn[1], fn[2], g>> \in edges
    <3>1. PICK g \in Files : <<fn[1], fn[2], g>> \in edges
      BY <2>2
    <3>2. CASE <<fn[1], fn[2], g>> \in edges'
      BY <3>2
    <3>3. CASE <<fn[1], fn[2], g>> \notin edges'
      <4>1. <<fn[1], fn[2], g>> \in IncomingOf(f)
        BY <1>1, <2>1, <3>1, <3>3, Cascade
      <4>2. <<fn[1], fn[2], "pending">> \in refs
        BY <1>2, <4>1 DEF Resurrected
      <4> QED BY <1>1, <2>1, <4>2 DEF DeletesFile
    <3> QED BY <3>2, <3>3
  <2>3. CASE \E s \in {"pending", "failed"} : <<fn[1], fn[2], s>> \in refs
    BY <1>1, <2>1, <2>3 DEF DeletesFile
  <2> QED BY <1>1, <2>1, <2>2, <2>3 DEF ReferencesAreKept
<1>10. EdgesAreRight'
  <2> SUFFICES ASSUME Kempt, NEW e \in edges' PROVE Right(e)' /\ WasRight(e)'
    BY <1>1 DEF EdgesAreRight, Kempt, Replacing, Sweeping
  <2>1. e \in Files \X Names \X Files /\ e \in edges /\ f # e[1] /\ f # e[3]
    BY <1>1, <1>4, Cascade DEF TypeOK
  <2>2. Right(e) /\ WasRight(e)
    BY <1>1, <2>1 DEF EdgesAreRight
  <2>3. RightAmong(e, Definers(rows, e[2]) \ {f})
    BY <2>1, <2>2, RightWithout DEF Right, Definers
  <2>4. Right(e)'
    <3>1. Definers(rows, e[2])' = Definers(rows, e[2]) \ {f}
      BY <1>3, WithoutFile
    <3> QED BY <1>1, <2>3, <3>1 DEF Right, RightAmong
  <2>5. \A n : WereDefiners(n)' = WereDefiners(n)
    <3>1. \A n : n \in rows[f].defs => <<f, n>> \in before
      BY <1>2, Pairs
    <3> QED BY <1>1, <1>3, <3>1, WithoutFile DEF WereDefiners, Absent
  <2> QED BY <1>1, <2>2, <2>4, <2>5, WasRightStays
<1>11. FailuresAreRight'
  <2> SUFFICES ASSUME Kempt, NEW r \in refs', r[3] = "failed", r[2] \notin unguessed
               PROVE  Definers(rows, r[2])' = {}
    BY <1>1 DEF FailuresAreRight, Failed, Kempt
  <2>1. r \in Failed
    BY <1>4 DEF Failed
  <2>2. Definers(rows, r[2]) = {}
    BY <1>1, <2>1 DEF FailuresAreRight
  <2> QED BY <1>3, <2>2, WithoutFile
<1>12. Settled'
  BY <1>1 DEF Settled, Rested
<1> QED BY <1>5, <1>6, <1>7, <1>8, <1>9, <1>10, <1>11, <1>12

-----------------------------------------------------------------------------
(* Files that have changed.                                                 *)

LEMMA ClassifyStep == ASSUME GInv, Classify PROVE GInv'
<1> USE DEF GInv
<1>1. /\ UNCHANGED <<disk, rows, edges, refs, unguessed, storing, incoming, owed,
                     binding, skipped, forgot, passedBy, completed, edits, crashes>>
      /\ pc = "remove" /\ pc' = "index" /\ changed = {} /\ skipped = {}
      /\ changed' \subseteq current /\ current' = {} /\ todo' = changed'
      /\ before' = before \cup PairsOf(changed')
      /\ storing = Nothing /\ incoming = {} /\ owed = {} /\ binding = {}
  BY NoneBinds DEF Classify, db, rest, model, Noted, TypeOK
<1>2. TypeOK'
  <2>1. current \subseteq Files
    BY DEF TypeOK
  <2>2. PairsOf(changed') \subseteq Files \X Names
    BY <1>1, <2>1 DEF PairsOf, TypeOK, Trees, Contents, Absent
  <2>3. before' \subseteq Files \X Names /\ changed' \subseteq Files /\ todo' \subseteq Files
    BY <1>1, <2>1, <2>2 DEF TypeOK
  <2>4. skipped' \subseteq changed'
    BY <1>1
  <2> QED BY <1>1, <2>3, <2>4 DEF TypeOK
<1>3. Noted'
  BY <1>1 DEF Noted, Replacing, Sweeping
<1>4. Known'
  BY <1>1 DEF Known, AllRefs
<1>5. Binds'
  BY <1>1 DEF Binds
<1>6. ReferencesAreKept'
  BY <1>1 DEF ReferencesAreKept, AllRefs
<1>7. EdgesAreRight'
  <2> SUFFICES ASSUME Kempt, NEW e \in edges PROVE WasRight(e)' /\ e[1] \notin Replaced'
    BY <1>1 DEF EdgesAreRight, Kempt, Replacing, Sweeping
  <2>1. WasRight(e)
    BY <1>1 DEF EdgesAreRight
  <2>2. \A n : WereDefiners(n)' = WereDefiners(n)
    <3>1. \A a, n : <<a, n>> \in before' <=>
                      <<a, n>> \in before \/ (a \in changed' /\ n \in rows[a].defs)
      BY <1>1, Pairs
    <3> QED BY <1>1, <3>1 DEF WereDefiners
  <2>3. Replaced' = {}
    BY <1>1 DEF Replaced
  <2> QED BY <1>1, <2>1, <2>2, <2>3, WasRightStays
<1>8. FailuresAreRight'
  <2> SUFFICES ASSUME Kempt, NEW r \in Failed PROVE Definers(rows, r[2]) = {}
    BY <1>1, StaysRight DEF FailuresAreRight, Kempt, Sweeping, Failed
  <2> QED BY <1>1 DEF FailuresAreRight
<1>9. Settled'
  BY <1>1 DEF Settled, Rested
<1> QED BY <1>2, <1>3, <1>4, <1>5, <1>6, <1>7, <1>8, <1>9

LEMMA SkipStep == ASSUME GInv, NEW f \in Files, Skip(f) PROVE GInv'
<1> USE DEF GInv
<1>1. /\ UNCHANGED <<disk, rows, edges, refs, unguessed, current, changed, before, storing,
                     incoming, owed, binding, pc, forgot, passedBy, completed, edits, crashes>>
      /\ pc = "index" /\ f \in todo /\ todo' = todo \ {f} /\ skipped' = skipped \cup {f}
      /\ todo \subseteq changed
  BY DEF Skip, db, model, Noted, Replacing
<1>2. TypeOK'
  <2>1. todo' \subseteq Files /\ skipped' \subseteq changed'
    BY <1>1 DEF TypeOK
  <2> QED BY <1>1, <2>1 DEF TypeOK
<1>3. Noted'
  BY <1>1 DEF Noted, Replacing, Sweeping
<1>4. Known'
  BY <1>1 DEF Known, AllRefs
<1>5. Binds'
  BY <1>1, NoneBinds DEF Binds
<1>6. ReferencesAreKept'
  BY <1>1 DEF ReferencesAreKept, AllRefs
<1>7. EdgesAreRight'
  <2>1. Replaced' = Replaced
    BY <1>1 DEF Replaced
  <2> QED BY <1>1, <2>1, WasRightStays, WereDefinersStay
          DEF EdgesAreRight, Kempt, Replacing, Sweeping
<1>8. FailuresAreRight'
  BY <1>1, StaysRight DEF FailuresAreRight, Kempt, Sweeping, Failed
<1>9. Settled'
  BY <1>1 DEF Settled, Rested
<1> QED BY <1>2, <1>3, <1>4, <1>5, <1>6, <1>7, <1>8, <1>9

LEMMA IndexStep == ASSUME GInv, NEW f \in Files, Index(f) PROVE GInv'
<1> USE DEF GInv
<1>1. /\ UNCHANGED <<disk, unguessed, current, changed, before, owed, binding, skipped, forgot,
                     passedBy, completed, edits, crashes>>
      /\ pc = "index" /\ pc' = "store" /\ f \in todo /\ todo' = todo \ {f}
      /\ storing' = [file |-> f, content |-> disk[f]] /\ incoming' = IncomingOf(f)
      /\ DeletesFile(f) /\ todo \subseteq changed
      /\ incoming = {} /\ owed = {} /\ binding = {}
  BY NoneBinds DEF Index, rest, model, Noted, TypeOK, Replacing
<1>2. rows' = [rows EXCEPT ![f] = Absent]
  BY <1>1 DEF DeletesFile
<1>3. edges' \subseteq edges /\ refs' \subseteq refs /\ incoming' \subseteq edges
  BY <1>1 DEF DeletesFile, IncomingOf
<1>4. TypeOK'
  <2>1. storing' \in [file : 0 .. N, content : Contents \cup {Absent}]
    BY <1>1, GraphSyncAssumption DEF TypeOK, Trees, Files
  <2>2. rows' \in Trees
    BY <1>2, WithoutFile
  <2>3. incoming' \subseteq Files \X Names \X Files
    BY <1>3 DEF TypeOK
  <2>4. edges' \subseteq Files \X Names \X Files
        /\ refs' \subseteq Files \X Names \X {"pending", "failed"}
        /\ todo' \subseteq Files /\ binding' \subseteq refs'
    BY <1>1, <1>3 DEF TypeOK
  <2> QED BY <1>1, <2>1, <2>2, <2>3, <2>4 DEF TypeOK
<1>5. f \in changed /\ f \notin todo' /\ f \notin skipped
  BY <1>1 DEF Noted, Replacing
<1>6. f \in Replaced'
  BY <1>1, <1>5 DEF Replaced
<1>7. Noted'
  <2>1. storing'.file = f /\ rows'[f] = Absent
    BY <1>1, <1>2, WithoutFile
  <2> QED BY <1>1, <1>6, <2>1 DEF Noted, Replacing, Sweeping
<1>8. Known'
  <2>1. \A e \in incoming' : <<e[1], e[2]>> \in AllRefs(rows)'
    <3>1. \A a, n : <<a, n>> \in AllRefs(rows) /\ a # f => <<a, n>> \in AllRefs(rows)'
      BY <1>2, WithoutFile
    <3>2. \A e \in incoming' : <<e[1], e[2]>> \in AllRefs(rows) /\ e[1] # f
      BY <1>1 DEF IncomingOf, Known
    <3> QED BY <3>1, <3>2
  <2> QED BY <1>1, <2>1, Cascade DEF Known
<1>9. Binds'
  BY <1>1 DEF Binds
<1>10. ReferencesAreKept'
  <2> SUFFICES ASSUME ~forgot, NEW fn \in AllRefs(rows)'
               PROVE  \/ \E g \in Files : <<fn[1], fn[2], g>> \in edges' \cup incoming'
                      \/ \E s \in {"pending", "failed"} : <<fn[1], fn[2], s>> \in refs'
    BY <1>1 DEF ReferencesAreKept
  <2>1. fn \in AllRefs(rows) /\ fn[1] # f
    <3>1. fn = <<fn[1], fn[2]>>
      BY DEF AllRefs
    <3>2. <<fn[1], fn[2]>> \in AllRefs(rows)'
      BY <3>1
    <3>3. \A a, n : <<a, n>> \in AllRefs(rows)' => <<a, n>> \in AllRefs(rows) /\ a # f
      BY <1>2, WithoutFile
    <3>4. <<fn[1], fn[2]>> \in AllRefs(rows) /\ fn[1] # f
      BY <3>2, <3>3, Zenon
    <3> QED BY <3>1, <3>4
  <2>2. CASE \E g \in Files : <<fn[1], fn[2], g>> \in edges
    <3>1. PICK g \in Files : <<fn[1], fn[2], g>> \in edges
      BY <2>2
    <3> QED BY <1>1, <2>1, <3>1, Cascade
  <2>3. CASE \E s \in {"pending", "failed"} : <<fn[1], fn[2], s>> \in refs
    BY <1>1, <2>1, <2>3 DEF DeletesFile
  <2> QED BY <1>1, <2>1, <2>2, <2>3 DEF ReferencesAreKept
<1>11. EdgesAreRight'
  <2> SUFFICES ASSUME Kempt, NEW e \in edges' \cup incoming'
               PROVE  WasRight(e)' /\ e[1] \notin Replaced'
    BY <1>1 DEF EdgesAreRight, Kempt, Replacing, Sweeping
  <2>1. e \in edges /\ e[1] # f
    BY <1>1, <1>3, Cascade DEF IncomingOf
  <2>2. WasRight(e) /\ e[1] \notin Replaced
    BY <1>1, <2>1 DEF EdgesAreRight, Replacing
  <2>3. e[1] \notin Replaced'
    BY <1>1, <2>1, <2>2 DEF Replaced
  <2>4. \A n : WereDefiners(n)' = WereDefiners(n)
    BY <1>1, <1>2, WithoutFile DEF WereDefiners
  <2> QED BY <1>1, <2>2, <2>3, <2>4, WasRightStays
<1>12. FailuresAreRight'
  <2> SUFFICES ASSUME Kempt, NEW r \in refs', r[3] = "failed", r[2] \notin unguessed
               PROVE  Definers(rows, r[2])' \subseteq changed
    BY <1>1 DEF FailuresAreRight, Failed, Kempt, Sweeping
  <2>1. Definers(rows, r[2]) \subseteq changed
    BY <1>3 DEF FailuresAreRight, Failed
  <2>2. \A n : Definers(rows, n)' \subseteq Definers(rows, n)
    BY <1>2, WithoutFile
  <2> QED BY <2>1, <2>2
<1>13. Settled'
  BY <1>1 DEF Settled, Rested
<1> QED BY <1>4, <1>7, <1>8, <1>9, <1>10, <1>11, <1>12, <1>13

\* The file that is stored has the references of what was read, and no row or edge was
\* of it.
LEMMA StoredFile ==
  ASSUME GInv, Store
  PROVE  /\ storing.file \in Files /\ storing.file \in changed
         /\ rows' \in Trees /\ rows'[storing.file] = storing.content
         /\ storing.content \in Contents \cup {Absent}
         /\ \A g \in Files \ {storing.file} : rows'[g] = rows[g]
         /\ \A a, n : <<a, n>> \in AllRefs(rows) => <<a, n>> \in AllRefs(rows)'
         /\ \A a, n : <<a, n>> \in AllRefs(rows)' =>
              <<a, n>> \in AllRefs(rows) \/ (a = storing.file /\ n \in storing.content.refs)
         /\ \A n \in storing.content.refs : n \in Names /\ <<storing.file, n>> \in AllRefs(rows)'
<1> USE DEF GInv
<1>1. pc = "store" /\ rows' = [rows EXCEPT ![storing.file] = storing.content]
  BY DEF Store
<1>2. storing.file \in Replaced /\ rows[storing.file] = Absent
  BY <1>1 DEF Noted
<1>3. storing.file \in Files /\ storing.file \in changed
  BY <1>2 DEF Replaced, TypeOK
<1>4. storing.content \in Contents \cup {Absent}
  BY DEF TypeOK
<1>5. rows' \in Trees /\ rows'[storing.file] = storing.content
      /\ \A g \in Files \ {storing.file} : rows'[g] = rows[g]
  BY <1>1, <1>3, <1>4 DEF TypeOK, Trees
<1>6. \A a, n : <<a, n>> \in AllRefs(rows)' <=> a \in Files /\ n \in Names /\ n \in rows'[a].refs
  BY DEF AllRefs
<1>7. storing.content.refs \subseteq Names
  BY <1>4 DEF Contents, Absent
<1>8. \A n : <<storing.file, n>> \notin AllRefs(rows)
  BY <1>2, Refs DEF Absent
<1>9. ASSUME NEW a, NEW n, <<a, n>> \in AllRefs(rows) PROVE <<a, n>> \in AllRefs(rows)'
  BY <1>5, <1>6, <1>8, <1>9, Refs
<1>10. ASSUME NEW a, NEW n, <<a, n>> \in AllRefs(rows)', a # storing.file
       PROVE  <<a, n>> \in AllRefs(rows)
  BY <1>5, <1>6, <1>10, Refs
<1>11. ASSUME NEW n, <<storing.file, n>> \in AllRefs(rows)' PROVE n \in storing.content.refs
  BY <1>5, <1>6, <1>11
<1>12. \A n \in storing.content.refs : n \in Names /\ <<storing.file, n>> \in AllRefs(rows)'
  BY <1>3, <1>5, <1>6, <1>7
<1> QED BY <1>3, <1>4, <1>5, <1>9, <1>10, <1>11, <1>12

LEMMA StoreStep == ASSUME GInv, Store PROVE GInv'
<1> USE DEF GInv
<1> DEFINE f == storing.file
           New == {<<f, n, "pending">> : n \in storing.content.refs}
<1>1. /\ UNCHANGED <<disk, edges, unguessed, current, todo, changed, before, storing, incoming,
                     owed, binding, skipped, forgot, passedBy, completed, edits, crashes>>
      /\ pc = "store" /\ pc' = "reattach" /\ refs' = refs \cup New
      /\ owed = {} /\ binding = {}
  BY NoneBinds DEF Store, rest, model, TypeOK
<1>2. \A r \in New : r \in Files \X Names \X {"pending"} /\ r[1] = f /\ r[3] = "pending"
  <2>1. f \in Files /\ \A n \in storing.content.refs : n \in Names
    BY StoredFile
  <2> QED BY <2>1
<1>3. TypeOK'
  <2>1. rows' \in Trees
    BY StoredFile
  <2>2. refs' \subseteq Files \X Names \X {"pending", "failed"}
    BY <1>1, <1>2 DEF TypeOK
  <2> QED BY <1>1, <2>1, <2>2 DEF TypeOK
<1>4. Noted'
  <2>1. rows'[f] = storing.content
    BY StoredFile
  <2>2. f \in Replaced' /\ todo' \subseteq changed' /\ todo' \cap skipped' = {}
    BY <1>1 DEF Noted, Replaced, Replacing
  <2> QED BY <1>1, <2>1, <2>2 DEF Noted, Replacing, Sweeping
<1>5. Known'
  <2>1. \A e \in edges' \cup incoming' : <<e[1], e[2]>> \in AllRefs(rows)'
    BY <1>1, StoredFile DEF Known
  <2>2. \A r \in refs : <<r[1], r[2]>> \in AllRefs(rows)'
    BY <1>1, StoredFile DEF Known
  <2>3. \A r \in New : <<r[1], r[2]>> \in AllRefs(rows)'
    BY StoredFile
  <2> QED BY <1>1, <2>1, <2>2, <2>3 DEF Known
<1>6. Binds'
  BY <1>1 DEF Binds
<1>7. ReferencesAreKept'
  <2> SUFFICES ASSUME ~forgot, NEW fn \in AllRefs(rows)'
               PROVE  \/ \E g \in Files : <<fn[1], fn[2], g>> \in edges \cup incoming
                      \/ \E s \in {"pending", "failed"} : <<fn[1], fn[2], s>> \in refs'
    BY <1>1 DEF ReferencesAreKept
  <2>1. fn = <<fn[1], fn[2]>> /\ <<fn[1], fn[2]>> \in AllRefs(rows)'
    BY DEF AllRefs
  <2>2. fn \in AllRefs(rows) \/ (fn[1] = f /\ fn[2] \in storing.content.refs)
    BY <2>1, StoredFile
  <2> QED BY <1>1, <2>2 DEF ReferencesAreKept
<1>8. EdgesAreRight'
  <2> SUFFICES ASSUME Kempt, NEW e \in edges \cup incoming
               PROVE  WasRight(e)' /\ e[1] \notin Replaced'
    BY <1>1 DEF EdgesAreRight, Kempt, Replacing, Sweeping
  <2>1. WasRight(e) /\ e[1] \notin Replaced
    BY <1>1 DEF EdgesAreRight, Replacing
  <2>2. \A n : WereDefiners(n)' = WereDefiners(n)
    BY <1>1, StoredFile DEF WereDefiners
  <2> QED BY <1>1, <2>1, <2>2, WasRightStays DEF Replaced
<1>9. FailuresAreRight'
  <2> SUFFICES ASSUME Kempt, NEW r \in refs', r[3] = "failed", r[2] \notin unguessed
               PROVE  Definers(rows, r[2])' \subseteq changed
    BY <1>1 DEF FailuresAreRight, Failed, Kempt, Sweeping
  <2>1. Definers(rows, r[2]) \subseteq changed
    BY <1>1, <1>2 DEF FailuresAreRight, Failed
  <2>2. Definers(rows, r[2])' \subseteq Definers(rows, r[2]) \cup {f}
    BY StoredFile DEF Definers
  <2>3. f \in changed
    BY StoredFile
  <2> QED BY <2>1, <2>2, <2>3
<1>10. Settled'
  BY <1>1 DEF Settled, Rested
<1> QED BY <1>3, <1>4, <1>5, <1>6, <1>7, <1>8, <1>9, <1>10

LEMMA ReattachStep == ASSUME GInv, Reattach PROVE GInv'
<1> USE DEF GInv
<1>1. /\ UNCHANGED <<disk, rows, refs, unguessed, current, todo, changed, before, storing,
                     binding, skipped, forgot, passedBy, completed, edits, crashes>>
      /\ pc = "reattach" /\ pc' = "reopen" /\ incoming' = {}
      /\ edges' = edges \cup Kept /\ owed' = Resurrected(incoming \ Kept)
      /\ owed = {} /\ binding = {} /\ Kept \subseteq incoming
  BY NoneBinds DEF Reattach, model, TypeOK, Kept
<1>2. storing # Nothing
  <2>1. storing.file \in 1 .. N
    BY <1>1 DEF Noted, Replaced, TypeOK, Files
  <2> QED BY <2>1, GraphSyncAssumption DEF Nothing
<1>3. owed' \subseteq Files \X Names \X {"pending"}
  BY <1>1 DEF TypeOK, Resurrected
<1>4. TypeOK'
  BY <1>1, <1>3 DEF TypeOK
<1>5. Noted'
  BY <1>1, <1>2 DEF Noted, Replacing, Sweeping
<1>6. Known'
  <2>1. \A e \in edges \cup incoming : <<e[1], e[2]>> \in AllRefs(rows)'
    BY <1>1 DEF Known, AllRefs
  <2>2. \A r \in owed' : \E e \in incoming : r[1] = e[1] /\ r[2] = e[2]
    BY <1>1 DEF Resurrected
  <2>3. \A r \in refs' : <<r[1], r[2]>> \in AllRefs(rows)'
    BY <1>1 DEF Known, AllRefs
  <2> QED BY <1>1, <2>1, <2>2, <2>3 DEF Known
<1>7. Binds'
  BY <1>1 DEF Binds
<1>8. ReferencesAreKept'
  <2> SUFFICES ASSUME ~forgot, NEW fn \in AllRefs(rows)
               PROVE  \/ \E g \in Files : <<fn[1], fn[2], g>> \in edges'
                      \/ \E s \in {"pending", "failed"} : <<fn[1], fn[2], s>> \in refs \cup owed'
    BY <1>1 DEF ReferencesAreKept, AllRefs
  <2>1. ASSUME NEW g \in Files, <<fn[1], fn[2], g>> \in incoming \ Kept
        PROVE  <<fn[1], fn[2], "pending">> \in owed'
    BY <1>1, <2>1 DEF Resurrected
  <2>2. CASE \E g \in Files : <<fn[1], fn[2], g>> \in edges \cup incoming
    BY <1>1, <2>1, <2>2
  <2>3. CASE \E s \in {"pending", "failed"} : <<fn[1], fn[2], s>> \in refs
    BY <2>3
  <2> QED BY <1>1, <2>2, <2>3 DEF ReferencesAreKept
<1>9. EdgesAreRight'
  <2>1. Replaced' = Replaced
    BY <1>1 DEF Replaced
  <2> QED BY <1>1, <1>2, <2>1, WasRightStays, WereDefinersStay
          DEF EdgesAreRight, Kempt, Replacing, Sweeping
<1>10. FailuresAreRight'
  BY <1>1, <1>2, StaysRight DEF FailuresAreRight, Kempt, Sweeping, Failed
<1>11. Settled'
  BY <1>1 DEF Settled, Rested
<1> QED BY <1>4, <1>5, <1>6, <1>7, <1>8, <1>9, <1>10, <1>11

LEMMA ReopenStep == ASSUME GInv, Reopen PROVE GInv'
<1> USE DEF GInv
<1>1. /\ UNCHANGED <<disk, rows, edges, unguessed, current, todo, changed, before, incoming,
                     binding, skipped, forgot, passedBy, completed, edits, crashes>>
      /\ pc = "reopen" /\ refs' = refs \cup owed /\ owed' = {} /\ storing' = Nothing
      /\ incoming = {} /\ binding = {}
      /\ \A r \in owed : r[3] = "pending"
  BY NoneBinds DEF Reopen, model, TypeOK
<1>2. \/ Replacing /\ pc' = "index"
      \/ Sweeping /\ pc' = "sweep"
  BY DEF Reopen, Replacing, Sweeping
<1>3. TypeOK'
  <2>1. Nothing \in [file : 0 .. N, content : Contents \cup {Absent}]
    BY GraphSyncAssumption DEF Nothing
  <2>2. refs' \subseteq Files \X Names \X {"pending", "failed"}
    BY <1>1 DEF TypeOK
  <2> QED BY <1>1, <1>2, <2>1, <2>2 DEF TypeOK
<1>4. Noted'
  BY <1>1, <1>2 DEF Noted, Replacing, Sweeping
<1>5. Known'
  BY <1>1 DEF Known, AllRefs
<1>6. Binds'
  BY <1>1 DEF Binds
<1>7. ReferencesAreKept'
  BY <1>1 DEF ReferencesAreKept, AllRefs
<1>8. EdgesAreRight'
  <2>1. Replaced' = Replaced
    BY <1>1 DEF Replaced
  <2>2. CASE Replacing /\ pc' = "index"
    BY <1>1, <2>1, <2>2, WasRightStays, WereDefinersStay
       DEF EdgesAreRight, Kempt, Replacing, Sweeping
  <2>3. CASE Sweeping /\ pc' = "sweep"
    BY <1>1, <2>3, StaysRight DEF EdgesAreRight, Kempt, Replacing, Sweeping
  <2> QED BY <1>2, <2>2, <2>3
<1>9. FailuresAreRight'
  <2>1. Failed' = Failed
    BY <1>1 DEF Failed
  <2> QED BY <1>1, <1>2, <2>1, StaysRight DEF FailuresAreRight, Kempt, Sweeping
<1>10. Settled'
  BY <1>1, <1>2 DEF Settled, Rested
<1> QED BY <1>3, <1>4, <1>5, <1>6, <1>7, <1>8, <1>9, <1>10

LEMMA IndexedStep == ASSUME GInv, Indexed PROVE GInv'
<1> USE DEF GInv
<1>1. /\ UNCHANGED <<disk, rows, edges, refs, unguessed, current, todo, changed, before, storing,
                     incoming, owed, binding, skipped, forgot, passedBy, completed, edits,
                     crashes>>
      /\ pc = "index" /\ todo = {} /\ pc' = IF changed = {} THEN "rebind" ELSE "resolve"
      /\ binding = {} /\ incoming = {} /\ storing = Nothing
  BY NoneBinds DEF Indexed, db, rest, model, TypeOK, Noted
<1>2. TypeOK'
  BY <1>1 DEF TypeOK
<1>3. Noted'
  BY <1>1 DEF Noted, Replacing, Sweeping
<1>4. Known'
  BY <1>1 DEF Known, AllRefs
<1>5. Binds'
  BY <1>1 DEF Binds
<1>6. ReferencesAreKept'
  BY <1>1 DEF ReferencesAreKept, AllRefs
<1>7. EdgesAreRight'
  <2> SUFFICES ASSUME Kempt, NEW e \in edges
               PROVE  WasRight(e)' /\ e[1] \notin changed \ skipped
    BY <1>1 DEF EdgesAreRight, Kempt, Replacing, Sweeping
  <2>1. WasRight(e) /\ e[1] \notin Replaced
    BY <1>1 DEF EdgesAreRight, Replacing
  <2> QED BY <1>1, <2>1, WasRightStays, WereDefinersStay DEF Replaced
<1>8. FailuresAreRight'
  BY <1>1, StaysRight DEF FailuresAreRight, Kempt, Sweeping, Failed
<1>9. Settled'
  BY <1>1 DEF Settled, Rested
<1> QED BY <1>2, <1>3, <1>4, <1>5, <1>6, <1>7, <1>8, <1>9

-----------------------------------------------------------------------------
(* Resolution.                                                              *)

\* What is bound is right.
LEMMA BoundIsRight ==
  ASSUME NEW f, NEW n, <<f, n>> \in AllRefs(rows), Resolvable(rows, f, n)
  PROVE  /\ Bound(rows, f, n) \in Files \X Names \X Files
         /\ Bound(rows, f, n)[1] = f /\ Bound(rows, f, n)[2] = n
         /\ Right(Bound(rows, f, n))
<1>1. f \in Files /\ n \in Names
  BY Refs
<1>2. Definers(rows, n) \subseteq Files /\ Definers(rows, n) # {}
  BY DEF Definers, Resolvable
<1>3. Best(f, Definers(rows, n)) \in Files
  BY <1>1, <1>2, BestIs
<1> QED BY <1>1, <1>2, <1>3 DEF Bound, Right, RightAmong, Resolvable

LEMMA BindStep == ASSUME GInv, Bind PROVE GInv'
<1> USE DEF GInv
<1> DEFINE New == {Bound(rows, r[1], r[2]) : r \in {q \in Rows : Resolvable(rows, q[1], q[2])}}
<1>1. /\ UNCHANGED <<disk, rows, refs, pc, unguessed, current, todo, changed, before, storing,
                     incoming, owed, skipped, forgot, passedBy, completed, edits, crashes>>
      /\ binding' = Rows /\ edges' = edges \cup New /\ Rows # {} /\ Rows \subseteq refs
  BY DEF Bind, model, Rows
<1>2. pc \in {"resolve", "retry", "sweep"}
  BY <1>1 DEF Rows
<1>3. ASSUME NEW e \in New
      PROVE  /\ e \in Files \X Names \X Files /\ Right(e)
             /\ <<e[1], e[2]>> \in AllRefs(rows)
  <2>1. PICK r \in Rows : Resolvable(rows, r[1], r[2]) /\ e = Bound(rows, r[1], r[2])
    BY <1>3
  <2>2. <<r[1], r[2]>> \in AllRefs(rows)
    BY <1>1, <2>1 DEF Known
  <2> QED BY <2>1, <2>2, BoundIsRight
<1> HIDE DEF New
<1>4. TypeOK'
  <2>1. edges' \subseteq Files \X Names \X Files
    BY <1>1, <1>3 DEF TypeOK
  <2> QED BY <1>1, <2>1 DEF TypeOK
<1>5. Noted'
  BY <1>1, <1>2 DEF Noted, Replacing, Sweeping
<1>6. Known'
  <2>1. \A e \in edges' \cup incoming' : <<e[1], e[2]>> \in AllRefs(rows)'
    BY <1>1, <1>3 DEF Known, AllRefs
  <2> QED BY <1>1, <2>1 DEF Known, AllRefs
<1>7. Binds'
  <2>1. Rows' = Rows
    BY <1>1 DEF Rows, NamesOf
  <2>2. \A r \in Rows : Resolvable(rows, r[1], r[2]) => Bound(rows, r[1], r[2]) \in edges'
    BY <1>1 DEF New
  <2> QED BY <1>1, <2>1, <2>2, StaysBound DEF Binds
<1>8. ReferencesAreKept'
  BY <1>1 DEF ReferencesAreKept, AllRefs
<1>9. EdgesAreRight'
  BY <1>1, <1>2, <1>3, StaysRight, WasRightStays, WereDefinersStay
     DEF EdgesAreRight, Kempt, Replacing, Sweeping
<1>10. FailuresAreRight'
  BY <1>1, StaysRight DEF FailuresAreRight, Kempt, Sweeping, Failed
<1>11. Settled'
  BY <1>1, <1>2 DEF Settled, Rested
<1> QED BY <1>4, <1>5, <1>6, <1>7, <1>8, <1>9, <1>10, <1>11

\* When the rows of a phase have been bound, each has its edge or is parked.
LEMMA CleanedUp ==
  ASSUME GInv, BindingEnds, UNCHANGED <<rows, unguessed>>
  PROVE  /\ refs' \subseteq Files \X Names \X {"pending", "failed"}
         /\ binding = Rows
         /\ \A r \in refs' : <<r[1], r[2]>> \in AllRefs(rows)'
         /\ \A r \in refs' : \/ r \in refs \ Rows
                             \/ r[3] = "failed" /\ ~Resolvable(rows, r[1], r[2])
         /\ \A f, n : (\E s \in {"pending", "failed"} : <<f, n, s>> \in refs) =>
              \/ \E s \in {"pending", "failed"} : <<f, n, s>> \in refs'
              \/ \E g \in Files : <<f, n, g>> \in edges
<1> USE DEF GInv
<1>1. binding = Rows /\ binding \subseteq refs
  BY DEF BindingEnds, Binds, TypeOK
<1>2. refs' = (refs \ binding) \cup Parked
  BY DEF BindingEnds
<1>3. \A r \in Parked : \E q \in binding :
        r = <<q[1], q[2], "failed">> /\ ~Resolvable(rows, q[1], q[2])
  BY DEF Parked
<1>4. \A r \in refs : r \in Files \X Names \X {"pending", "failed"}
                      /\ <<r[1], r[2]>> \in AllRefs(rows)
  BY DEF TypeOK, Known
<1>5. \A r \in Parked : /\ r \in Files \X Names \X {"failed"}
                        /\ <<r[1], r[2]>> \in AllRefs(rows)
                        /\ r[3] = "failed" /\ ~Resolvable(rows, r[1], r[2])
  <2> SUFFICES ASSUME NEW r \in Parked
               PROVE  /\ r \in Files \X Names \X {"failed"}
                      /\ <<r[1], r[2]>> \in AllRefs(rows)
                      /\ r[3] = "failed" /\ ~Resolvable(rows, r[1], r[2])
    OBVIOUS
  <2>1. PICK q \in binding : /\ r = <<q[1], q[2], "failed">>
                             /\ ~Resolvable(rows, q[1], q[2])
    BY <1>3
  <2>2. q[1] \in Files /\ q[2] \in Names /\ <<q[1], q[2]>> \in AllRefs(rows)
    BY <1>1, <1>4
  <2>3. r[1] = q[1] /\ r[2] = q[2] /\ r[3] = "failed"
    BY <2>1
  <2> QED BY <2>1, <2>2, <2>3
<1>6. \A fn : fn \in AllRefs(rows)' <=> fn \in AllRefs(rows)
  BY DEF AllRefs
<1>7. ASSUME NEW f, NEW n, NEW s \in {"pending", "failed"}, <<f, n, s>> \in refs
      PROVE  \/ \E t \in {"pending", "failed"} : <<f, n, t>> \in refs'
             \/ \E g \in Files : <<f, n, g>> \in edges
  <2>1. CASE <<f, n, s>> \notin binding
    BY <1>2, <1>7, <2>1
  <2>2. CASE <<f, n, s>> \in binding /\ Resolvable(rows, f, n)
    <3>1. Bound(rows, f, n) \in edges
      BY <2>2 DEF Binds
    <3>2. Bound(rows, f, n) = <<f, n, Bound(rows, f, n)[3]>>
      BY DEF Bound
    <3>3. Bound(rows, f, n)[3] \in Files
      BY <3>1 DEF TypeOK
    <3> QED BY <3>1, <3>2, <3>3
  <2>3. CASE <<f, n, s>> \in binding /\ ~Resolvable(rows, f, n)
    BY <1>2, <2>3 DEF Parked
  <2> QED BY <2>1, <2>2, <2>3
<1>8. refs' \subseteq Files \X Names \X {"pending", "failed"}
  <2>1. ASSUME NEW r \in Parked PROVE r \in Files \X Names \X {"pending", "failed"}
    <3>1. r \in Files \X Names \X {"failed"}
      BY <1>5
    <3> QED BY <3>1
  <2>2. \A r \in refs' : r \in refs \/ r \in Parked
    BY <1>2
  <2> QED BY <1>4, <2>1, <2>2
<1>9. \A r \in refs' : <<r[1], r[2]>> \in AllRefs(rows)'
  BY <1>2, <1>4, <1>5, <1>6
<1>10. \A r \in refs' : \/ r \in refs \ Rows
                        \/ r[3] = "failed" /\ ~Resolvable(rows, r[1], r[2])
  BY <1>1, <1>2, <1>5
<1> QED BY <1>1, <1>7, <1>8, <1>9, <1>10

\* And a guessed name that is parked or left is defined by none, once the failed ones have
\* been looked at.
LEMMA StaysFailed ==
  ASSUME GInv, Kempt, BindingEnds, UNCHANGED <<rows, unguessed>>,
         NEW r \in refs', r[3] = "failed", r[2] \notin unguessed
  PROVE  /\ Definers(rows, r[2]) \subseteq changed
         /\ pc \in {"retry", "sweep"} => Definers(rows, r[2]) = {}
<1> USE DEF GInv
<1>1. CASE r \in refs \ Rows
  <2>1. r \in Failed
    BY <1>1 DEF Failed
  <2>2. Definers(rows, r[2]) \subseteq changed
    BY <2>1 DEF FailuresAreRight
  <2>3. ASSUME pc = "retry" PROVE Definers(rows, r[2]) = {}
    <3>1. r[2] \notin NamesOf(changed)
      BY <1>1, <2>3 DEF Rows
    <3>2. \A f \in changed : r[2] \notin rows[f].defs
      BY <3>1 DEF NamesOf
    <3> QED BY <2>2, <3>2 DEF Definers
  <2>4. pc = "sweep" => Definers(rows, r[2]) = {}
    BY <2>1 DEF FailuresAreRight, Sweeping
  <2> QED BY <2>2, <2>3, <2>4
<1>2. CASE ~Resolvable(rows, r[1], r[2])
  BY <1>2 DEF Resolvable
<1> QED BY <1>1, <1>2, CleanedUp

LEMMA CleanUpStep == ASSUME GInv, CleanUp PROVE GInv'
<1> USE DEF GInv
<1>1. /\ UNCHANGED <<disk, rows, edges, unguessed, current, todo, changed, before, storing,
                     incoming, owed, skipped, forgot, passedBy, completed, edits, crashes>>
      /\ pc \in {"resolve", "retry"} /\ BindingEnds /\ binding' = {}
      /\ pc' = IF pc = "resolve" THEN "retry" ELSE "rebind"
      /\ incoming = {} /\ owed = {}
  BY DEF CleanUp, model, TypeOK
<1>2. TypeOK'
  <2>1. refs' \subseteq Files \X Names \X {"pending", "failed"}
    BY <1>1, CleanedUp
  <2> QED BY <1>1, <2>1 DEF TypeOK
<1>3. Noted'
  BY <1>1 DEF Noted, Replacing, Sweeping
<1>4. Known'
  <2>1. \A r \in refs' : <<r[1], r[2]>> \in AllRefs(rows)'
    BY <1>1, CleanedUp
  <2> QED BY <1>1, <2>1 DEF Known, AllRefs
<1>5. Binds'
  BY <1>1 DEF Binds
<1>6. ReferencesAreKept'
  <2> SUFFICES ASSUME ~forgot, NEW fn \in AllRefs(rows)
               PROVE  \/ \E g \in Files : <<fn[1], fn[2], g>> \in edges
                      \/ \E s \in {"pending", "failed"} : <<fn[1], fn[2], s>> \in refs'
    BY <1>1 DEF ReferencesAreKept, AllRefs
  <2>1. \/ \E g \in Files : <<fn[1], fn[2], g>> \in edges
        \/ \E s \in {"pending", "failed"} : <<fn[1], fn[2], s>> \in refs
    BY <1>1 DEF ReferencesAreKept
  <2> QED BY <1>1, <2>1, CleanedUp
<1>7. EdgesAreRight'
  BY <1>1, StaysRight, WasRightStays, WereDefinersStay
     DEF EdgesAreRight, Kempt, Replacing, Sweeping
<1>8. FailuresAreRight'
  <2> SUFFICES ASSUME Kempt, NEW r \in refs', r[3] = "failed", r[2] \notin unguessed
               PROVE  /\ Definers(rows, r[2]) \subseteq changed
                      /\ pc = "retry" => Definers(rows, r[2]) = {}
    BY <1>1, StaysRight DEF FailuresAreRight, Failed, Kempt, Sweeping
  <2> QED BY <1>1, StaysFailed
<1>9. Settled'
  BY <1>1 DEF Settled, Rested
<1> QED BY <1>2, <1>3, <1>4, <1>5, <1>6, <1>7, <1>8, <1>9

LEMMA RebindStep == ASSUME GInv, Rebind PROVE GInv'
<1> USE DEF GInv
<1> DEFINE Affected == {e \in edges : e[2] \in DefinitionDelta}
           Stale == {e \in Affected : e[1] \notin changed}
<1>1. /\ UNCHANGED <<disk, rows, refs, unguessed, current, todo, changed, before, storing,
                     incoming, binding, skipped, forgot, completed, edits, crashes>>
      /\ pc = "rebind" /\ pc' = "reopen"
      /\ edges' = edges \ Stale /\ owed' = Resurrected(Stale)
      /\ passedBy' = (passedBy \/ \E e \in Affected : e[1] \in skipped)
      /\ incoming = {} /\ binding = {} /\ storing = Nothing /\ owed = {}
  BY NoneBinds DEF Rebind, Unbound, TypeOK, Noted
<1>2. TypeOK'
  <2>1. owed' \subseteq Files \X Names \X {"pending"}
    BY <1>1 DEF TypeOK, Resurrected
  <2> QED BY <1>1, <2>1 DEF TypeOK
<1>3. Noted'
  BY <1>1 DEF Noted, Replacing, Sweeping
<1>4. Known'
  <2>1. \A r \in owed' : \E e \in edges : r[1] = e[1] /\ r[2] = e[2]
    BY <1>1 DEF Resurrected
  <2> QED BY <1>1, <2>1 DEF Known, AllRefs
<1>5. Binds'
  BY <1>1 DEF Binds
<1>6. ReferencesAreKept'
  <2>1. ASSUME NEW a, NEW n, NEW g \in Files, <<a, n, g>> \in edges
        PROVE  <<a, n, g>> \in edges' \/ <<a, n, "pending">> \in owed'
    BY <1>1, <2>1 DEF Resurrected
  <2> HIDE DEF Stale
  <2> QED BY <1>1, <2>1 DEF ReferencesAreKept, AllRefs
<1>7. EdgesAreRight'
  <2> SUFFICES ASSUME Kempt', NEW e \in edges' PROVE Right(e)'
    BY <1>1 DEF EdgesAreRight, Replacing, Sweeping
  <2>1. Kempt /\ e \in edges /\ e \notin Stale
    BY <1>1 DEF Kempt
  <2>2. Right(e) \/ (WasRight(e) /\ e[1] \notin changed \ skipped)
    BY <1>1, <2>1 DEF EdgesAreRight
  <2>3. CASE WasRight(e) /\ e[1] \notin changed \ skipped
    <3>1. e \notin Affected
      BY <1>1, <2>1, <2>3 DEF Kempt
    <3>2. WereDefiners(e[2]) = Definers(rows, e[2])
      BY <2>1, <3>1, UnchangedName
    <3> QED BY <1>1, <2>3, <3>2, StaysRight DEF WasRight, Right
  <2> QED BY <1>1, <2>2, <2>3, StaysRight
<1>8. FailuresAreRight'
  BY <1>1, StaysRight DEF FailuresAreRight, Kempt, Sweeping, Failed
<1>9. Settled'
  BY <1>1 DEF Settled, Rested
<1> QED BY <1>2, <1>3, <1>4, <1>5, <1>6, <1>7, <1>8, <1>9

LEMMA SweepStep == ASSUME GInv, Sweep PROVE GInv'
<1> USE DEF GInv
<1>1. /\ UNCHANGED <<disk, rows, edges, unguessed, forgot, passedBy, edits, crashes>>
      /\ pc = "sweep" /\ BindingEnds /\ pc' = "idle" /\ changed' = {} /\ before' = {}
      /\ incoming' = {} /\ owed' = {} /\ binding' = {} /\ storing' = Nothing
      /\ current' = {} /\ todo' = {} /\ skipped' = {} /\ completed' = TRUE
      /\ incoming = {} /\ owed = {}
  BY DEF Sweep, Forget, model, TypeOK
<1>2. TypeOK'
  <2>1. refs' \subseteq Files \X Names \X {"pending", "failed"}
    BY <1>1, CleanedUp
  <2>2. Nothing \in [file : 0 .. N, content : Contents \cup {Absent}]
    BY GraphSyncAssumption DEF Nothing
  <2> QED BY <1>1, <2>1, <2>2 DEF TypeOK
<1>3. Noted'
  BY <1>1 DEF Noted, Replacing, Sweeping
<1>4. Known'
  <2>1. \A r \in refs' : <<r[1], r[2]>> \in AllRefs(rows)'
    BY <1>1, CleanedUp
  <2> QED BY <1>1, <2>1 DEF Known, AllRefs
<1>5. Binds'
  BY <1>1 DEF Binds
<1>6. ReferencesAreKept'
  <2> SUFFICES ASSUME ~forgot, NEW fn \in AllRefs(rows)
               PROVE  \/ \E g \in Files : <<fn[1], fn[2], g>> \in edges
                      \/ \E s \in {"pending", "failed"} : <<fn[1], fn[2], s>> \in refs'
    BY <1>1 DEF ReferencesAreKept, AllRefs
  <2>1. \/ \E g \in Files : <<fn[1], fn[2], g>> \in edges
        \/ \E s \in {"pending", "failed"} : <<fn[1], fn[2], s>> \in refs
    BY <1>1 DEF ReferencesAreKept
  <2> QED BY <1>1, <2>1, CleanedUp
<1>7. EdgesAreRight'
  <2> SUFFICES ASSUME Kempt, NEW e \in edges PROVE Right(e)' /\ WasRight(e)'
    BY <1>1 DEF EdgesAreRight, Kempt, Replacing, Sweeping
  <2>1. Right(e)'
    BY <1>1, StaysRight DEF EdgesAreRight, Sweeping
  <2>2. \A n : WereDefiners(n)' = Definers(rows, n)'
    BY <1>1 DEF WereDefiners, Definers
  <2> QED BY <2>1, <2>2 DEF Right, WasRight
<1>8. FailuresAreRight'
  <2> SUFFICES ASSUME Kempt, NEW r \in refs', r[3] = "failed", r[2] \notin unguessed
               PROVE  Definers(rows, r[2]) = {}
    BY <1>1, StaysRight DEF FailuresAreRight, Failed, Kempt, Sweeping
  <2> QED BY <1>1, StaysFailed
<1>9. Settled'
  <2> SUFFICES ASSUME NEW r \in refs' PROVE r[3] = "failed"
    BY DEF Settled
  <2>1. r \in Files \X Names \X {"pending", "failed"}
        /\ (r \in refs \ Rows \/ r[3] = "failed")
    BY <1>1, CleanedUp
  <2>2. r \in refs \ Rows => r[3] # "pending"
    BY <1>1 DEF Rows
  <2> QED BY <2>1, <2>2
<1> QED BY <1>2, <1>3, <1>4, <1>5, <1>6, <1>7, <1>8, <1>9

-----------------------------------------------------------------------------
(* The theorems.                                                            *)

LEMMA GraphInductive == GInv /\ [Next]_vars => GInv'
<1> SUFFICES ASSUME GInv, [Next]_vars PROVE GInv'
  OBVIOUS
<1>1. CASE \E f \in Files : Edit(f)
  BY <1>1, EditStep
<1>2. CASE Crash
  BY <1>2, CrashStep
<1>3. CASE Start
  BY <1>3, StartStep
<1>4. CASE FileSteps
  BY <1>4, RemoveStep, DeleteStep, SkipStep, IndexStep DEF FileSteps
<1>5. CASE Classify \/ Store \/ Reattach \/ Reopen \/ Indexed
  BY <1>5, ClassifyStep, StoreStep, ReattachStep, ReopenStep, IndexedStep
<1>6. CASE Bind \/ CleanUp \/ Rebind \/ Sweep
  BY <1>6, BindStep, CleanUpStep, RebindStep, SweepStep
<1>7. CASE UNCHANGED vars
  <2>1. TypeOK'
    BY <1>7 DEF vars, GInv, TypeOK, db, syncVars, history
  <2> QED BY <1>7, <2>1, GraphFrame DEF vars, GInv
<1> QED BY <1>1, <1>2, <1>3, <1>4, <1>5, <1>6, <1>7 DEF Next, Working

\* The invariant of the sync.
LEMMA GraphInv == Spec => []GInv
<1>1. Init => GInv
  BY GraphInit
<1>2. GInv /\ [Next]_vars => GInv'
  BY GraphInductive
<1> QED BY <1>1, <1>2, PTL DEF Spec

\* The tables and what a sync holds keep their types.
THEOREM GraphIsTyped == Spec => []TypeOK
<1>1. GInv => TypeOK
  BY DEF GInv
<1> QED BY <1>1, GraphInv, PTL

\* A reference of a file that is indexed is an edge, a row or in the memory of the store
\* that will put it back, whatever is edited during a sync and whenever the process dies:
\* ReferencesAreKept, for any number of files, names, edits and deaths.
THEOREM NoReferenceIsLost == Spec => []ReferencesAreKept
<1>1. GInv => ReferencesAreKept
  BY DEF GInv
<1> QED BY <1>1, GraphInv, PTL

\* The graph after a sync is the graph of a full index of the same contents: SyncConverges,
\* for any number of files, names, edits and deaths.
THEOREM SyncsConverge == Spec => []SyncConverges
<1>1. GInv => SyncConverges
  <2> SUFFICES ASSUME GInv, Rested, Kempt
               PROVE  Converged(Names \ unguessed) /\ edges \subseteq RebuiltEdges(rows)
    BY DEF SyncConverges
  <2> USE DEF GInv
  <2>1. pc = "idle" /\ incoming = {} /\ owed = {} /\ changed = {} /\ ~forgot
    BY DEF Rested, TypeOK, Kempt
  <2>2. ASSUME NEW e \in edges
        PROVE  /\ e = <<e[1], e[2], e[3]>> /\ <<e[1], e[2]>> \in AllRefs(rows)
               /\ Resolvable(rows, e[1], e[2]) /\ e = Bound(rows, e[1], e[2])
    <3>1. e = <<e[1], e[2], e[3]>> /\ <<e[1], e[2]>> \in AllRefs(rows)
      BY DEF TypeOK, Known
    <3>2. Right(e)
      BY <2>1 DEF EdgesAreRight
    <3> QED BY <3>1, <3>2 DEF Right, RightAmong, Resolvable, Bound
  <2>3. edges \subseteq RebuiltEdges(rows)
    <3> SUFFICES ASSUME NEW e \in edges PROVE e \in RebuiltEdges(rows)
      OBVIOUS
    <3> DEFINE fn == <<e[1], e[2]>>
    <3>1. fn \in AllRefs(rows) /\ Resolvable(rows, fn[1], fn[2]) /\ e = Bound(rows, fn[1], fn[2])
      BY <2>2
    <3> QED BY <3>1 DEF RebuiltEdges
  <2>4. ASSUME NEW r \in refs
        PROVE  /\ r = <<r[1], r[2], "failed">> /\ <<r[1], r[2]>> \in AllRefs(rows)
               /\ r[2] \notin unguessed => ~Resolvable(rows, r[1], r[2])
    <3>1. r = <<r[1], r[2], r[3]>> /\ r[3] = "failed" /\ <<r[1], r[2]>> \in AllRefs(rows)
      BY DEF TypeOK, Known, Settled
    <3>2. r[2] \notin unguessed => Definers(rows, r[2]) = {}
      BY <2>1, <3>1 DEF FailuresAreRight, Failed
    <3> QED BY <3>1, <3>2 DEF Resolvable
  <2>5. ASSUME NEW fn \in AllRefs(rows)
        PROVE  \/ Resolvable(rows, fn[1], fn[2]) /\ Bound(rows, fn[1], fn[2]) \in edges
               \/ <<fn[1], fn[2], "failed">> \in refs
    <3>1. CASE \E g \in Files : <<fn[1], fn[2], g>> \in edges
      <4>1. PICK g \in Files : <<fn[1], fn[2], g>> \in edges
        BY <3>1
      <4> QED BY <2>2, <4>1
    <3>2. CASE \E s \in {"pending", "failed"} : <<fn[1], fn[2], s>> \in refs
      BY <2>4, <3>2
    <3> QED BY <2>1, <3>1, <3>2 DEF ReferencesAreKept
  <2>6. \A fn \in AllRefs(rows) : Bound(rows, fn[1], fn[2])[2] = fn[2]
    BY DEF Bound
  <2>7. \A e \in RebuiltEdges(rows) : e[2] \in Names \ unguessed => e \in edges
    <3> SUFFICES ASSUME NEW fn \in AllRefs(rows), Resolvable(rows, fn[1], fn[2]),
                        fn[2] \notin unguessed
                 PROVE  Bound(rows, fn[1], fn[2]) \in edges
      BY <2>6 DEF RebuiltEdges
    <3>1. CASE <<fn[1], fn[2], "failed">> \in refs
      BY <2>4, <3>1
    <3> QED BY <2>5, <3>1
  <2>8. \A r \in refs : r[2] \in Names \ unguessed => r \in RebuiltRefs(rows)
    <3> SUFFICES ASSUME NEW r \in refs, r[2] \notin unguessed PROVE r \in RebuiltRefs(rows)
      OBVIOUS
    <3> DEFINE fn == <<r[1], r[2]>>
    <3>1. fn \in AllRefs(rows) /\ ~Resolvable(rows, fn[1], fn[2])
          /\ r = <<fn[1], fn[2], "failed">>
      BY <2>4
    <3> QED BY <3>1 DEF RebuiltRefs
  <2>9. RebuiltRefs(rows) \subseteq refs
    <3> SUFFICES ASSUME NEW fn \in AllRefs(rows), ~Resolvable(rows, fn[1], fn[2])
                 PROVE  <<fn[1], fn[2], "failed">> \in refs
      BY DEF RebuiltRefs
    <3> QED BY <2>5
  <2>10. edges = {e \in RebuiltEdges(rows) : e[2] \in Names \ unguessed}
                 \cup {e \in edges : e[2] \notin Names \ unguessed}
    BY <2>3, <2>7
  <2>11. refs = {r \in RebuiltRefs(rows) : r[2] \in Names \ unguessed}
                \cup {r \in refs : r[2] \notin Names \ unguessed}
    BY <2>8, <2>9
  <2> QED BY <2>3, <2>10, <2>11 DEF Converged
<1> QED BY <1>1, GraphInv, PTL

-----------------------------------------------------------------------------
(* The smallest and the largest of some commits.                            *)

\* A set of naturals has a least member.
LEMMA LeastIs ==
  ASSUME NEW C, C \subseteq Nat, C # {}
  PROVE  \E x \in C : \A y \in C : x <= y
<1>1. PICK x \in C : \A y \in C : ~ (<<y, x>> \in OpToRel(<, Nat))
  BY NatLessThanWellFounded, WFMin, Zenon
<1>2. \A y \in C : ~(y < x)
  BY <1>1 DEF OpToRel
<1> QED BY <1>2

\* Commits and specs are numbers.
LEMMA Numbers == Last \in Nat /\ S!Commits \subseteq 1..Last /\ Specs \subseteq Nat \ {0}
BY GraphsAssumption DEF S!SpecGraphAssumption, S!Commits, S!Unscoped

\* There is a first of some commits.
LEMMA MinIs ==
  ASSUME NEW C, C \subseteq S!Commits, C # {}
  PROVE  S!Min(C) \in C /\ \A y \in C : S!Min(C) <= y
<1>1. C \subseteq Nat
  BY Numbers
<1>2. \E x \in C : \A y \in C : x <= y
  BY <1>1, LeastIs
<1> QED BY <1>2 DEF S!Min

\* There is a last of some commits.
LEMMA MaxIs ==
  ASSUME NEW C, C \subseteq S!Commits, C # {}
  PROVE  S!Max(C) \in C /\ \A y \in C : S!Max(C) >= y
<1> DEFINE T == {Last - c : c \in C}
<1>1. T \subseteq Nat /\ T # {}
  <2>1. \A c \in C : Last - c \in Nat
    BY Numbers
  <2> QED BY <2>1
<1>2. PICK x \in T : \A y \in T : x <= y
  BY <1>1, LeastIs
<1>3. PICK c \in C : x = Last - c
  BY <1>2
<1>4. \A y \in C : c >= y
  <2> SUFFICES ASSUME NEW y \in C PROVE c >= y
    OBVIOUS
  <2>1. Last - c <= Last - y
    BY <1>2, <1>3
  <2> QED BY <2>1, Numbers
<1>5. \E z \in C : \A y \in C : z >= y
  BY <1>4
<1> QED BY <1>5 DEF S!Max

\* The affected spec that is judged next is one that is due.
LEMMA NextIsDue ==
  ASSUME NEW p, sRun[p].due \subseteq Specs \X S!Commits, sRun[p].due # {}
  PROVE  S!Next1(p) \in sRun[p].due
<1> DEFINE D == sRun[p].due
           C == {d[1] : d \in D}
<1>1. C \subseteq Nat /\ C # {}
  <2>1. \A d \in D : d[1] \in Nat
    BY Numbers
  <2> QED BY <2>1
<1>2. PICK x \in C : \A y \in C : x <= y
  BY <1>1, LeastIs
<1>3. PICK d \in D : x = d[1]
  BY <1>2
<1>4. \A e \in D : d[1] <= e[1]
  BY <1>2, <1>3
<1>5. \E z \in D : \A e \in D : z[1] <= e[1]
  BY <1>4
<1> QED BY <1>5 DEF S!Next1

-----------------------------------------------------------------------------
(* The graph of the specs: what each statement does to the tables.           *)

\* The relations between records that do not touch one.
Without(E, id) == {e \in E : id \notin {e[1], e[2]}}

\* A record that is deleted takes its relations with it, and nothing else.
LEMMA DeletedSpec ==
  ASSUME NEW g, S!IsGraph(g), NEW id
  PROVE  LET h == S!DeleteSpec(g, id)
         IN /\ S!IsGraph(h)
            /\ DOMAIN h.nodes = (DOMAIN g.nodes) \ {id}
            /\ \A i \in DOMAIN h.nodes : h.nodes[i] = g.nodes[i]
            /\ h.commits = g.commits /\ h.contains = g.contains
            /\ h.links = {l \in g.links : l[1] # id}
            /\ h.evolved = Without(g.evolved, id)
<1> DEFINE h == S!DeleteSpec(g, id)
<1>1. /\ DOMAIN h = {"nodes", "commits", "links", "contains", "evolved"}
      /\ h.nodes = S!Restrict(g.nodes, DOMAIN g.nodes \ {id})
      /\ h.commits = g.commits /\ h.contains = g.contains
      /\ h.links = {l \in g.links : l[1] # id}
      /\ h.evolved = Without(g.evolved, id)
  BY DEF S!DeleteSpec, S!IsGraph, Without
<1>2. /\ DOMAIN h.nodes = (DOMAIN g.nodes) \ {id}
      /\ \A i \in DOMAIN h.nodes : h.nodes[i] = g.nodes[i]
      /\ h.nodes \in [DOMAIN h.nodes -> S!Records]
  BY <1>1 DEF S!Restrict, S!IsGraph
<1> HIDE DEF h
<1>3. h.links \subseteq (DOMAIN h.nodes) \X h.commits \X {"GENERATE", "SUMMARIZED_FROM"}
  BY <1>1, <1>2 DEF S!IsGraph
<1>4. h.evolved \subseteq (DOMAIN h.nodes) \X (DOMAIN h.nodes)
  BY <1>1, <1>2 DEF S!IsGraph, Without
<1>5. S!IsGraph(h)
  BY <1>1, <1>2, <1>3, <1>4 DEF S!IsGraph, Without
<1> QED BY <1>1, <1>2, <1>5 DEF h

\* h is g with a record in the place of the one there was.
HasInserted(g, h, id, row) ==
  /\ S!IsGraph(h)
  /\ DOMAIN h.nodes = (DOMAIN g.nodes) \cup {id} /\ h.nodes[id] = row
  /\ \A i \in (DOMAIN g.nodes) \ {id} : h.nodes[i] = g.nodes[i]
  /\ h.commits = g.commits /\ h.contains = g.contains
  /\ h.evolved = Without(g.evolved, id)

\* A record that is inserted takes the place of the one there was.
LEMMA InsertedSpec ==
  ASSUME NEW g, S!IsGraph(g), NEW id \in S!Ids, NEW status \in {"active", "deprecated"},
         NEW version \in Nat \ {0}, NEW text \in S!Texts
  PROVE  HasInserted(g, S!InsertSpec(g, id, status, version, text), id,
                     [status |-> status, version |-> version, text |-> text])
<1> DEFINE h == S!InsertSpec(g, id, status, version, text)
           d == S!DeleteSpec(g, id)
           row == [status |-> status, version |-> version, text |-> text]
<1>1. /\ S!IsGraph(d) /\ DOMAIN d.nodes = (DOMAIN g.nodes) \ {id}
      /\ \A i \in DOMAIN d.nodes : d.nodes[i] = g.nodes[i]
      /\ d.commits = g.commits /\ d.contains = g.contains
      /\ d.links = {l \in g.links : l[1] # id}
      /\ d.evolved = Without(g.evolved, id)
  BY DeletedSpec
<1>2. h = [d EXCEPT !.nodes = [i \in DOMAIN d.nodes \cup {id} |->
                                 IF i = id THEN row ELSE d.nodes[i]]]
  BY DEF S!InsertSpec
<1> HIDE DEF d, h
<1>3. /\ DOMAIN h = {"nodes", "commits", "links", "contains", "evolved"}
      /\ h.nodes = [i \in DOMAIN d.nodes \cup {id} |-> IF i = id THEN row ELSE d.nodes[i]]
      /\ h.commits = d.commits /\ h.contains = d.contains
      /\ h.links = d.links /\ h.evolved = d.evolved
  BY <1>1, <1>2 DEF S!IsGraph
<1>4. row \in S!Records
  BY DEF S!Records
<1>5. /\ DOMAIN h.nodes = (DOMAIN g.nodes) \cup {id} /\ h.nodes[id] = row
      /\ \A i \in (DOMAIN g.nodes) \ {id} : h.nodes[i] = g.nodes[i]
      /\ h.nodes \in [DOMAIN h.nodes -> S!Records]
  BY <1>1, <1>3, <1>4 DEF S!IsGraph
<1> HIDE DEF row
<1>6. h.links \subseteq (DOMAIN h.nodes) \X h.commits \X {"GENERATE", "SUMMARIZED_FROM"}
  BY <1>1, <1>3, <1>5 DEF S!IsGraph
<1>7. h.evolved \subseteq (DOMAIN h.nodes) \X (DOMAIN h.nodes)
  BY <1>1, <1>3, <1>5 DEF S!IsGraph
<1>8. S!IsGraph(h)
  BY <1>1, <1>3, <1>5, <1>6, <1>7 DEF S!IsGraph
<1>9. HasInserted(g, h, id, row)
  BY <1>1, <1>3, <1>5, <1>8 DEF HasInserted
<1> QED BY <1>9 DEF h, row

\* A commit that is replaced loses its relations and its fragments.
LEMMA InsertedCommit ==
  ASSUME NEW g, S!IsGraph(g), NEW c \in S!Commits
  PROVE  LET h == S!InsertCommit(g, c)
         IN /\ S!IsGraph(h) /\ h.nodes = g.nodes /\ h.evolved = g.evolved
            /\ h.commits = g.commits \cup {c} /\ h.links \subseteq g.links
            /\ h.contains = {x \in g.contains : x[1] # c}
<1> DEFINE h == S!InsertCommit(g, c)
<1>1. /\ DOMAIN h = {"nodes", "commits", "links", "contains", "evolved"}
      /\ h.nodes = g.nodes /\ h.evolved = g.evolved
      /\ h.commits = g.commits \cup {c} /\ h.links = {l \in g.links : l[2] # c}
      /\ h.contains = {x \in g.contains : x[1] # c}
  BY DEF S!InsertCommit, S!IsGraph
<1> HIDE DEF h
<1>2. h.links \subseteq (DOMAIN h.nodes) \X h.commits \X {"GENERATE", "SUMMARIZED_FROM"}
  BY <1>1 DEF S!IsGraph
<1>3. h.contains \subseteq UNION {{b} \X Touches[b] : b \in h.commits}
  BY <1>1 DEF S!IsGraph
<1>4. S!IsGraph(h)
  BY <1>1, <1>2, <1>3 DEF S!IsGraph
<1> QED BY <1>1, <1>4 DEF h

\* A relation of a spec to a commit adds nothing else.
LEMMA Linked ==
  ASSUME NEW g, S!IsGraph(g), NEW id \in DOMAIN g.nodes, NEW c \in g.commits,
         NEW type \in {"GENERATE", "SUMMARIZED_FROM"}
  PROVE  LET h == S!Link(g, id, c, type)
         IN /\ S!IsGraph(h) /\ h.nodes = g.nodes /\ h.evolved = g.evolved
            /\ h.commits = g.commits /\ h.contains = g.contains
<1> DEFINE h == S!Link(g, id, c, type)
<1>1. /\ DOMAIN h = {"nodes", "commits", "links", "contains", "evolved"}
      /\ h.nodes = g.nodes /\ h.evolved = g.evolved
      /\ h.commits = g.commits /\ h.contains = g.contains
      /\ h.links = g.links \cup {<<id, c, type>>}
  BY DEF S!Link, S!IsGraph
<1> HIDE DEF h
<1>2. h.links \subseteq (DOMAIN h.nodes) \X h.commits \X {"GENERATE", "SUMMARIZED_FROM"}
  BY <1>1 DEF S!IsGraph
<1>3. S!IsGraph(h)
  BY <1>1, <1>2 DEF S!IsGraph
<1> QED BY <1>1, <1>3 DEF h

\* The fragments of a commit that is there add nothing else.
LEMMA Contained ==
  ASSUME NEW g, S!IsGraph(g), NEW c \in g.commits
  PROVE  LET h == S!Contain(g, c)
         IN /\ S!IsGraph(h) /\ h.nodes = g.nodes /\ h.evolved = g.evolved
            /\ h.commits = g.commits /\ h.links = g.links
            /\ h.contains = g.contains \cup {c} \X Touches[c]
<1> DEFINE h == S!Contain(g, c)
<1>1. /\ DOMAIN h = {"nodes", "commits", "links", "contains", "evolved"}
      /\ h.nodes = g.nodes /\ h.evolved = g.evolved
      /\ h.commits = g.commits /\ h.links = g.links
      /\ h.contains = g.contains \cup {c} \X Touches[c]
  BY DEF S!Contain, S!IsGraph
<1> HIDE DEF h
<1>2. h.contains \subseteq UNION {{b} \X Touches[b] : b \in h.commits}
  BY <1>1 DEF S!IsGraph
<1>3. S!IsGraph(h)
  BY <1>1, <1>2 DEF S!IsGraph
<1> QED BY <1>1, <1>3 DEF h

\* EVOLVED_FROM between two records of a spec adds nothing else.
LEMMA Led ==
  ASSUME NEW g, S!IsGraph(g), NEW new \in DOMAIN g.nodes, NEW old \in DOMAIN g.nodes,
         new[1] = old[1]
  PROVE  LET h == S!EvolvedFrom(g, new, old)
         IN /\ S!IsGraph(h) /\ h.nodes = g.nodes /\ h.commits = g.commits
            /\ h.links = g.links /\ h.contains = g.contains
            /\ h.evolved = g.evolved \cup {<<new, old>>}
<1> DEFINE h == S!EvolvedFrom(g, new, old)
<1>1. /\ DOMAIN h = {"nodes", "commits", "links", "contains", "evolved"}
      /\ h.nodes = g.nodes /\ h.commits = g.commits
      /\ h.links = g.links /\ h.contains = g.contains
      /\ h.evolved = g.evolved \cup {<<new, old>>}
  BY DEF S!EvolvedFrom, S!IsGraph
<1> HIDE DEF h
<1>2. h.evolved \subseteq (DOMAIN h.nodes) \X (DOMAIN h.nodes)
  BY <1>1 DEF S!IsGraph
<1>3. S!IsGraph(h)
  BY <1>1, <1>2 DEF S!IsGraph
<1> QED BY <1>1, <1>3 DEF h

\* The record that a relation of one record is moved to.
MovedTo(id, old, new) == IF id = old THEN new ELSE id

\* Relations that move to another record of the spec keep the foreign keys.
LEMMA Transferred ==
  ASSUME NEW g, S!IsGraph(g), NEW new \in DOMAIN g.nodes, NEW old \in DOMAIN g.nodes,
         new[1] = old[1]
  PROVE  LET h == S!Transfer(g, old, new)
         IN /\ S!IsGraph(h) /\ h.nodes = g.nodes /\ h.commits = g.commits
            /\ h.contains = g.contains
            /\ h.evolved = {<<MovedTo(e[1], old, new), MovedTo(e[2], old, new)>> :
                              e \in g.evolved}
<1> DEFINE h == S!Transfer(g, old, new)
<1>1. /\ DOMAIN h = {"nodes", "commits", "links", "contains", "evolved"}
      /\ h.nodes = g.nodes /\ h.commits = g.commits /\ h.contains = g.contains
      /\ h.links = {<<MovedTo(l[1], old, new), l[2], l[3]>> : l \in g.links}
      /\ h.evolved = {<<MovedTo(e[1], old, new), MovedTo(e[2], old, new)>> :
                        e \in g.evolved}
  BY DEF S!Transfer, S!IsGraph, MovedTo
<1> HIDE DEF h
<1>2. h.links \subseteq (DOMAIN h.nodes) \X h.commits \X {"GENERATE", "SUMMARIZED_FROM"}
  BY <1>1 DEF S!IsGraph, MovedTo
<1>3. h.evolved \subseteq (DOMAIN h.nodes) \X (DOMAIN h.nodes)
  BY <1>1 DEF S!IsGraph, MovedTo
<1>4. \A e \in h.evolved : e[1][1] = e[2][1]
  <2> SUFFICES ASSUME NEW e \in g.evolved
               PROVE  MovedTo(e[1], old, new)[1] = MovedTo(e[2], old, new)[1]
    BY <1>1
  <2>1. e[1][1] = e[2][1]
    BY DEF S!IsGraph
  <2> QED BY <2>1 DEF MovedTo
<1>5. S!IsGraph(h)
  BY <1>1, <1>2, <1>3, <1>4 DEF S!IsGraph
<1> QED BY <1>1, <1>5 DEF h

-----------------------------------------------------------------------------
(* What the commands do to them.                                             *)

\* What upsertSpecFromMetadata leaves of a graph.
LEMMA Upserted ==
  ASSUME NEW g, S!IsGraph(g), NEW s \in Specs, NEW text \in S!Texts
  PROVE  LET h == S!Upsert(g, s, text)
         IN /\ S!IsGraph(h) /\ h.commits = g.commits /\ h.contains = g.contains
            /\ DOMAIN h.nodes = (DOMAIN g.nodes) \cup {<<s, 0>>}
            /\ \A i \in (DOMAIN g.nodes) \ {<<s, 0>>} : h.nodes[i] = g.nodes[i]
            /\ h.nodes[<<s, 0>>].version = 1 /\ h.nodes[<<s, 0>>].text = text
            /\ h.evolved = Without(g.evolved, <<s, 0>>)
<1>1. <<s, 0>> \in S!Ids /\ 1 \in Nat \ {0}
  BY DEF S!Ids
<1> DEFINE h == S!InsertSpec(g, <<s, 0>>, "active", 1, text)
<1>2. HasInserted(g, h, <<s, 0>>, [status |-> "active", version |-> 1, text |-> text])
  BY <1>1, InsertedSpec
<1> QED BY <1>2 DEF S!Upsert, HasInserted

\* It describes the document that was read, and the others as before.
LEMMA UpsertDescribes ==
  ASSUME NEW g, S!IsGraph(g), NEW s \in Specs, NEW d, d[s].plan \in S!Texts,
         NEW r \in Specs, r = s \/ S!Describes(g, d, r)
  PROVE  S!Describes(S!Upsert(g, s, d[s].plan), d, r)
<1> DEFINE h == S!Upsert(g, s, d[s].plan)
<1>1. /\ DOMAIN h.nodes = (DOMAIN g.nodes) \cup {<<s, 0>>}
      /\ \A i \in (DOMAIN g.nodes) \ {<<s, 0>>} : h.nodes[i] = g.nodes[i]
      /\ h.nodes[<<s, 0>>].text = d[s].plan
      /\ h.evolved = Without(g.evolved, <<s, 0>>)
  BY Upserted
<1> SUFFICES S!Describes(h, d, r)
  OBVIOUS
<1> HIDE DEF h
<1>2. \A e \in g.evolved : e[1] \in DOMAIN g.nodes /\ e[2] \in DOMAIN g.nodes
  BY DEF S!IsGraph
<1>3. CASE r = s
  BY <1>1, <1>3 DEF S!Describes, Without
<1>4. CASE r # s
  BY <1>1, <1>2, <1>4 DEF S!Describes, Without
<1> QED BY <1>3, <1>4

\* It starts the versions of its spec anew, and leaves the others.
LEMMA UpsertChains ==
  ASSUME NEW g, S!IsGraph(g), NEW s \in Specs, NEW text \in S!Texts,
         NEW r \in Specs, S!Chained(g, r)
  PROVE  S!Chained(S!Upsert(g, s, text), r)
<1> DEFINE h == S!Upsert(g, s, text)
<1>1. /\ DOMAIN h.nodes = (DOMAIN g.nodes) \cup {<<s, 0>>}
      /\ \A i \in (DOMAIN g.nodes) \ {<<s, 0>>} : h.nodes[i] = g.nodes[i]
      /\ h.nodes[<<s, 0>>].version = 1
      /\ h.evolved = Without(g.evolved, <<s, 0>>)
  BY Upserted
<1> SUFFICES S!Chained(h, r)
  OBVIOUS
<1> HIDE DEF h
<1>2. CASE r = s
  BY <1>1, <1>2 DEF S!Chained
<1>3. CASE r # s
  BY <1>1, <1>3 DEF S!Chained, Without
<1> QED BY <1>2, <1>3

\* What persistCommitSpecGraph leaves of a graph.
LEMMA Persisted ==
  ASSUME NEW g, S!IsGraph(g), NEW c \in S!Commits, Scope[c] \in Specs, NEW text \in S!Texts
  PROVE  LET h == S!Persist(g, c, text)
             u == S!Upsert(g, Scope[c], text)
         IN /\ S!IsGraph(h) /\ h.commits = g.commits \cup {c}
            /\ h.contains = {x \in g.contains : x[1] # c} \cup {c} \X Touches[c]
            /\ h.nodes = u.nodes /\ h.evolved = u.evolved
<1> DEFINE s == Scope[c]
           a == S!InsertCommit(g, c)
           b == S!Upsert(a, s, text)
           l == S!Link(b, <<s, 0>>, c, "GENERATE")
           h == S!Contain(l, c)
           u == S!Upsert(g, s, text)
<1>1. /\ S!IsGraph(a) /\ a.nodes = g.nodes /\ a.evolved = g.evolved
      /\ a.commits = g.commits \cup {c}
      /\ a.contains = {x \in g.contains : x[1] # c}
  BY InsertedCommit
<1>2. b.nodes = u.nodes /\ b.evolved = u.evolved
  BY <1>1 DEF S!Upsert, S!InsertSpec, S!DeleteSpec, S!IsGraph
<1> HIDE DEF a
<1>3. /\ S!IsGraph(b) /\ b.commits = a.commits /\ b.contains = a.contains
      /\ <<s, 0>> \in DOMAIN b.nodes
  BY <1>1, Upserted
<1> HIDE DEF b, u
<1>4. /\ S!IsGraph(l) /\ l.nodes = b.nodes /\ l.evolved = b.evolved
      /\ l.commits = b.commits /\ l.contains = b.contains
  BY <1>1, <1>3, Linked
<1> HIDE DEF l
<1>5. /\ S!IsGraph(h) /\ h.nodes = l.nodes /\ h.evolved = l.evolved
      /\ h.commits = l.commits /\ h.contains = l.contains \cup {c} \X Touches[c]
  BY <1>1, <1>3, <1>4, Contained
<1> HIDE DEF h
<1>6. h = S!Persist(g, c, text)
  BY DEF h, l, b, a, S!Persist
<1> QED BY <1>1, <1>2, <1>3, <1>4, <1>5, <1>6 DEF u

\* What applyDeprecate leaves of a graph.
LEMMA Deprecated ==
  ASSUME NEW g, S!IsGraph(g), NEW s \in Specs, <<s, 0>> \in DOMAIN g.nodes
  PROVE  LET h == S!Deprecate(g, s)
             gone == <<s, -1>>
         IN /\ S!IsGraph(h) /\ h.commits = g.commits /\ h.contains = g.contains
            /\ DOMAIN h.nodes = (DOMAIN g.nodes) \cup {gone}
            /\ \A i \in (DOMAIN g.nodes) \ {gone} :
                 /\ h.nodes[i].text = g.nodes[i].text
                 /\ h.nodes[i].version = g.nodes[i].version
            /\ h.evolved = Without(g.evolved, gone) \cup {<<<<s, 0>>, gone>>}
<1> DEFINE now == <<s, 0>>
           gone == <<s, -1>>
           m == [g EXCEPT !.nodes[now].status = "deprecated"]
           i == S!InsertSpec(m, gone, "deprecated", 1, S!NoText)
           h == S!EvolvedFrom(i, now, gone)
<1>1. /\ DOMAIN m = {"nodes", "commits", "links", "contains", "evolved"}
      /\ m.nodes = [g.nodes EXCEPT ![now].status = "deprecated"]
      /\ m.commits = g.commits /\ m.contains = g.contains
      /\ m.links = g.links /\ m.evolved = g.evolved
  BY DEF S!IsGraph
<1>2. /\ DOMAIN m.nodes = DOMAIN g.nodes
      /\ m.nodes \in [DOMAIN g.nodes -> S!Records]
      /\ \A k \in DOMAIN g.nodes : /\ m.nodes[k].text = g.nodes[k].text
                                   /\ m.nodes[k].version = g.nodes[k].version
  BY <1>1 DEF S!IsGraph, S!Records
<1>3. S!IsGraph(m)
  BY <1>1, <1>2 DEF S!IsGraph
<1> HIDE DEF m
<1>4. gone \in S!Ids /\ now # gone /\ now[1] = gone[1] /\ now \in DOMAIN g.nodes
      /\ 1 \in Nat \ {0} /\ S!NoText \in S!Texts
  BY DEF S!Ids, S!Texts
<1> HIDE DEF gone, now
<1> DEFINE row == [status |-> "deprecated", version |-> 1, text |-> S!NoText]
<1>5. HasInserted(m, i, gone, row)
  BY <1>3, <1>4, InsertedSpec
<1>6. /\ S!IsGraph(i) /\ DOMAIN i.nodes = (DOMAIN m.nodes) \cup {gone}
      /\ \A k \in (DOMAIN m.nodes) \ {gone} : i.nodes[k] = m.nodes[k]
      /\ i.commits = m.commits /\ i.contains = m.contains
      /\ i.evolved = Without(m.evolved, gone)
  BY <1>5 DEF HasInserted
<1> HIDE DEF i
<1>7. /\ S!IsGraph(h) /\ h.nodes = i.nodes /\ h.commits = i.commits
      /\ h.contains = i.contains /\ h.evolved = i.evolved \cup {<<now, gone>>}
  BY <1>2, <1>4, <1>6, Led
<1> HIDE DEF h
<1>8. h = S!Deprecate(g, s)
  BY DEF h, i, m, now, gone, S!Deprecate
<1>9. /\ S!IsGraph(h) /\ h.commits = g.commits /\ h.contains = g.contains
      /\ DOMAIN h.nodes = (DOMAIN g.nodes) \cup {gone}
      /\ \A k \in (DOMAIN g.nodes) \ {gone} :
           /\ h.nodes[k].text = g.nodes[k].text
           /\ h.nodes[k].version = g.nodes[k].version
      /\ h.evolved = Without(g.evolved, gone) \cup {<<now, gone>>}
  <2>1. ASSUME NEW k \in (DOMAIN g.nodes) \ {gone}
        PROVE  h.nodes[k].text = g.nodes[k].text /\ h.nodes[k].version = g.nodes[k].version
    <3>1. h.nodes[k] = m.nodes[k]
      BY <1>2, <1>6, <1>7
    <3> QED BY <1>2, <3>1
  <2>2. h.evolved = Without(g.evolved, gone) \cup {<<now, gone>>}
    BY <1>1, <1>6, <1>7
  <2> QED BY <1>1, <1>2, <1>6, <1>7, <2>1, <2>2
<1> QED BY <1>8, <1>9 DEF now, gone

\* It leaves the record describing its document.
LEMMA DeprecateDescribes ==
  ASSUME NEW g, S!IsGraph(g), NEW s \in Specs, <<s, 0>> \in DOMAIN g.nodes,
         NEW d, NEW r \in Specs, S!Describes(g, d, r)
  PROVE  S!Describes(S!Deprecate(g, s), d, r)
<1> DEFINE h == S!Deprecate(g, s)
           gone == <<s, -1>>
<1>1. /\ DOMAIN h.nodes = (DOMAIN g.nodes) \cup {gone}
      /\ \A i \in (DOMAIN g.nodes) \ {gone} : h.nodes[i].text = g.nodes[i].text
      /\ h.evolved = Without(g.evolved, gone) \cup {<<<<s, 0>>, gone>>}
  BY Deprecated
<1> SUFFICES S!Describes(h, d, r)
  OBVIOUS
<1> HIDE DEF h
<1>2. \A e \in g.evolved : e[1] \in DOMAIN g.nodes /\ e[2] \in DOMAIN g.nodes
  BY DEF S!IsGraph
<1>3. <<r, 0>> # gone
  OBVIOUS
<1>4. <<r, 0>> \in DOMAIN h.nodes => h.nodes[<<r, 0>>].text = d[r].plan
  BY <1>1, <1>3 DEF S!Describes
<1>5. ASSUME NEW e \in h.evolved, e[1] = <<r, 0>>, e[2][2] > 0
      PROVE  h.nodes[e[2]].text = d[r].bak
  <2>1. e[2] # gone
    BY <1>5
  <2>2. e \in g.evolved
    BY <1>1, <2>1 DEF Without
  <2> QED BY <1>1, <1>2, <1>5, <2>1, <2>2 DEF S!Describes
<1> QED BY <1>4, <1>5 DEF S!Describes

\* It leaves the chain of versions.
LEMMA DeprecateChains ==
  ASSUME NEW g, S!IsGraph(g), NEW s \in Specs, <<s, 0>> \in DOMAIN g.nodes,
         NEW r \in Specs, S!Chained(g, r)
  PROVE  S!Chained(S!Deprecate(g, s), r)
<1> DEFINE h == S!Deprecate(g, s)
           gone == <<s, -1>>
<1>1. /\ DOMAIN h.nodes = (DOMAIN g.nodes) \cup {gone}
      /\ \A i \in (DOMAIN g.nodes) \ {gone} : h.nodes[i].version = g.nodes[i].version
      /\ h.evolved = Without(g.evolved, gone) \cup {<<<<s, 0>>, gone>>}
  BY Deprecated
<1> SUFFICES S!Chained(h, r)
  OBVIOUS
<1> HIDE DEF h
<1>2. <<r, 0>> # gone
  OBVIOUS
<1> DEFINE n == g.nodes[<<r, 0>>].version
           Id(v) == IF v = n THEN <<r, 0>> ELSE <<r, v>>
<1>3. ASSUME <<r, 0>> \in DOMAIN g.nodes, NEW v \in 2..n
      PROVE  <<Id(v), <<r, v - 1>>>> \in h.evolved
  <2>1. <<Id(v), <<r, v - 1>>>> \in g.evolved
    BY <1>3 DEF S!Chained
  <2>2. n \in Nat
    BY <1>3 DEF S!IsGraph, S!Records
  <2>3. Id(v) # gone /\ <<r, v - 1>> # gone
    BY <2>2
  <2> QED BY <1>1, <2>1, <2>3 DEF Without
<1>4. <<r, 0>> \in DOMAIN h.nodes =>
        <<r, 0>> \in DOMAIN g.nodes /\ h.nodes[<<r, 0>>].version = n
  BY <1>1, <1>2
<1> QED BY <1>3, <1>4 DEF S!Chained

\* Where applyUpdate moves the relations of a record that becomes an old version.
Shifted(E, now, old) ==
  {<<MovedTo(e[1], now, old), MovedTo(e[2], now, old)>> : e \in Without(E, old)}

\* h is g after it: the record as it was is the old version, to which the new one leads.
HasUpdated(g, h, now, old, v, text) ==
  /\ S!IsGraph(h) /\ h.commits = g.commits /\ h.contains = g.contains
  /\ DOMAIN h.nodes = (DOMAIN g.nodes) \cup {old}
  /\ h.nodes[now].text = text /\ h.nodes[now].version = v + 1
  /\ h.nodes[old].text = g.nodes[now].text
  /\ \A i \in (DOMAIN g.nodes) \ {now, old} : h.nodes[i] = g.nodes[i]
  /\ h.evolved = Shifted(g.evolved, now, old) \cup {<<now, old>>}

\* What the transaction of applyUpdate leaves of a graph.
LEMMA Updated ==
  ASSUME NEW g, S!IsGraph(g), NEW s \in Specs, <<s, 0>> \in DOMAIN g.nodes,
         NEW v \in Nat \ {0}, NEW text \in S!Texts, NEW c \in g.commits
  PROVE  HasUpdated(g, S!Update(g, s, v, text, c), <<s, 0>>, <<s, v>>, v, text)
<1> DEFINE now == <<s, 0>>
           old == <<s, v>>
           was == g.nodes[now].text
           a == S!InsertSpec(g, old, "deprecated", v, was)
           t == S!Transfer(a, now, old)
           d == S!DeleteSpec(t, now)
           f == S!InsertSpec(d, now, "active", v + 1, text)
           e == S!EvolvedFrom(f, now, old)
           h == S!Link(e, now, c, "GENERATE")
           rowA == [status |-> "deprecated", version |-> v, text |-> was]
           rowF == [status |-> "active", version |-> v + 1, text |-> text]
<1>1. h = S!Update(g, s, v, text, c)
  BY DEF S!Update, S!MovesAside
<1>2. /\ now \in S!Ids /\ old \in S!Ids /\ now # old /\ now[1] = old[1]
      /\ now \in DOMAIN g.nodes /\ v + 1 \in Nat \ {0}
  BY DEF S!Ids
<1>3. was \in S!Texts
  BY <1>2 DEF S!IsGraph, S!Records
<1> HIDE DEF now, old
<1>4. HasInserted(g, a, old, rowA)
  <2> HIDE DEF was
  <2> QED BY <1>2, <1>3, InsertedSpec
<1> HIDE DEF a
<1>5. /\ S!IsGraph(a) /\ now \in DOMAIN a.nodes /\ old \in DOMAIN a.nodes
      /\ a.evolved = Without(g.evolved, old)
      /\ DOMAIN a.nodes = (DOMAIN g.nodes) \cup {old}
  BY <1>2, <1>4 DEF HasInserted
<1>6. /\ S!IsGraph(t) /\ t.nodes = a.nodes /\ t.commits = a.commits
      /\ t.contains = a.contains /\ t.evolved = Shifted(g.evolved, now, old)
  <2>1. /\ S!IsGraph(t) /\ t.nodes = a.nodes /\ t.commits = a.commits
        /\ t.contains = a.contains
        /\ t.evolved = {<<MovedTo(x[1], now, old), MovedTo(x[2], now, old)>> :
                          x \in a.evolved}
    BY <1>2, <1>5, Transferred
  <2> QED BY <1>5, <2>1 DEF Shifted
<1> HIDE DEF t
<1>7. Without(Shifted(g.evolved, now, old), now) = Shifted(g.evolved, now, old)
  BY <1>2 DEF Without, Shifted, MovedTo
<1>8. /\ S!IsGraph(d) /\ DOMAIN d.nodes = (DOMAIN t.nodes) \ {now}
      /\ \A i \in DOMAIN d.nodes : d.nodes[i] = t.nodes[i]
      /\ d.commits = t.commits /\ d.contains = t.contains
      /\ d.evolved = Without(t.evolved, now)
  BY <1>6, DeletedSpec
<1> HIDE DEF d
<1>9. HasInserted(d, f, now, rowF)
  BY <1>2, <1>8, InsertedSpec
<1> HIDE DEF f
<1>10. /\ S!IsGraph(f) /\ now \in DOMAIN f.nodes /\ old \in DOMAIN f.nodes
       /\ f.evolved = Shifted(g.evolved, now, old)
       /\ f.commits = g.commits /\ f.contains = g.contains
       /\ DOMAIN f.nodes = (DOMAIN g.nodes) \cup {old}
       /\ f.nodes[now] = rowF /\ f.nodes[old] = rowA
       /\ \A i \in (DOMAIN g.nodes) \ {now, old} : f.nodes[i] = g.nodes[i]
  <2>1. /\ S!IsGraph(f) /\ DOMAIN f.nodes = (DOMAIN d.nodes) \cup {now}
        /\ f.nodes[now] = rowF
        /\ \A i \in (DOMAIN d.nodes) \ {now} : f.nodes[i] = d.nodes[i]
        /\ f.commits = d.commits /\ f.contains = d.contains
        /\ f.evolved = Without(d.evolved, now)
    BY <1>9 DEF HasInserted
  <2>2. /\ DOMAIN a.nodes = (DOMAIN g.nodes) \cup {old} /\ a.nodes[old] = rowA
        /\ \A i \in (DOMAIN g.nodes) \ {old} : a.nodes[i] = g.nodes[i]
        /\ a.commits = g.commits /\ a.contains = g.contains
    BY <1>4 DEF HasInserted
  <2> HIDE DEF rowA, rowF
  <2>3. f.evolved = Shifted(g.evolved, now, old)
    BY <1>6, <1>7, <1>8, <2>1
  <2>4. DOMAIN f.nodes = (DOMAIN g.nodes) \cup {old}
    BY <1>2, <1>6, <1>8, <2>1, <2>2
  <2>5. \A i \in (DOMAIN g.nodes) \ {now, old} : f.nodes[i] = g.nodes[i]
    BY <1>6, <1>8, <2>1, <2>2
  <2>6. f.nodes[old] = rowA
    BY <1>2, <1>6, <1>8, <2>1, <2>2
  <2> QED BY <1>2, <1>6, <1>8, <2>1, <2>2, <2>3, <2>4, <2>5, <2>6
<1>11. /\ S!IsGraph(e) /\ e.nodes = f.nodes /\ e.commits = f.commits
       /\ e.contains = f.contains /\ e.evolved = f.evolved \cup {<<now, old>>}
  BY <1>2, <1>10, Led
<1> HIDE DEF e
<1>12. /\ S!IsGraph(h) /\ h.nodes = e.nodes /\ h.evolved = e.evolved
       /\ h.commits = e.commits /\ h.contains = e.contains
  BY <1>2, <1>10, <1>11, Linked
<1> HIDE DEF h
<1>13. HasUpdated(g, h, now, old, v, text)
  BY <1>10, <1>11, <1>12 DEF HasUpdated
<1> QED BY <1>1, <1>13 DEF now, old, h, e, f, d, t, a

\* It describes the rewritten document, and the .bak by the old version.
LEMMA UpdateDescribes ==
  ASSUME NEW g, S!IsGraph(g), NEW s \in Specs, <<s, 0>> \in DOMAIN g.nodes,
         NEW v \in Nat \ {0}, NEW text \in S!Texts, NEW c \in g.commits,
         NEW d, NEW r \in Specs,
         r # s => S!Describes(g, d, r),
         r = s => text = d[s].plan /\ g.nodes[<<s, 0>>].text = d[s].bak
  PROVE  S!Describes(S!Update(g, s, v, text, c), d, r)
<1> DEFINE h == S!Update(g, s, v, text, c)
           now == <<s, 0>>
           old == <<s, v>>
<1>1. /\ DOMAIN h.nodes = (DOMAIN g.nodes) \cup {old}
      /\ h.nodes[now].text = text /\ h.nodes[old].text = g.nodes[now].text
      /\ \A i \in (DOMAIN g.nodes) \ {now, old} : h.nodes[i] = g.nodes[i]
      /\ h.evolved = Shifted(g.evolved, now, old) \cup {<<now, old>>}
  <2>1. HasUpdated(g, h, now, old, v, text)
    BY Updated
  <2> HIDE DEF h, now, old
  <2> QED BY <2>1 DEF HasUpdated
<1> SUFFICES S!Describes(h, d, r)
  OBVIOUS
<1> HIDE DEF h
<1>2. CASE r = s
  <2>1. \A e \in h.evolved : e[1] = now => e[2] = old
    BY <1>1 DEF Shifted, Without, MovedTo
  <2> QED BY <1>1, <1>2, <2>1 DEF S!Describes
<1>3. CASE r # s
  <2>1. <<r, 0>> \in DOMAIN h.nodes => h.nodes[<<r, 0>>].text = d[r].plan
    BY <1>1, <1>3 DEF S!Describes
  <2>2. ASSUME NEW e \in h.evolved, e[1] = <<r, 0>>, e[2][2] > 0
        PROVE  h.nodes[e[2]].text = d[r].bak
    <3>1. PICK b \in g.evolved : e = <<MovedTo(b[1], now, old), MovedTo(b[2], now, old)>>
      BY <1>1, <1>3, <2>2 DEF Shifted, Without
    <3>2. b[1][1] = b[2][1] /\ b[2] \in DOMAIN g.nodes
      BY DEF S!IsGraph
    <3>3. b[1] = <<r, 0>>
      BY <1>3, <2>2, <3>1 DEF MovedTo
    <3>4. b[2] # now /\ b[2] # old
      BY <1>3, <3>2, <3>3
    <3>5. e[2] = b[2]
      BY <3>1, <3>4 DEF MovedTo
    <3> QED BY <1>1, <1>3, <2>2, <3>2, <3>3, <3>4, <3>5 DEF S!Describes
  <2> QED BY <2>1, <2>2 DEF S!Describes
<1> QED BY <1>2, <1>3

\* It makes the chain of versions one longer.
LEMMA UpdateChains ==
  ASSUME NEW g, S!IsGraph(g), NEW s \in Specs, <<s, 0>> \in DOMAIN g.nodes,
         NEW text \in S!Texts, NEW c \in g.commits, NEW r \in Specs, S!Chained(g, r)
  PROVE  S!Chained(S!Update(g, s, g.nodes[<<s, 0>>].version, text, c), r)
<1> DEFINE now == <<s, 0>>
           n == g.nodes[now].version
           old == <<s, n>>
           h == S!Update(g, s, n, text, c)
<1>1. n \in Nat \ {0}
  BY DEF S!IsGraph, S!Records
<1>2. /\ DOMAIN h.nodes = (DOMAIN g.nodes) \cup {old}
      /\ h.nodes[now].version = n + 1
      /\ \A i \in (DOMAIN g.nodes) \ {now, old} : h.nodes[i] = g.nodes[i]
      /\ h.evolved = Shifted(g.evolved, now, old) \cup {<<now, old>>}
  <2> HIDE DEF n
  <2>1. HasUpdated(g, h, now, old, n, text)
    BY <1>1, Updated
  <2> HIDE DEF h, now, old
  <2> QED BY <2>1 DEF HasUpdated
<1> SUFFICES S!Chained(h, r)
  OBVIOUS
<1> HIDE DEF h
<1>3. CASE r = s
  <2> SUFFICES ASSUME NEW v \in 2..n + 1
               PROVE  <<IF v = n + 1 THEN now ELSE <<s, v>>, <<s, v - 1>>>> \in h.evolved
    BY <1>2, <1>3 DEF S!Chained
  <2>1. CASE v = n + 1
    <3>1. <<s, v - 1>> = old
      BY <1>1, <2>1
    <3> QED BY <1>2, <2>1, <3>1
  <2>2. CASE v # n + 1
    <3> DEFINE was == <<IF v = n THEN now ELSE <<s, v>>, <<s, v - 1>>>>
    <3>1. v \in 2..n
      BY <1>1, <2>2
    <3>2. was \in g.evolved
      BY <1>3, <3>1 DEF S!Chained
    <3>3. was[1] # old /\ was[2] # old /\ was[2] # now
      BY <1>1, <3>1
    <3>4. MovedTo(was[1], now, old) = <<s, v>> /\ MovedTo(was[2], now, old) = <<s, v - 1>>
      BY <1>1, <3>1, <3>3 DEF MovedTo
    <3> HIDE DEF was
    <3>5. <<MovedTo(was[1], now, old), MovedTo(was[2], now, old)>> \in Shifted(g.evolved,
          now, old)
      BY <3>2, <3>3 DEF Shifted, Without
    <3> QED BY <1>2, <2>2, <3>4, <3>5
  <2> QED BY <2>1, <2>2
<1>4. CASE r # s
  <2> DEFINE m == g.nodes[<<r, 0>>].version
             Id(v) == IF v = m THEN <<r, 0>> ELSE <<r, v>>
  <2>1. <<r, 0>> \in DOMAIN h.nodes =>
          <<r, 0>> \in DOMAIN g.nodes /\ h.nodes[<<r, 0>>].version = m
    BY <1>2, <1>4
  <2>2. ASSUME <<r, 0>> \in DOMAIN g.nodes, NEW v \in 2..m
        PROVE  <<Id(v), <<r, v - 1>>>> \in h.evolved
    <3> DEFINE x == Id(v)
               y == <<r, v - 1>>
    <3>1. <<x, y>> \in g.evolved
      BY <2>2 DEF S!Chained
    <3>2. x \notin {now, old} /\ y \notin {now, old}
      BY <1>4
    <3> HIDE DEF x, y
    <3>3. <<MovedTo(x, now, old), MovedTo(y, now, old)>> \in Shifted(g.evolved, now, old)
      BY <3>1, <3>2 DEF Shifted, Without
    <3>4. MovedTo(x, now, old) = x /\ MovedTo(y, now, old) = y
      BY <3>2 DEF MovedTo
    <3>5. <<x, y>> \in h.evolved
      BY <1>2, <3>3, <3>4
    <3> QED BY <3>5 DEF x, y
  <2> QED BY <2>1, <2>2 DEF S!Chained
<1> QED BY <1>3, <1>4

-----------------------------------------------------------------------------
(* The graph of the specs: the invariant.                                    *)

\* The steps on one commit of a build or of mining, and those of a rewrite.
Loop == {"spec", "node", "link", "fragments"}
Applying == {"await", "backup", "install", "commit"}

\* What a command remembers is in the graph, however many others write to it: the commits
\* it is done with come before those that it is not (a phase stops at the first that fails),
\* an affected spec has its record, and so has the document that its commit is joined to.
Fits(r, g) ==
  /\ r \in S!Commands
  /\ r.todo \subseteq r.took /\ r.hit \subseteq r.took \cap g.commits
  /\ \A h \in r.hit, c \in r.took \ r.hit : h < c
  /\ \A d \in r.due : <<d[1], 0>> \in DOMAIN g.nodes /\ d[2] \in g.commits
  /\ r.at \in {"look", "take", "begin", "range", "cluster", "finish"} \cup Loop
         => r.hit = {}
  /\ r.at \in {"look", "take", "begin"} => r.from >= 0
  /\ r.at \in {"look", "take", "begin", "persist", "range", "cluster"} => r.job # "build"
  /\ r.at = "persist" =>
       /\ r.todo # {} => r.todo = r.took \ r.hit
       /\ \A c \in r.todo : Scope[c] \in Specs
  /\ r.at \in {"advance", "locate", "judge"} \cup Applying => r.hit # {}
  /\ r.at = "cluster" => r.upto \in S!Commits /\ r.took = r.todo
  /\ r.at \in {"cluster"} \cup Loop => r.todo # {}
  /\ r.at \in Loop => r.took \ r.todo \subseteq g.commits
  /\ r.at = "finish" => r.took \subseteq g.commits
  /\ r.job = "build" => \A c \in r.took : Scope[c] \in Specs
  /\ r.at = "spec" /\ r.job # "build" => r.spec \in Specs /\ r.seen[r.spec] # S!NoText
  /\ r.at \in {"node", "link", "fragments"} =>
       r.spec \in Specs /\ (r.seen[r.spec] # S!NoText => <<r.spec, 0>> \in DOMAIN g.nodes)
  /\ r.at \in {"link", "fragments"} => S!Min(r.todo) \in g.commits
  /\ r.at \in Applying =>
       /\ r.due # {} /\ r.version # 0
       /\ r.spec \in Specs /\ <<r.spec, 0>> \in DOMAIN g.nodes

\* Only one command is under way.
Alone == \A p, q \in Procs : ~S!At(p, "idle") /\ ~S!At(q, "idle") => p = q

\* What a command that is alone has read of the documents and the graph is still there,
\* and its rewrite has taken the document from .new over .bak to the plan.
Remembers(p) ==
  LET r == sRun[p]
      s == r.spec
  IN /\ r.at = "persist" \/ (r.at \in Loop /\ r.job = "build") => r.seen = S!Readable
     /\ r.at = "spec" /\ r.job # "build" => r.seen[s] = sDisk[s].plan
     /\ r.at \in Applying => r.version = sGraph.nodes[<<s, 0>>].version
     /\ r.at \in {"await", "backup"} => sDisk[s].plan # S!NoText
     /\ r.at \in {"backup", "install"} => sDisk[s].new = r.seen[s] /\ r.seen[s] # S!NoText
     /\ r.at = "install" \/ r.at = "commit" =>
          s \in sCut \/ sDisk[s].bak = sGraph.nodes[<<s, 0>>].text
     /\ r.at = "commit" => sDisk[s].plan = r.seen[s]

\* So it is until two commands are under way at once.
Sole == ~sOverlapped => Alone /\ \A p \in Procs : Remembers(p)

\* The inductive invariant.
SInv == /\ S!TypeOK /\ \A p \in Procs : Fits(sRun[p], sGraph)
        /\ S!CommitsAreWhole /\ Sole /\ S!RecordsMatchTheFiles /\ S!VersionsAreChained

\* No command takes away what another may remember.
Grows(g, h) ==
  /\ g.commits \subseteq h.commits
  /\ \A s \in Specs : <<s, 0>> \in DOMAIN g.nodes => <<s, 0>> \in DOMAIN h.nodes

\* The types of what no command owns.
WorldOK ==
  /\ sHead \in 0..Last /\ sMeta \in -1..Last
  /\ sLock \in {"absent", "fresh", "old"} /\ sWriter \in Procs \cup {S!Nobody}
  /\ sStarted \in 0..MaxRuns /\ sOverlapped \in BOOLEAN

\* What a step of p has to keep, whatever it does to the graph and the documents.
StillAlone(p) ==
  ~sOverlapped' =>
    /\ ~sOverlapped /\ (S!At(p, "idle") => \A q \in Procs : S!At(q, "idle"))
    /\ Remembers(p)'

\* Such a step of p.
Moves(p) ==
  /\ sRun' = [sRun EXCEPT ![p] = sRun'[p]] /\ Fits(sRun'[p], sGraph')
  /\ S!IsGraph(sGraph') /\ Grows(sGraph, sGraph')
  /\ sDisk' \in [Specs -> S!DocumentFiles] /\ sTorn' \subseteq S!Commits
  /\ sCut' \subseteq Specs
  /\ WorldOK' /\ StillAlone(p)

\* What a command remembers of the graph stays so while the graph grows.
LEMMA StaysFit ==
  ASSUME NEW r, NEW g, NEW h, Fits(r, g), Grows(g, h)
  PROVE  Fits(r, h)
<1>1. \A d \in r.due : d[1] \in Specs
  BY DEF Fits, S!Commands
<1>2. \A d \in r.due : <<d[1], 0>> \in DOMAIN h.nodes /\ d[2] \in h.commits
  BY <1>1 DEF Fits, Grows
<1> QED BY <1>2 DEF Fits, Grows

\* A step of one command leaves the others as they were.
LEMMA Moved ==
  ASSUME SInv, NEW p \in Procs, Moves(p)
  PROVE  /\ S!TypeOK' /\ (\A q \in Procs : Fits(sRun[q], sGraph))' /\ Sole'
         /\ ~sOverlapped' => \A q \in Procs \ {p} : S!At(q, "idle") /\ S!At(q, "idle")'
<1> DEFINE t == sRun'[p]
<1>1. sRun \in [Procs -> S!Commands] /\ sRun' = [sRun EXCEPT ![p] = t] /\ t \in S!Commands
  BY DEF SInv, S!TypeOK, Moves, Fits
<1> HIDE DEF t
<1>2. sRun' \in [Procs -> S!Commands] /\ \A q \in Procs \ {p} : sRun'[q] = sRun[q]
  BY <1>1
<1>3. S!TypeOK'
  BY <1>2 DEF Moves, WorldOK, S!TypeOK
<1>4. ASSUME NEW q \in Procs PROVE Fits(sRun'[q], sGraph')
  <2>1. CASE q = p
    BY <2>1 DEF Moves
  <2>2. CASE q # p
    <3>1. Fits(sRun[q], sGraph) /\ Grows(sGraph, sGraph')
      BY DEF SInv, Moves
    <3> QED BY <1>2, <2>2, <3>1, StaysFit
  <2> QED BY <2>1, <2>2
<1>5. ASSUME ~sOverlapped', NEW q \in Procs \ {p} PROVE S!At(q, "idle") /\ S!At(q, "idle")'
  <2>1. Alone /\ (S!At(p, "idle") => S!At(q, "idle"))
    BY <1>5 DEF SInv, Sole, Moves, StillAlone
  <2>2. S!At(q, "idle")
    BY <2>1 DEF Alone
  <2> QED BY <1>2, <2>2 DEF S!At
<1>6. Sole'
  <2> SUFFICES ASSUME ~sOverlapped' PROVE Alone' /\ \A q \in Procs : Remembers(q)'
    BY DEF Sole
  <2>1. Alone'
    BY <1>5 DEF Alone
  <2>2. ASSUME NEW q \in Procs PROVE Remembers(q)'
    <3>1. CASE q = p
      BY <3>1 DEF Moves, StillAlone
    <3>2. CASE q # p
      <4>1. sRun'[q].at = "idle"
        BY <1>5, <3>2 DEF S!At
      <4> QED BY <4>1 DEF Remembers, Loop, Applying
    <3> QED BY <3>1, <3>2
  <2> QED BY <2>1, <2>2
<1> QED BY <1>3, <1>4, <1>5, <1>6

\* A step that changes neither the graph nor the documents.
Quietly(p) ==
  /\ sRun' = [sRun EXCEPT ![p] = sRun'[p]] /\ Fits(sRun'[p], sGraph)
  /\ UNCHANGED <<sGraph, sDisk, sTorn>> /\ WorldOK'
  /\ sCut \subseteq sCut' /\ sCut' \subseteq Specs
  /\ (S!Halfway(p) => sRun[p].spec \in sCut')
  /\ StillAlone(p)

\* Such a step keeps the invariant.
LEMMA QuietStep ==
  ASSUME SInv, NEW p \in Procs, Quietly(p)
  PROVE  SInv'
<1>1. Moves(p)
  <2>1. Grows(sGraph, sGraph') /\ S!IsGraph(sGraph') /\ sGraph' = sGraph
    BY DEF Quietly, Grows, SInv, S!TypeOK
  <2> QED BY <2>1 DEF Quietly, Moves, SInv, S!TypeOK
<1>2. /\ S!TypeOK' /\ (\A q \in Procs : Fits(sRun[q], sGraph))' /\ Sole'
      /\ ~sOverlapped' => \A q \in Procs \ {p} : S!At(q, "idle") /\ S!At(q, "idle")'
  BY <1>1, Moved
<1>3. sGraph' = sGraph /\ sDisk' = sDisk /\ sTorn' = sTorn /\ sCut \subseteq sCut'
      /\ (~sOverlapped' => ~sOverlapped)
  BY DEF Quietly, StillAlone
<1>4. S!CommitsAreWhole'
  BY <1>3 DEF SInv, S!CommitsAreWhole
<1>5. S!VersionsAreChained'
  BY <1>3 DEF SInv, S!VersionsAreChained
<1>6. S!RecordsMatchTheFiles'
  <2> SUFFICES ASSUME ~sOverlapped', NEW s \in Specs \ sCut'
               PROVE  S!Describes(sGraph, sDisk, s)
    BY <1>3 DEF S!RecordsMatchTheFiles
  <2>1. \A q \in Procs : S!Halfway(q) => sRun[q].spec # s
    <3> SUFFICES ASSUME NEW q \in Procs, S!Halfway(q) PROVE sRun[q].spec # s
      OBVIOUS
    <3>1. q = p
      BY <1>2 DEF S!Halfway, S!At
    <3> QED BY <3>1 DEF Quietly
  <2> QED BY <1>3, <2>1 DEF SInv, S!RecordsMatchTheFiles
<1> QED BY <1>2, <1>4, <1>5, <1>6 DEF SInv

-----------------------------------------------------------------------------
(* The steps that change neither.                                            *)

\* A process that does nothing remembers nothing.
LEMMA IdleFits ==
  ASSUME NEW g
  PROVE  S!Idle \in S!Commands /\ Fits(S!Idle, g)
<1>1. Last \in Nat
  BY Numbers
<1>2. S!Idle \in S!Commands
  BY <1>1 DEF S!Idle, S!Commands, S!Steps, S!Texts
<1> QED BY <1>2 DEF S!Idle, Fits, Loop, Applying

\* What a command reads of the documents are texts.
LEMMA ReadableIs == ASSUME SInv PROVE S!Readable \in [Specs -> S!Texts]
BY DEF SInv, S!TypeOK, S!Readable, S!DocumentFiles

\* A command that starts is quiet.
LEMMA Begins ==
  ASSUME SInv, NEW p \in Procs, NEW command, S!Starts(p, command), Fits(command, sGraph),
         command.at \in {"finish", "spec", "range", "look"},
         command.at = "spec" => command.job = "build" /\ command.seen = S!Readable
  PROVE  Quietly(p)
<1>1. sRun' = [sRun EXCEPT ![p] = command] /\ sRun'[p] = command
  BY DEF SInv, S!TypeOK, S!Starts
<1>2. ~sOverlapped' => ~sOverlapped /\ \A q \in Procs : S!At(q, "idle")
  BY DEF S!Starts
<1>3. UNCHANGED <<sGraph, sDisk, sTorn, sCut>> /\ WorldOK' /\ ~S!Halfway(p)
  <2>1. WorldOK /\ MaxRuns \in Nat
    BY GraphsAssumption DEF S!SpecGraphAssumption, SInv, S!TypeOK, WorldOK
  <2>2. sStarted' \in 0..MaxRuns /\ sOverlapped' \in BOOLEAN
    BY <2>1 DEF S!Starts, WorldOK
  <2>3. WorldOK'
    BY <2>1, <2>2 DEF S!Starts, WorldOK
  <2> QED BY <2>3 DEF S!Starts, S!Halfway, S!At
<1>4. Remembers(p)'
  BY <1>1, <1>3 DEF Remembers, Loop, Applying, S!Readable
<1> QED BY <1>1, <1>2, <1>3, <1>4 DEF Quietly, StillAlone, SInv, S!TypeOK

\* A build starts.
LEMMA StartBuildStep == ASSUME SInv, NEW p \in Procs, S!StartBuild(p) PROVE SInv'
<1> DEFINE pairs == {c \in 1..sHead : Scope[c] \in Documents}
           command == [S!Idle EXCEPT !.job = "build", !.took = pairs, !.todo = pairs,
                                   !.at = IF pairs = {} THEN "finish" ELSE "spec",
                                   !.seen = S!Readable]
<1>1. S!Starts(p, command)
  BY DEF S!StartBuild
<1>2. pairs \subseteq S!Commits /\ \A c \in pairs : Scope[c] \in Specs
  <2>1. sHead \in 0..Last /\ Last \in Nat /\ Documents \subseteq Specs
    BY GraphsAssumption DEF SInv, S!TypeOK, S!SpecGraphAssumption
  <2> QED BY <2>1 DEF S!Commits
<1> HIDE DEF pairs
<1>3. command \in S!Commands
  <2>1. S!Idle \in S!Commands /\ S!Readable \in [Specs -> S!Texts]
    BY IdleFits, ReadableIs
  <2> QED BY <1>2, <2>1 DEF S!Commands, S!Steps
<1>4. /\ command.job = "build" /\ command.took = pairs /\ command.todo = pairs
      /\ command.at = IF pairs = {} THEN "finish" ELSE "spec"
      /\ command.seen = S!Readable /\ command.hit = {} /\ command.due = {}
  BY DEF S!Idle
<1> HIDE DEF command
<1>5. Fits(command, sGraph)
  BY <1>2, <1>3, <1>4 DEF Fits, Loop, Applying
<1> QED BY <1>1, <1>4, <1>5, Begins, QuietStep

\* Mining starts.
LEMMA StartMineStep == ASSUME SInv, NEW p \in Procs, S!StartMine(p) PROVE SInv'
<1> DEFINE command == [S!Idle EXCEPT !.job = "mine", !.at = "range"]
<1>1. S!Starts(p, command)
  BY DEF S!StartMine
<1>2. command \in S!Commands
  BY IdleFits DEF S!Commands, S!Steps
<1>3. /\ command.job = "mine" /\ command.took = {} /\ command.todo = {}
      /\ command.at = "range" /\ command.hit = {} /\ command.due = {}
  BY DEF S!Idle
<1> HIDE DEF command
<1>4. Fits(command, sGraph)
  BY <1>2, <1>3 DEF Fits, Loop, Applying
<1> QED BY <1>1, <1>3, <1>4, Begins, QuietStep

\* An evolution starts.
LEMMA StartEvolveStep == ASSUME SInv, NEW p \in Procs, S!StartEvolve(p) PROVE SInv'
<1> DEFINE command == [S!Idle EXCEPT !.job = "evolve", !.at = "look", !.from = sMeta]
<1>1. S!Starts(p, command) /\ sMeta \in 0..Last
  BY Numbers DEF S!StartEvolve, SInv, S!TypeOK, S!NoMeta
<1>2. command \in S!Commands
  <2>1. S!Idle \in S!Commands /\ sMeta \in -1..Last
    BY IdleFits DEF SInv, S!TypeOK
  <2> QED BY <2>1 DEF S!Commands, S!Steps
<1>3. /\ command.job = "evolve" /\ command.took = {} /\ command.todo = {}
      /\ command.at = "look" /\ command.hit = {} /\ command.due = {} /\ command.from = sMeta
  BY DEF S!Idle
<1> HIDE DEF command
<1>4. Fits(command, sGraph)
  BY <1>1, <1>2, <1>3 DEF Fits, Loop, Applying
<1> QED BY <1>1, <1>3, <1>4, Begins, QuietStep

\* A command that ends, or goes to release its lock, keeps the invariant.
LEMMA Rests ==
  ASSUME SInv, NEW p \in Procs, ~S!At(p, "idle"),
         S!Ends(p) \/ (S!Goto(p, "release") /\ ~S!Halfway(p)) \/ S!Leaves(p),
         UNCHANGED <<sGraph, sDisk, sTorn, sOverlapped>>, WorldOK',
         sCut' = IF S!Halfway(p) THEN sCut \cup {sRun[p].spec} ELSE sCut
  PROVE  SInv'
<1> DEFINE r == sRun[p]
           t == sRun'[p]
<1>1. sRun \in [Procs -> S!Commands] /\ Fits(r, sGraph)
  BY DEF SInv, S!TypeOK
<1>2. sRun' = [sRun EXCEPT ![p] = t] /\ (t = S!Idle \/ t = [r EXCEPT !.at = "release"])
  BY <1>1 DEF S!Ends, S!Goto, S!Leaves
<1>3. t.at \in {"idle", "release"} /\ Fits(t, sGraph)
  <2>1. CASE t = S!Idle
    BY <2>1, IdleFits DEF S!Idle
  <2>2. CASE t = [r EXCEPT !.at = "release"]
    <3>1. t \in S!Commands /\ t.at = "release"
      BY <1>1, <2>2 DEF Fits, S!Commands, S!Steps
    <3>2. t.took = r.took /\ t.todo = r.todo /\ t.hit = r.hit /\ t.due = r.due
          /\ t.job = r.job
      BY <1>1, <2>2 DEF S!Commands
    <3> HIDE DEF r, t
    <3> QED BY <1>1, <3>1, <3>2 DEF Fits, Loop, Applying
  <2> QED BY <1>2, <2>1, <2>2
<1>4. Remembers(p)'
  BY <1>3 DEF Remembers, Loop, Applying
<1>5. S!Halfway(p) => r.spec \in Specs
  BY <1>1 DEF Fits, S!Halfway, S!At, Applying
<1>6. sCut \subseteq sCut' /\ sCut' \subseteq Specs /\ (S!Halfway(p) => r.spec \in sCut')
  BY <1>5 DEF SInv, S!TypeOK
<1>7. Quietly(p)
  BY <1>2, <1>3, <1>4, <1>6 DEF Quietly, StillAlone
<1> QED BY <1>7, QuietStep

\* The rest of the state is of its types.
LEMMA WorldIs == ASSUME SInv PROVE WorldOK
BY DEF SInv, S!TypeOK, WorldOK

\* A statement of a build or of mining fails.
LEMMA LoopFailsStep == ASSUME SInv, NEW p \in Procs, S!LoopFails(p) PROVE SInv'
<1>1. WorldOK' /\ ~S!At(p, "idle")
  BY WorldIs DEF S!LoopFails, S!world, WorldOK, S!At
<1> QED BY <1>1, Rests DEF S!LoopFails, S!world, S!Halfway, S!At

\* meta.json is written and the command ends.
LEMMA FinishStep == ASSUME SInv, NEW p \in Procs, S!Finish(p) PROVE SInv'
<1>1. sRun[p].upto \in 0..Last /\ ~S!Halfway(p) /\ ~S!At(p, "idle")
  BY DEF SInv, S!TypeOK, S!Commands, S!Finish, S!Halfway, S!At
<1>2. WorldOK'
  BY <1>1, Numbers, WorldIs DEF S!Finish, S!world, WorldOK
<1> QED BY <1>1, <1>2, Rests DEF S!Finish, S!world

\* Mining has no document to write.
LEMMA MineFindsNothingStep ==
  ASSUME SInv, NEW p \in Procs, S!MineFindsNothing(p) PROVE SInv'
<1>1. WorldOK' /\ ~S!At(p, "idle") /\ ~S!Halfway(p)
  BY WorldIs DEF S!MineFindsNothing, S!world, WorldOK, S!At, S!Halfway
<1> QED BY <1>1, Rests DEF S!MineFindsNothing, S!world

\* An evolution cannot open the database.
LEMMA SchemaFailsStep == ASSUME SInv, NEW p \in Procs, S!SchemaFails(p) PROVE SInv'
<1>1. WorldOK' /\ ~S!At(p, "idle") /\ ~S!Halfway(p)
  BY WorldIs DEF S!SchemaFails, S!world, WorldOK, S!At, S!Halfway
<1> QED BY <1>1, Rests DEF S!SchemaFails, S!world

\* An evolution removes the lock.
LEMMA ReleaseStep == ASSUME SInv, NEW p \in Procs, S!Release(p) PROVE SInv'
<1>1. WorldOK' /\ ~S!At(p, "idle") /\ ~S!Halfway(p)
  BY WorldIs DEF S!Release, S!world, WorldOK, S!At, S!Halfway
<1> QED BY <1>1, Rests DEF S!Release, S!world

\* A process is killed.
LEMMA DiesStep == ASSUME SInv, NEW p \in Procs, S!Dies(p) PROVE SInv'
<1>1. WorldOK'
  <2>1. WorldOK /\ -1 \in -1..Last
    BY WorldIs, Numbers
  <2> QED BY <2>1 DEF S!Dies, S!world, WorldOK, S!NoMeta
<1> QED BY <1>1, Rests DEF S!Dies, S!world

\* A command that goes on, and remembers what it read, keeps the invariant.
LEMMA Continues ==
  ASSUME SInv, NEW p \in Procs, ~S!At(p, "idle"),
         sRun' = [sRun EXCEPT ![p] = sRun'[p]], Fits(sRun'[p], sGraph),
         UNCHANGED <<sGraph, sDisk, sTorn, sOverlapped>>, WorldOK',
         sCut' = IF S!Halfway(p) THEN sCut \cup {sRun[p].spec} ELSE sCut,
         ~sOverlapped => Remembers(p)'
  PROVE  SInv'
<1>1. S!Halfway(p) => sRun[p].spec \in Specs
  BY DEF SInv, Fits, S!Halfway, S!At, Applying
<1>2. sCut \subseteq sCut' /\ sCut' \subseteq Specs
      /\ (S!Halfway(p) => sRun[p].spec \in sCut')
  BY <1>1 DEF SInv, S!TypeOK
<1>3. Quietly(p)
  BY <1>2 DEF Quietly, StillAlone
<1> QED BY <1>3, QuietStep

\* Where a command need remember nothing of the documents.
Unremarkable == S!Steps \ ({"persist"} \cup Loop \cup Applying)

\* So does one that goes on to where it need remember nothing.
LEMMA ContinuesTo ==
  ASSUME SInv, NEW p \in Procs, ~S!At(p, "idle"), ~S!Halfway(p),
         sRun' = [sRun EXCEPT ![p] = sRun'[p]], Fits(sRun'[p], sGraph),
         sRun'[p].at \in Unremarkable,
         UNCHANGED <<sGraph, sDisk, sTorn, sOverlapped, sCut>>, WorldOK'
  PROVE  SInv'
<1>1. Remembers(p)'
  BY DEF Unremarkable, Remembers, Loop, Applying
<1> QED BY <1>1, Continues

\* What the invariant says of one command.
LEMMA Facts ==
  ASSUME SInv, NEW p \in Procs
  PROVE  sRun \in [Procs -> S!Commands] /\ Fits(sRun[p], sGraph) /\ sRun[p] \in S!Commands
BY DEF SInv, S!TypeOK

\* Mining takes up its commits.
LEMMA MineRangeStep == ASSUME SInv, NEW p \in Procs, S!MineRange(p) PROVE SInv'
<1> DEFINE r == sRun[p]
           t == sRun'[p]
           range == (IF sMeta > 0 THEN sMeta + 1 ELSE 1)..sHead
<1>1. WorldOK' /\ ~S!At(p, "idle") /\ ~S!Halfway(p)
  BY WorldIs DEF S!MineRange, S!world, WorldOK, S!At, S!Halfway
<1>2. CASE range = {}
  BY <1>1, <1>2, Rests DEF S!MineRange, S!world
<1>3. CASE range # {}
  <2>1. t = [r EXCEPT !.at = "cluster", !.upto = sHead, !.took = range, !.todo = range]
        /\ sRun' = [sRun EXCEPT ![p] = t]
    BY <1>3, Facts DEF S!MineRange
  <2>2. sHead \in S!Commits /\ range \subseteq S!Commits
    <3>1. sHead \in 0..Last /\ sMeta \in -1..Last /\ Last \in Nat
      BY Numbers DEF SInv, S!TypeOK
    <3> QED BY <1>3, <3>1 DEF S!Commits
  <2> HIDE DEF range
  <2>3. r \in S!Commands /\ Fits(r, sGraph) /\ r.at = "range"
    BY Facts DEF S!MineRange, S!At
  <2>4. t.at = "cluster" /\ t.upto = sHead /\ t.took = range /\ t.todo = range
        /\ t.hit = r.hit /\ t.due = r.due /\ t.job = r.job
    BY <2>1, <2>3 DEF S!Commands
  <2>5. t \in S!Commands
    <3>1. sHead \in 0..Last
      BY DEF SInv, S!TypeOK
    <3> QED BY <2>1, <2>2, <2>3, <3>1 DEF S!Commands, S!Steps
  <2> HIDE DEF t, r
  <2>6. r.hit = {} /\ r.job # "build"
    BY <2>3 DEF Fits
  <2>7. Fits(t, sGraph)
    BY <1>3, <2>2, <2>3, <2>4, <2>5, <2>6 DEF Fits, Loop, Applying
  <2> QED BY <1>1, <2>1, <2>4, <2>7, ContinuesTo
             DEF Unremarkable, S!Steps, Loop, Applying, S!MineRange, S!world, t
<1> QED BY <1>2, <1>3

\* An evolution looks at the lock.
LEMMA SeesTheLockStep == ASSUME SInv, NEW p \in Procs, S!SeesTheLock(p) PROVE SInv'
<1> DEFINE r == sRun[p]
           t == sRun'[p]
<1>1. WorldOK' /\ ~S!At(p, "idle") /\ ~S!Halfway(p)
  BY WorldIs DEF S!SeesTheLock, S!world, WorldOK, S!At, S!Halfway
<1>2. CASE sLock = "fresh"
  BY <1>1, <1>2, Rests DEF S!SeesTheLock, S!world
<1>3. CASE sLock # "fresh"
  <2>1. t = [r EXCEPT !.at = "take"] /\ sRun' = [sRun EXCEPT ![p] = t]
    BY <1>3, Facts DEF S!SeesTheLock, S!Goto
  <2>2. r \in S!Commands /\ Fits(r, sGraph) /\ r.at = "look"
    BY Facts DEF S!SeesTheLock, S!At
  <2>3. t.at = "take" /\ t.took = r.took /\ t.todo = r.todo /\ t.hit = r.hit
        /\ t.due = r.due /\ t.job = r.job /\ t.from = r.from
    BY <2>1, <2>2 DEF S!Commands
  <2>4. t \in S!Commands
    BY <2>1, <2>2 DEF S!Commands, S!Steps
  <2> HIDE DEF t, r
  <2>5. Fits(t, sGraph)
    BY <2>2, <2>3, <2>4 DEF Fits, Loop, Applying
  <2> QED BY <1>1, <2>1, <2>3, <2>5, ContinuesTo
             DEF Unremarkable, S!Steps, Loop, Applying, S!SeesTheLock, S!world, t
<1> QED BY <1>2, <1>3

\* An evolution writes the lock.
LEMMA TakesTheLockStep == ASSUME SInv, NEW p \in Procs, S!TakesTheLock(p) PROVE SInv'
<1> DEFINE r == sRun[p]
           t == sRun'[p]
<1>1. WorldOK' /\ ~S!At(p, "idle") /\ ~S!Halfway(p)
  BY WorldIs DEF S!TakesTheLock, S!world, WorldOK, S!At, S!Halfway
<1>2. t = [r EXCEPT !.at = "begin"] /\ sRun' = [sRun EXCEPT ![p] = t]
  BY Facts DEF S!TakesTheLock, S!Goto
<1>3. r \in S!Commands /\ Fits(r, sGraph) /\ r.at = "take"
  BY Facts DEF S!TakesTheLock, S!At
<1>4. t.at = "begin" /\ t.took = r.took /\ t.todo = r.todo /\ t.hit = r.hit
      /\ t.due = r.due /\ t.job = r.job /\ t.from = r.from
  BY <1>2, <1>3 DEF S!Commands
<1>5. t \in S!Commands
  BY <1>2, <1>3 DEF S!Commands, S!Steps
<1> HIDE DEF t, r
<1>6. Fits(t, sGraph)
  BY <1>3, <1>4, <1>5 DEF Fits, Loop, Applying
<1> QED BY <1>1, <1>2, <1>4, <1>6, ContinuesTo
           DEF Unremarkable, S!Steps, Loop, Applying, S!TakesTheLock, S!world, t

\* An evolution takes up its commits and reads the documents.
LEMMA AnalyzeStep == ASSUME SInv, NEW p \in Procs, S!Analyze(p) PROVE SInv'
<1> DEFINE r == sRun[p]
           t == sRun'[p]
           range == IF r.from = 0 THEN {sHead} ELSE r.from + 1..sHead
           taken == S!Matched(range \ {0})
           step == IF range \ {0} = {} THEN "release" ELSE "persist"
<1>1. WorldOK' /\ ~S!At(p, "idle") /\ ~S!Halfway(p)
  BY WorldIs DEF S!Analyze, S!world, WorldOK, S!At, S!Halfway
<1>2. t = [r EXCEPT !.at = step, !.upto = sHead, !.took = taken, !.todo = taken,
                    !.seen = S!Readable]
      /\ sRun' = [sRun EXCEPT ![p] = t]
  BY Facts DEF S!Analyze
<1>3. r \in S!Commands /\ Fits(r, sGraph) /\ r.at = "begin"
  BY Facts DEF S!Analyze, S!At
<1>4. sHead \in 0..Last /\ Last \in Nat /\ r.from \in 0..Last
  BY <1>3, Numbers DEF SInv, S!TypeOK, Fits, S!Commands
<1>5. range \ {0} \subseteq S!Commits
  <2> HIDE DEF r
  <2> QED BY <1>4 DEF S!Commits
<1> HIDE DEF range
<1>6. taken \subseteq S!Commits /\ \A c \in taken : Scope[c] \in Specs
  <2>1. taken \subseteq S!Commits /\ \A c \in taken : Scope[c] # S!Unscoped
    BY <1>5 DEF S!Matched
  <2> QED BY <2>1, GraphsAssumption DEF S!SpecGraphAssumption
<1>7. step \in {"release", "persist"} /\ S!Readable \in [Specs -> S!Texts]
  BY ReadableIs
<1> HIDE DEF taken, step
<1>8. t.at = step /\ t.took = taken /\ t.todo = taken /\ t.hit = r.hit
      /\ t.due = r.due /\ t.job = r.job /\ t.seen = S!Readable
  BY <1>2, <1>3 DEF S!Commands
<1>9. t \in S!Commands
  BY <1>2, <1>3, <1>4, <1>6, <1>7 DEF S!Commands, S!Steps
<1> HIDE DEF t, r
<1>10. r.hit = {}
  BY <1>3 DEF Fits
<1>11. Fits(t, sGraph)
  BY <1>3, <1>6, <1>7, <1>8, <1>9, <1>10 DEF Fits, Loop, Applying
<1>12. Remembers(p)'
  BY <1>7, <1>8 DEF Remembers, S!Analyze, S!Readable, Loop, Applying, t
<1> QED BY <1>1, <1>2, <1>11, <1>12, Continues DEF S!Analyze, S!world, t

\* A transaction fails, and the phase ends.
LEMMA PersistFailsStep == ASSUME SInv, NEW p \in Procs, S!PersistFails(p) PROVE SInv'
<1> DEFINE r == sRun[p]
           t == sRun'[p]
<1>1. WorldOK' /\ ~S!At(p, "idle") /\ ~S!Halfway(p)
  BY WorldIs DEF S!PersistFails, S!world, WorldOK, S!At, S!Halfway
<1>2. t = [r EXCEPT !.todo = {}] /\ sRun' = [sRun EXCEPT ![p] = t]
  BY Facts DEF S!PersistFails
<1>3. r \in S!Commands /\ Fits(r, sGraph) /\ r.at = "persist"
  BY Facts DEF S!PersistFails, S!At
<1>4. t.at = "persist" /\ t.took = r.took /\ t.todo = {} /\ t.hit = r.hit
      /\ t.due = r.due /\ t.job = r.job /\ t.seen = r.seen
  BY <1>2, <1>3 DEF S!Commands
<1>5. t \in S!Commands
  BY <1>2, <1>3 DEF S!Commands
<1> HIDE DEF t
<1>6. Fits(t, sGraph)
  <2> HIDE DEF r
  <2> QED BY <1>3, <1>4, <1>5 DEF Fits, Loop, Applying
<1>7. ~sOverlapped => r.seen = S!Readable
  BY <1>3 DEF SInv, Sole, Remembers
<1>8. ~sOverlapped => Remembers(p)'
  BY <1>4, <1>7 DEF Remembers, S!PersistFails, S!Readable, Loop, Applying, t
<1> QED BY <1>1, <1>2, <1>6, <1>8, Continues DEF S!PersistFails, S!world, t

\* All commits are persisted, or the rest given up.
LEMMA PhaseOneEndsStep == ASSUME SInv, NEW p \in Procs, S!PhaseOneEnds(p) PROVE SInv'
<1> DEFINE r == sRun[p]
           t == sRun'[p]
<1>1. WorldOK' /\ ~S!At(p, "idle") /\ ~S!Halfway(p)
  BY WorldIs DEF S!PhaseOneEnds, S!world, WorldOK, S!At, S!Halfway
<1>2. PICK step :
        /\ sRun' = [sRun EXCEPT ![p].at = step]
        /\ \/ r.hit = {} /\ step \in {"release", "range"}
           \/ r.hit # {} /\ step \in {"advance", "locate"}
  BY GraphsAssumption DEF S!PhaseOneEnds, S!Goto, S!Single, S!SpecGraphAssumption
<1>3. r \in S!Commands /\ Fits(r, sGraph) /\ r.at = "persist"
  BY Facts DEF S!PhaseOneEnds, S!At
<1>4. t = [r EXCEPT !.at = step] /\ sRun' = [sRun EXCEPT ![p] = t]
  BY <1>2, Facts
<1>5. t.at = step /\ t.took = r.took /\ t.todo = r.todo /\ t.hit = r.hit
      /\ t.due = r.due /\ t.job = r.job
  BY <1>3, <1>4 DEF S!Commands
<1>6. step \in {"release", "range", "advance", "locate"}
  BY <1>2
<1>7. t \in S!Commands
  BY <1>3, <1>4, <1>6 DEF S!Commands, S!Steps
<1> HIDE DEF t, r
<1>8. Fits(t, sGraph)
  BY <1>2, <1>3, <1>5, <1>7 DEF Fits, Loop, Applying
<1> QED BY <1>1, <1>4, <1>5, <1>6, <1>8, ContinuesTo
           DEF Unremarkable, S!Steps, Loop, Applying, S!PhaseOneEnds, S!world, t

\* An evolution writes meta.json.
LEMMA AdvanceStep == ASSUME SInv, NEW p \in Procs, S!Advance(p) PROVE SInv'
<1> DEFINE r == sRun[p]
           t == sRun'[p]
<1>1. r \in S!Commands /\ Fits(r, sGraph) /\ r.at = "advance" /\ r.hit # {}
  BY Facts DEF S!Advance, S!At, Fits
<1>2. S!Max(r.hit) \in S!Commits
  <2>1. r.hit \subseteq S!Commits /\ r.hit # {}
    BY <1>1 DEF S!Commands
  <2> HIDE DEF r
  <2> QED BY <2>1, MaxIs
<1>3. WorldOK' /\ ~S!At(p, "idle") /\ ~S!Halfway(p)
  <2>1. sMeta' \in -1..Last
    BY <1>2, Numbers DEF S!Advance, S!LastSuccess, S!Commits
  <2> QED BY <2>1, WorldIs DEF S!Advance, S!world, WorldOK, S!At, S!Halfway
<1>4. PICK step \in {"locate", "release"} : sRun' = [sRun EXCEPT ![p].at = step]
  BY DEF S!Advance, S!Goto
<1>5. t = [r EXCEPT !.at = step] /\ sRun' = [sRun EXCEPT ![p] = t]
  BY <1>4, Facts
<1>6. t.at = step /\ t.took = r.took /\ t.todo = r.todo /\ t.hit = r.hit
      /\ t.due = r.due /\ t.job = r.job
  BY <1>1, <1>5 DEF S!Commands
<1>7. t \in S!Commands
  BY <1>1, <1>5 DEF S!Commands, S!Steps
<1> HIDE DEF t, r
<1>8. Fits(t, sGraph)
  BY <1>1, <1>6, <1>7 DEF Fits, Loop, Applying
<1> QED BY <1>3, <1>5, <1>6, <1>8, ContinuesTo
           DEF Unremarkable, S!Steps, Loop, Applying, S!Advance, S!world, t

\* The affected specs are in the graph, with commits that are in it.
LEMMA AffectedAre ==
  ASSUME NEW g, NEW hit, hit \subseteq S!Commits
  PROVE  /\ S!Affected(g, hit) \subseteq Specs \X S!Commits
         /\ \A d \in S!Affected(g, hit) : <<d[1], 0>> \in DOMAIN g.nodes /\ d[2] \in hit
<1> SUFFICES ASSUME NEW d \in S!Affected(g, hit)
             PROVE  /\ d \in Specs \X S!Commits
                    /\ <<d[1], 0>> \in DOMAIN g.nodes /\ d[2] \in hit
  OBVIOUS
<1> DEFINE Affecting(s) == {c \in hit : Touches[c] \cap S!PathsOf(g, <<s, 0>>) # {}}
<1>1. PICK s \in Specs : <<s, 0>> \in DOMAIN g.nodes /\ Affecting(s) # {}
                         /\ d = <<s, S!Max(Affecting(s))>>
  BY DEF S!Affected
<1>2. Affecting(s) \subseteq S!Commits /\ Affecting(s) \subseteq hit
  OBVIOUS
<1> HIDE DEF Affecting
<1>3. S!Max(Affecting(s)) \in Affecting(s)
  BY <1>1, <1>2, MaxIs
<1> QED BY <1>1, <1>2, <1>3

\* The affected specs are located.
LEMMA LocateStep == ASSUME SInv, NEW p \in Procs, S!Locate(p) PROVE SInv'
<1> DEFINE r == sRun[p]
           t == sRun'[p]
<1>1. WorldOK' /\ ~S!At(p, "idle") /\ ~S!Halfway(p)
  BY WorldIs DEF S!Locate, S!world, WorldOK, S!At, S!Halfway
<1>2. r \in S!Commands /\ Fits(r, sGraph) /\ r.at = "locate"
  BY Facts DEF S!Locate, S!At
<1>3. r.hit # {} /\ r.hit \subseteq S!Commits /\ r.hit \subseteq sGraph.commits
  BY <1>2 DEF Fits, S!Commands
<1>4. PICK due : /\ sRun' = [sRun EXCEPT ![p].due = due, ![p].at = "judge"]
                 /\ due \in {S!Affected(sGraph, r.hit), {}}
  BY DEF S!Locate
<1>5. due \subseteq Specs \X S!Commits
      /\ \A d \in due : <<d[1], 0>> \in DOMAIN sGraph.nodes /\ d[2] \in sGraph.commits
  <2> HIDE DEF r
  <2> QED BY <1>3, <1>4, AffectedAre
<1>6. t = [r EXCEPT !.due = due, !.at = "judge"] /\ sRun' = [sRun EXCEPT ![p] = t]
  BY <1>4, Facts
<1>7. t.at = "judge" /\ t.took = r.took /\ t.todo = r.todo /\ t.hit = r.hit
      /\ t.due = due /\ t.job = r.job
  BY <1>2, <1>6 DEF S!Commands
<1>8. t \in S!Commands
  BY <1>2, <1>5, <1>6 DEF S!Commands, S!Steps
<1> HIDE DEF t, r
<1>9. Fits(t, sGraph)
  BY <1>2, <1>3, <1>5, <1>7, <1>8 DEF Fits, Loop, Applying
<1> QED BY <1>1, <1>6, <1>7, <1>9, ContinuesTo
           DEF Unremarkable, S!Steps, Loop, Applying, S!Locate, S!world, t

\* An affected spec is read.
LEMMA JudgeStep == ASSUME SInv, NEW p \in Procs, S!Judge(p) PROVE SInv'
<1> DEFINE r == sRun[p]
           t == sRun'[p]
           d == S!Next1(p)
           s == d[1]
           version == sGraph.nodes[<<s, 0>>].version
<1>1. WorldOK' /\ ~S!At(p, "idle") /\ ~S!Halfway(p)
  BY WorldIs DEF S!Judge, S!world, WorldOK, S!At, S!Halfway
<1>2. r \in S!Commands /\ Fits(r, sGraph) /\ r.at = "judge" /\ r.due # {}
  BY Facts DEF S!Judge, S!At
<1>3. d \in r.due
  <2>1. sRun[p].due \subseteq Specs \X S!Commits
    BY <1>2 DEF S!Commands
  <2> QED BY <1>2, <2>1, NextIsDue
<1> HIDE DEF d
<1>4. s \in Specs /\ <<s, 0>> \in DOMAIN sGraph.nodes
  BY <1>2, <1>3 DEF Fits, S!Commands
<1>5. CASE sDisk[s].plan = S!NoText
  <2>1. t = [r EXCEPT !.due = @ \ {d}] /\ sRun' = [sRun EXCEPT ![p] = t]
    BY <1>5, Facts DEF S!Judge, d
  <2>2. t.at = "judge" /\ t.took = r.took /\ t.todo = r.todo /\ t.hit = r.hit
        /\ t.due = r.due \ {d} /\ t.job = r.job
    BY <1>2, <2>1 DEF S!Commands
  <2>3. t \in S!Commands
    <3>1. r.due \ {d} \subseteq Specs \X S!Commits
      BY <1>2 DEF S!Commands
    <3> QED BY <1>2, <2>1, <3>1 DEF S!Commands
  <2> HIDE DEF t, r
  <2>4. Fits(t, sGraph)
    BY <1>2, <2>2, <2>3 DEF Fits, Loop, Applying
  <2> QED BY <1>1, <2>1, <2>2, <2>4, ContinuesTo
             DEF Unremarkable, S!Steps, Loop, Applying, S!Judge, S!world, t
<1>6. CASE sDisk[s].plan # S!NoText
  <2>1. t = [r EXCEPT !.at = "await", !.spec = s, !.version = version]
        /\ sRun' = [sRun EXCEPT ![p] = t]
    BY <1>6, Facts DEF S!Judge, d
  <2>2. version \in Nat \ {0}
    BY <1>4 DEF SInv, S!TypeOK, S!IsGraph, S!Records
  <2> HIDE DEF s, version
  <2>3. t.at = "await" /\ t.took = r.took /\ t.todo = r.todo /\ t.hit = r.hit
        /\ t.due = r.due /\ t.job = r.job /\ t.spec = s /\ t.version = version
    BY <1>2, <2>1 DEF S!Commands
  <2>4. t \in S!Commands
    BY <1>2, <1>4, <2>1, <2>2 DEF S!Commands, S!Steps
  <2> HIDE DEF t, r
  <2>5. Fits(t, sGraph)
    BY <1>2, <1>4, <2>2, <2>3, <2>4 DEF Fits, Loop, Applying
  <2>6. sGraph' = sGraph /\ sDisk' = sDisk /\ sCut' = sCut
    BY DEF S!Judge
  <2>7. Remembers(p)'
    BY <1>6, <2>3, <2>6 DEF Remembers, Loop, Applying, t, version
  <2> QED BY <1>1, <2>1, <2>5, <2>7, Continues DEF S!Judge, S!world, t
<1> QED BY <1>5, <1>6

\* No affected spec is left.
LEMMA AllJudgedStep == ASSUME SInv, NEW p \in Procs, S!AllJudged(p) PROVE SInv'
<1> DEFINE r == sRun[p]
           t == sRun'[p]
<1>1. WorldOK' /\ ~S!At(p, "idle") /\ ~S!Halfway(p)
  BY WorldIs DEF S!AllJudged, S!world, WorldOK, S!At, S!Halfway
<1>2. r \in S!Commands /\ Fits(r, sGraph) /\ r.at = "judge"
  BY Facts DEF S!AllJudged, S!At
<1>3. PICK step \in {"release", "advance"} : sRun' = [sRun EXCEPT ![p].at = step]
  BY DEF S!AllJudged, S!Goto
<1>4. t = [r EXCEPT !.at = step] /\ sRun' = [sRun EXCEPT ![p] = t]
  BY <1>3, Facts
<1>5. t.at = step /\ t.took = r.took /\ t.todo = r.todo /\ t.hit = r.hit
      /\ t.due = r.due /\ t.job = r.job
  BY <1>2, <1>4 DEF S!Commands
<1>6. t \in S!Commands
  BY <1>2, <1>4 DEF S!Commands, S!Steps
<1> HIDE DEF t, r
<1>7. Fits(t, sGraph)
  BY <1>2, <1>5, <1>6 DEF Fits, Loop, Applying
<1> QED BY <1>1, <1>4, <1>5, <1>7, ContinuesTo
           DEF Unremarkable, S!Steps, Loop, Applying, S!AllJudged, S!world, t

\* The command is done with an affected spec.
Resumes(p, g) ==
  /\ sRun' = [sRun EXCEPT ![p] = sRun'[p]] /\ Fits(sRun'[p], g) /\ sRun'[p].at = "judge"

\* Then what the command remembers is about the graph still.
LEMMA Onwards ==
  ASSUME SInv, NEW p \in Procs, sRun[p].at \in Applying, S!Onward(p)
  PROVE  Resumes(p, sGraph)
<1> DEFINE r == sRun[p]
           t == sRun'[p]
           left == r.due \ {S!Next1(p)}
<1>1. r \in S!Commands /\ Fits(r, sGraph) /\ r.hit # {}
  BY Facts DEF Fits
<1>2. t = [r EXCEPT !.at = "judge", !.due = left] /\ sRun' = [sRun EXCEPT ![p] = t]
  BY Facts DEF S!Onward
<1>3. left \subseteq r.due /\ left \subseteq Specs \X S!Commits
  BY <1>1 DEF S!Commands
<1> HIDE DEF left
<1>4. t.at = "judge" /\ t.took = r.took /\ t.todo = r.todo /\ t.hit = r.hit
      /\ t.due = left /\ t.job = r.job
  BY <1>1, <1>2 DEF S!Commands
<1>5. t \in S!Commands
  BY <1>1, <1>2, <1>3 DEF S!Commands, S!Steps
<1> HIDE DEF t, r
<1>6. Fits(t, sGraph)
  BY <1>1, <1>3, <1>4, <1>5 DEF Fits, Loop, Applying
<1> QED BY <1>2, <1>4, <1>6 DEF Resumes, t

\* Without a change of the graph that keeps the invariant.
LEMMA GoesOn ==
  ASSUME SInv, NEW p \in Procs, sRun[p].at \in Applying, S!Onward(p),
         UNCHANGED <<sGraph, sDisk, sTorn, sOverlapped>>, WorldOK',
         sCut' = IF S!Halfway(p) THEN sCut \cup {sRun[p].spec} ELSE sCut
  PROVE  SInv'
<1>1. Resumes(p, sGraph)
  BY Onwards
<1>2. ~S!At(p, "idle")
  BY DEF Applying, S!At
<1>3. Remembers(p)'
  BY <1>1 DEF Resumes, Remembers, Loop, Applying
<1> QED BY <1>1, <1>2, <1>3, Continues DEF Resumes

\* The spec is left alone.
LEMMA KeepsStep == ASSUME SInv, NEW p \in Procs, S!Keeps(p) PROVE SInv'
<1>1. WorldOK' /\ sRun[p].at \in Applying /\ ~S!Halfway(p)
  BY WorldIs DEF S!Keeps, S!world, WorldOK, Applying, S!At, S!Halfway
<1> QED BY <1>1, GoesOn DEF S!Keeps, S!world

\* The rewrite fails before the files are touched.
LEMMA RewriteFailsStep == ASSUME SInv, NEW p \in Procs, S!RewriteFails(p) PROVE SInv'
<1>1. WorldOK' /\ sRun[p].at \in Applying /\ ~S!Halfway(p)
  BY WorldIs DEF S!RewriteFails, S!world, WorldOK, Applying, S!At, S!Halfway
<1> QED BY <1>1, GoesOn DEF S!RewriteFails, S!world

\* The rewrite fails after the files were renamed.
LEMMA CommitFailsStep == ASSUME SInv, NEW p \in Procs, S!CommitFails(p) PROVE SInv'
<1>1. WorldOK' /\ sRun[p].at \in Applying /\ S!Halfway(p)
  BY WorldIs DEF S!CommitFails, S!world, WorldOK, Applying, S!At, S!Halfway
<1> QED BY <1>1, GoesOn DEF S!CommitFails, S!world

\* A step of no command keeps the invariant.
LEMMA ElsewhereStep ==
  ASSUME SInv, WorldOK', UNCHANGED <<sGraph, sDisk, sRun, sTorn, sCut, sOverlapped>>
  PROVE  SInv'
<1>1. S!TypeOK'
  BY DEF SInv, S!TypeOK, WorldOK
<1>2. Sole'
  BY DEF SInv, Sole, Alone, Remembers, S!At, S!Readable
<1>3. S!RecordsMatchTheFiles'
  BY DEF SInv, S!RecordsMatchTheFiles, S!Halfway, S!At
<1>4. S!CommitsAreWhole' /\ S!VersionsAreChained'
  BY DEF SInv, S!CommitsAreWhole, S!VersionsAreChained
<1> QED BY <1>1, <1>2, <1>3, <1>4 DEF SInv

\* The user commits.
LEMMA UserCommitsStep == ASSUME SInv, S!UserCommits PROVE SInv'
<1>1. WorldOK'
  BY WorldIs, Numbers DEF S!UserCommits, WorldOK
<1> QED BY <1>1, ElsewhereStep DEF S!UserCommits

\* The lock goes stale.
LEMMA LockAgesStep == ASSUME SInv, S!LockAges PROVE SInv'
<1>1. WorldOK'
  BY WorldIs DEF S!LockAges, S!world, WorldOK
<1> QED BY <1>1, ElsewhereStep DEF S!LockAges, S!world

\* Nothing happens.
LEMMA StutterStep == ASSUME SInv, UNCHANGED S!vars PROVE SInv'
<1>1. WorldOK'
  BY WorldIs DEF S!vars, WorldOK
<1> QED BY <1>1, ElsewhereStep DEF S!vars

-----------------------------------------------------------------------------
(* The steps that change the documents.                                      *)

\* A step on the document that the command is halfway with keeps the invariant.
LEMMA DiskStep ==
  ASSUME SInv, NEW p \in Procs, Moves(p), UNCHANGED <<sGraph, sTorn, sCut>>,
         S!Halfway(p) => S!Halfway(p)' /\ sRun'[p].spec = sRun[p].spec,
         \A s \in Specs : \/ sDisk'[s].plan = sDisk[s].plan /\ sDisk'[s].bak = sDisk[s].bak
                          \/ S!Halfway(p)' /\ sRun'[p].spec = s
  PROVE  SInv'
<1>1. /\ S!TypeOK' /\ (\A q \in Procs : Fits(sRun[q], sGraph))' /\ Sole'
      /\ ~sOverlapped' => \A q \in Procs \ {p} : S!At(q, "idle") /\ S!At(q, "idle")'
  BY Moved
<1>2. ~sOverlapped' => ~sOverlapped
  BY DEF Moves, StillAlone
<1>3. S!CommitsAreWhole'
  BY DEF SInv, S!CommitsAreWhole
<1>4. S!VersionsAreChained'
  BY <1>2 DEF SInv, S!VersionsAreChained
<1>5. S!RecordsMatchTheFiles'
  <2> SUFFICES ASSUME ~sOverlapped', NEW s \in Specs \ sCut,
                      \A q \in Procs : S!Halfway(q)' => sRun'[q].spec # s
               PROVE  S!Describes(sGraph, sDisk', s)
    BY DEF S!RecordsMatchTheFiles
  <2>1. \A q \in Procs : S!Halfway(q) => sRun[q].spec # s
    <3> SUFFICES ASSUME NEW q \in Procs, S!Halfway(q) PROVE sRun[q].spec # s
      OBVIOUS
    <3>1. q = p
      BY <1>1 DEF S!Halfway, S!At
    <3> QED BY <3>1
  <2>2. S!Describes(sGraph, sDisk, s)
    BY <1>2, <2>1 DEF SInv, S!RecordsMatchTheFiles
  <2> QED BY <2>2 DEF S!Describes
<1> QED BY <1>1, <1>3, <1>4, <1>5 DEF SInv

\* What a step on a document or the graph leaves alone.
Undisturbed ==
  WorldOK' /\ S!IsGraph(sGraph) /\ sTorn \subseteq S!Commits /\ sCut \subseteq Specs
  /\ Grows(sGraph, sGraph)

\* That is so throughout.
LEMMA UndisturbedIs == ASSUME SInv, WorldOK' PROVE Undisturbed
BY DEF SInv, S!TypeOK, Undisturbed, Grows

\* Mining writes a document.
LEMMA MineWritesStep == ASSUME SInv, NEW p \in Procs, S!MineWrites(p) PROVE SInv'
<1> DEFINE r == sRun[p]
           t == sRun'[p]
           s == Mined[r.upto]
           text == sDisk[s].rewritten + 1
           file == [sDisk[s] EXCEPT !.plan = text, !.rewritten = text]
           seen == [r.seen EXCEPT ![s] = text]
<1>1. Undisturbed /\ ~S!At(p, "idle") /\ ~S!Halfway(p)
  <2>1. WorldOK'
    BY WorldIs DEF S!MineWrites, S!world, WorldOK
  <2> QED BY <2>1, UndisturbedIs DEF S!MineWrites, S!At, S!Halfway
<1>2. r \in S!Commands /\ Fits(r, sGraph) /\ r.at = "cluster"
  BY Facts DEF S!MineWrites, S!At
<1>3. r.upto \in S!Commits /\ r.job # "build" /\ r.hit = {} /\ r.took = r.todo
      /\ r.todo # {}
  BY <1>2 DEF Fits
<1>4. s \in Specs
  BY <1>3, GraphsAssumption DEF S!SpecGraphAssumption
<1>5. sDisk \in [Specs -> S!DocumentFiles] /\ text \in Nat /\ text \in S!Texts
      /\ text # S!NoText
  <2>1. sDisk \in [Specs -> S!DocumentFiles]
    BY DEF SInv, S!TypeOK
  <2>2. sDisk[s].rewritten \in Nat
    BY <1>4, <2>1 DEF S!DocumentFiles
  <2> QED BY <2>1, <2>2 DEF S!Texts, S!NoText
<1>6. /\ t = [r EXCEPT !.at = "spec", !.spec = s, !.seen = seen]
      /\ sRun' = [sRun EXCEPT ![p] = t] /\ sDisk' = [sDisk EXCEPT ![s] = file]
  BY <1>4, <1>5, Facts DEF S!MineWrites
<1> HIDE DEF text, s
<1>7. file \in S!DocumentFiles /\ file.plan = text
  BY <1>4, <1>5 DEF S!DocumentFiles
<1>8. seen \in [Specs -> S!Texts] /\ seen[s] = text
  BY <1>2, <1>4, <1>5 DEF S!Commands
<1> HIDE DEF file, seen
<1>9. /\ sDisk' \in [Specs -> S!DocumentFiles] /\ sDisk'[s].plan = text
      /\ \A x \in Specs \ {s} : sDisk'[x] = sDisk[x]
  BY <1>4, <1>5, <1>6, <1>7
<1>10. t.at = "spec" /\ t.took = r.took /\ t.todo = r.todo /\ t.hit = r.hit
      /\ t.due = r.due /\ t.job = r.job /\ t.spec = s /\ t.seen[s] = text
  BY <1>2, <1>6, <1>8 DEF S!Commands
<1>11. t \in S!Commands
  BY <1>2, <1>4, <1>6, <1>8 DEF S!Commands, S!Steps
<1> HIDE DEF t, r
<1>12. Fits(t, sGraph)
  BY <1>2, <1>3, <1>4, <1>5, <1>10, <1>11 DEF Fits, Loop, Applying
<1>13. Remembers(p)'
  BY <1>3, <1>9, <1>10 DEF Remembers, Loop, Applying, t
<1>14. UNCHANGED <<sGraph, sTorn, sCut, sOverlapped>> /\ S!Halfway(p)' /\ sRun'[p].spec = s
  BY <1>3, <1>10 DEF S!MineWrites, S!world, S!Halfway, S!At, t
<1>15. Moves(p)
  BY <1>1, <1>6, <1>9, <1>12, <1>13, <1>14 DEF Moves, StillAlone, Undisturbed, t
<1> QED BY <1>1, <1>9, <1>14, <1>15, DiskStep

\* The new text is written, and the transaction begins.
LEMMA RewritesStep == ASSUME SInv, NEW p \in Procs, S!Rewrites(p) PROVE SInv'
<1> DEFINE r == sRun[p]
           t == sRun'[p]
           s == r.spec
           text == sDisk[s].rewritten + 1
           file == [sDisk[s] EXCEPT !.new = text, !.rewritten = text]
           seen == [r.seen EXCEPT ![s] = text]
           due == IF sWriter = S!Nobody THEN r.due ELSE r.due \ {S!Next1(p)}
           step == IF sWriter = S!Nobody THEN "backup" ELSE "judge"
<1>1. Undisturbed /\ ~S!At(p, "idle") /\ ~S!Halfway(p)
  <2>1. WorldOK'
    BY WorldIs DEF S!Rewrites, S!world, WorldOK
  <2> QED BY <2>1, UndisturbedIs DEF S!Rewrites, S!At, S!Halfway
<1>2. r \in S!Commands /\ Fits(r, sGraph) /\ r.at = "await"
  BY Facts DEF S!Rewrites, S!At
<1>3. s \in Specs /\ r.due # {} /\ <<s, 0>> \in DOMAIN sGraph.nodes /\ r.hit # {}
      /\ r.version # 0
  BY <1>2 DEF Fits, Applying
<1>4. sDisk \in [Specs -> S!DocumentFiles] /\ text \in Nat /\ text \in S!Texts
      /\ text # S!NoText
  <2>1. sDisk \in [Specs -> S!DocumentFiles]
    BY DEF SInv, S!TypeOK
  <2>2. sDisk[s].rewritten \in Nat
    BY <1>3, <2>1 DEF S!DocumentFiles
  <2> QED BY <2>1, <2>2 DEF S!Texts, S!NoText
<1>5. /\ t = [r EXCEPT !.seen = seen, !.at = step, !.due = due]
      /\ sRun' = [sRun EXCEPT ![p] = t] /\ sDisk' = [sDisk EXCEPT ![s] = file]
  BY <1>3, <1>4, Facts DEF S!Rewrites
<1>6. /\ step \in {"backup", "judge"} /\ due \subseteq r.due
      /\ due \subseteq Specs \X S!Commits
      /\ step = "backup" => due # {}
  BY <1>2, <1>3 DEF S!Commands
<1> HIDE DEF text, s, due, step
<1>7. file \in S!DocumentFiles /\ file.new = text
       /\ file.plan = sDisk[s].plan /\ file.bak = sDisk[s].bak
  BY <1>3, <1>4 DEF S!DocumentFiles
<1>8. seen \in [Specs -> S!Texts] /\ seen[s] = text
  BY <1>2, <1>3, <1>4 DEF S!Commands
<1> HIDE DEF file, seen
<1>9. /\ sDisk' \in [Specs -> S!DocumentFiles] /\ sDisk'[s].new = text
      /\ \A x \in Specs : sDisk'[x].plan = sDisk[x].plan /\ sDisk'[x].bak = sDisk[x].bak
  BY <1>3, <1>4, <1>5, <1>7
<1>10. t.at = step /\ t.took = r.took /\ t.todo = r.todo /\ t.hit = r.hit
      /\ t.due = due /\ t.job = r.job /\ t.spec = s /\ t.seen[s] = text
      /\ t.version = r.version
  BY <1>2, <1>5, <1>8 DEF S!Commands, s
<1>11. t \in S!Commands
  BY <1>2, <1>6, <1>5, <1>8 DEF S!Commands, S!Steps
<1>12. Fits(t, sGraph)
  <2> HIDE DEF t, r
  <2> QED BY <1>2, <1>3, <1>6, <1>10, <1>11 DEF Fits, Loop, Applying
<1>13. UNCHANGED <<sGraph, sTorn, sCut, sOverlapped>>
  BY DEF S!Rewrites, S!world
<1>14. ~sOverlapped => Remembers(p)'
  <2> SUFFICES ASSUME ~sOverlapped PROVE Remembers(p)'
    OBVIOUS
  <2>1. r.version = sGraph.nodes[<<s, 0>>].version /\ sDisk[s].plan # S!NoText
    BY <1>2 DEF SInv, Sole, Remembers, Applying, s
  <2> HIDE DEF r
  <2> QED BY <1>3, <1>6, <1>4, <1>9, <1>10, <1>13, <2>1 DEF Remembers, Loop, Applying, t
<1> HIDE DEF t, r
<1>15. Moves(p)
  BY <1>1, <1>5, <1>9, <1>12, <1>13, <1>14 DEF Moves, StillAlone, Undisturbed, t
<1> QED BY <1>1, <1>9, <1>13, <1>15, DiskStep

\* A rename leaves documents.
LEMMA RenamedIs ==
  ASSUME NEW file \in S!DocumentFiles, NEW from \in {"plan", "new"},
         NEW to \in {"bak", "plan"}
  PROVE  S!Renamed(file, from, to) \in S!DocumentFiles
BY DEF S!Renamed, S!DocumentFiles, S!Texts

\* The document becomes the .bak: the record still has its text.
LEMMA BackupStep == ASSUME SInv, NEW p \in Procs, S!Backup(p) PROVE SInv'
<1> DEFINE r == sRun[p]
           t == sRun'[p]
           s == r.spec
<1>1. Undisturbed /\ ~S!At(p, "idle") /\ ~S!Halfway(p)
  <2>1. WorldOK'
    BY WorldIs DEF S!Backup, S!world, WorldOK
  <2> QED BY <2>1, UndisturbedIs DEF S!Backup, S!At, S!Halfway
<1>2. r \in S!Commands /\ Fits(r, sGraph) /\ r.at = "backup"
  BY Facts DEF S!Backup, S!At
<1>3. s \in Specs /\ r.due # {} /\ <<s, 0>> \in DOMAIN sGraph.nodes /\ r.hit # {}
      /\ r.version # 0
  BY <1>2 DEF Fits, Applying
<1>4. sDisk \in [Specs -> S!DocumentFiles]
  BY DEF SInv, S!TypeOK
<1>5. /\ t = [r EXCEPT !.at = "install"]
      /\ sRun' = [sRun EXCEPT ![p] = t]
      /\ sDisk' = [sDisk EXCEPT ![s] = S!SetsAside(sDisk[s])]
  BY Facts DEF S!Backup, S!Goto
<1>6. /\ sDisk' \in [Specs -> S!DocumentFiles] /\ sDisk'[s] = S!SetsAside(sDisk[s])
      /\ \A x \in Specs \ {s} : sDisk'[x] = sDisk[x]
  <2>1. S!SetsAside(sDisk[s]) \in S!DocumentFiles
    BY <1>3, <1>4, RenamedIs DEF S!SetsAside
  <2> QED BY <1>3, <1>4, <1>5, <2>1
<1>7. t.at = "install" /\ t.took = r.took /\ t.todo = r.todo /\ t.hit = r.hit
      /\ t.due = r.due /\ t.job = r.job /\ t.spec = s /\ t.seen = r.seen
      /\ t.version = r.version
  BY <1>2, <1>5 DEF S!Commands
<1>8. t \in S!Commands
  BY <1>2, <1>5 DEF S!Commands, S!Steps
<1> HIDE DEF s
<1>9. Fits(t, sGraph)
  <2> HIDE DEF t, r
  <2> QED BY <1>2, <1>3, <1>7, <1>8 DEF Fits, Loop, Applying
<1>10. UNCHANGED <<sGraph, sTorn, sCut, sOverlapped>>
  BY DEF S!Backup, S!world
<1>11. ~sOverlapped => Remembers(p)'
  <2> SUFFICES ASSUME ~sOverlapped PROVE Remembers(p)'
    OBVIOUS
  <2>1. /\ r.version = sGraph.nodes[<<s, 0>>].version /\ sDisk[s].plan # S!NoText
        /\ sDisk[s].new = r.seen[s] /\ r.seen[s] # S!NoText /\ Alone
    BY <1>2 DEF SInv, Sole, Remembers, Applying, s
  <2>2. sDisk'[s].bak = sDisk[s].plan /\ sDisk'[s].new = sDisk[s].new
    BY <1>3, <1>4, <1>6, <2>1 DEF S!SetsAside, S!Renamed, S!DocumentFiles
  <2>3. s \in sCut \/ S!Describes(sGraph, sDisk, s)
    <3>1. \A q \in Procs : ~S!Halfway(q)
      BY <1>1, <2>1 DEF Alone, S!Halfway, S!At
    <3> QED BY <1>3, <3>1 DEF SInv, S!RecordsMatchTheFiles
  <2>4. s \in sCut \/ sDisk'[s].bak = sGraph.nodes[<<s, 0>>].text
    BY <1>3, <2>2, <2>3 DEF S!Describes
  <2> HIDE DEF r
  <2> QED BY <1>7, <1>10, <2>1, <2>2, <2>4 DEF Remembers, Loop, Applying, t
<1>12. S!Halfway(p)' /\ sRun'[p].spec = s
  BY <1>7 DEF S!Halfway, t
<1> HIDE DEF t, r
<1>13. Moves(p)
  BY <1>1, <1>5, <1>6, <1>9, <1>10, <1>11 DEF Moves, StillAlone, Undisturbed, t
<1> QED BY <1>1, <1>6, <1>10, <1>12, <1>13, DiskStep

\* The .new becomes the document.
LEMMA InstallStep == ASSUME SInv, NEW p \in Procs, S!Install(p) PROVE SInv'
<1> DEFINE r == sRun[p]
           t == sRun'[p]
           s == r.spec
<1>1. Undisturbed /\ ~S!At(p, "idle")
  <2>1. WorldOK'
    BY WorldIs DEF S!Install, S!world, WorldOK
  <2> QED BY <2>1, UndisturbedIs DEF S!Install, S!At
<1>2. r \in S!Commands /\ Fits(r, sGraph) /\ r.at = "install"
  BY Facts DEF S!Install, S!At
<1>3. s \in Specs /\ r.due # {} /\ <<s, 0>> \in DOMAIN sGraph.nodes /\ r.hit # {}
      /\ r.version # 0
  BY <1>2 DEF Fits, Applying
<1>4. sDisk \in [Specs -> S!DocumentFiles]
  BY DEF SInv, S!TypeOK
<1>5. /\ t = [r EXCEPT !.at = "commit"]
      /\ sRun' = [sRun EXCEPT ![p] = t]
      /\ sDisk' = [sDisk EXCEPT ![s] = S!Renamed(sDisk[s], "new", "plan")]
  BY Facts DEF S!Install, S!Goto
<1>6. /\ sDisk' \in [Specs -> S!DocumentFiles]
      /\ sDisk'[s] = S!Renamed(sDisk[s], "new", "plan")
      /\ \A x \in Specs \ {s} : sDisk'[x] = sDisk[x]
  <2>1. S!Renamed(sDisk[s], "new", "plan") \in S!DocumentFiles
    BY <1>3, <1>4, RenamedIs
  <2> QED BY <1>3, <1>4, <1>5, <2>1
<1>7. t.at = "commit" /\ t.took = r.took /\ t.todo = r.todo /\ t.hit = r.hit
      /\ t.due = r.due /\ t.job = r.job /\ t.spec = s /\ t.seen = r.seen
      /\ t.version = r.version
  BY <1>2, <1>5 DEF S!Commands
<1>8. t \in S!Commands
  BY <1>2, <1>5 DEF S!Commands, S!Steps
<1> HIDE DEF s
<1>9. Fits(t, sGraph)
  <2> HIDE DEF t, r
  <2> QED BY <1>2, <1>3, <1>7, <1>8 DEF Fits, Loop, Applying
<1>10. UNCHANGED <<sGraph, sTorn, sCut, sOverlapped>>
  BY DEF S!Install, S!world
<1>11. ~sOverlapped => Remembers(p)'
  <2> SUFFICES ASSUME ~sOverlapped PROVE Remembers(p)'
    OBVIOUS
  <2>1. /\ r.version = sGraph.nodes[<<s, 0>>].version
        /\ sDisk[s].new = r.seen[s] /\ r.seen[s] # S!NoText
        /\ s \in sCut \/ sDisk[s].bak = sGraph.nodes[<<s, 0>>].text
    BY <1>2 DEF SInv, Sole, Remembers, Applying, s
  <2>2. sDisk'[s].bak = sDisk[s].bak /\ sDisk'[s].plan = r.seen[s]
    BY <1>3, <1>4, <1>6, <2>1 DEF S!Renamed, S!DocumentFiles
  <2> HIDE DEF r
  <2> QED BY <1>7, <1>10, <2>1, <2>2 DEF Remembers, Loop, Applying, t
<1>12. S!Halfway(p)' /\ sRun'[p].spec = s /\ sRun[p].spec = s
  BY <1>7 DEF S!Halfway, t, s
<1> HIDE DEF t, r
<1>13. Moves(p)
  BY <1>1, <1>5, <1>6, <1>9, <1>10, <1>11 DEF Moves, StillAlone, Undisturbed, t
<1> QED BY <1>6, <1>10, <1>12, <1>13, DiskStep

-----------------------------------------------------------------------------
(* The steps that change the graph.                                          *)

\* While no two commands are under way, a document that p is not halfway with is
\* described, and every spec is chained.
InOrder(p) ==
  ~sOverlapped' => \A s \in Specs :
                    /\ s \notin sCut /\ (S!Halfway(p) => sRun[p].spec # s)
                           => S!Describes(sGraph, sDisk, s)
                    /\ S!Chained(sGraph, s)

\* The invariant says so.
LEMMA InOrderIs == ASSUME SInv, NEW p \in Procs, Moves(p) PROVE InOrder(p)
<1>1. ~sOverlapped' => ~sOverlapped /\ \A q \in Procs \ {p} : S!At(q, "idle")
  BY Moved DEF Moves, StillAlone
<1> SUFFICES ASSUME ~sOverlapped', NEW s \in Specs
             PROVE  /\ s \notin sCut /\ (S!Halfway(p) => sRun[p].spec # s)
                           => S!Describes(sGraph, sDisk, s)
                    /\ S!Chained(sGraph, s)
  BY DEF InOrder
<1>2. S!Chained(sGraph, s)
  BY <1>1 DEF SInv, S!VersionsAreChained
<1>3. ASSUME s \notin sCut, S!Halfway(p) => sRun[p].spec # s
      PROVE  S!Describes(sGraph, sDisk, s)
  <2>1. \A q \in Procs : S!Halfway(q) => sRun[q].spec # s
    BY <1>1, <1>3 DEF S!Halfway, S!At
  <2> QED BY <1>1, <1>3, <2>1 DEF SInv, S!RecordsMatchTheFiles
<1> QED BY <1>2, <1>3

\* A step that leaves the graph in order keeps the invariant.
LEMMA GraphStep ==
  ASSUME SInv, NEW p \in Procs, Moves(p), sDisk' = sDisk, S!CommitsAreWhole',
         ~sOverlapped' => \A s \in Specs :
            /\ s \notin sCut' /\ (S!Halfway(p)' => sRun'[p].spec # s)
                   => S!Describes(sGraph', sDisk, s)
            /\ S!Chained(sGraph', s)
  PROVE  SInv'
<1>1. /\ S!TypeOK' /\ (\A q \in Procs : Fits(sRun[q], sGraph))' /\ Sole'
  BY Moved
<1>2. S!VersionsAreChained'
  BY DEF S!VersionsAreChained
<1>3. S!RecordsMatchTheFiles'
  BY DEF S!RecordsMatchTheFiles
<1> QED BY <1>1, <1>2, <1>3 DEF SInv

\* So does one that leaves the specs and what leads from one to another.
LEMMA RowsStay ==
  ASSUME SInv, NEW p \in Procs, Moves(p), UNCHANGED <<sDisk, sCut>>, S!CommitsAreWhole',
         sGraph'.nodes = sGraph.nodes, sGraph'.evolved = sGraph.evolved, ~S!Halfway(p)
  PROVE  SInv'
<1>1. InOrder(p)
  BY InOrderIs
<1>2. ASSUME ~sOverlapped', NEW s \in Specs
      PROVE  /\ s \notin sCut' /\ (S!Halfway(p)' => sRun'[p].spec # s)
                    => S!Describes(sGraph', sDisk, s)
             /\ S!Chained(sGraph', s)
  BY <1>1, <1>2 DEF InOrder, S!Describes, S!Chained
<1> QED BY <1>2, GraphStep

\* A build or mining replaces the record of a spec.
LEMMA ReplaceSpecStep == ASSUME SInv, NEW p \in Procs, S!ReplaceSpec(p) PROVE SInv'
<1> DEFINE r == sRun[p]
           t == sRun'[p]
           c == S!Min(r.todo)
           s == IF r.job = "build" THEN Scope[c] ELSE r.spec
           text == r.seen[s]
           u == S!Upsert(sGraph, s, text)
<1>1. Undisturbed /\ ~S!At(p, "idle")
  <2>1. WorldOK'
    BY WorldIs DEF S!ReplaceSpec, S!world, WorldOK
  <2> QED BY <2>1, UndisturbedIs DEF S!ReplaceSpec, S!At
<1>2. r \in S!Commands /\ Fits(r, sGraph) /\ r.at = "spec" /\ r.hit = {}
  BY Facts DEF S!ReplaceSpec, S!At, Fits, Loop
<1>3. s \in Specs
  <2>1. r.todo \subseteq S!Commits /\ r.todo # {} /\ r.todo \subseteq r.took
    BY <1>2 DEF Fits, S!Commands, Loop
  <2>2. c \in r.todo
    <3> HIDE DEF r
    <3> QED BY <2>1, MinIs
  <2> QED BY <1>2, <2>1, <2>2 DEF Fits
<1>4. text \in S!Texts
  BY <1>2, <1>3 DEF S!Commands
<1>5. t = [r EXCEPT !.at = "node", !.spec = s] /\ sRun' = [sRun EXCEPT ![p] = t]
  BY Facts DEF S!ReplaceSpec
<1>6. /\ sGraph' = IF text = S!NoText THEN sGraph ELSE u
      /\ sCut' = IF text = S!NoText THEN sCut ELSE sCut \ {s}
      /\ UNCHANGED <<sDisk, sTorn, sOverlapped>>
  BY DEF S!ReplaceSpec, S!world
<1>7. r.job # "build" => text # S!NoText /\ s = r.spec
  BY <1>2 DEF Fits
<1> HIDE DEF s, c
<1>8. t.at = "node" /\ t.took = r.took /\ t.todo = r.todo /\ t.hit = r.hit
      /\ t.due = r.due /\ t.job = r.job /\ t.spec = s /\ t.seen = r.seen
  BY <1>2, <1>5 DEF S!Commands
<1>9. t \in S!Commands
  BY <1>2, <1>3, <1>5 DEF S!Commands, S!Steps
<1>10. S!IsGraph(sGraph)
  BY <1>1 DEF Undisturbed
<1>11. /\ S!IsGraph(u) /\ u.commits = sGraph.commits /\ u.contains = sGraph.contains
       /\ DOMAIN u.nodes = (DOMAIN sGraph.nodes) \cup {<<s, 0>>}
  BY <1>3, <1>4, <1>10, Upserted
<1>12. /\ S!IsGraph(sGraph') /\ sGraph'.commits = sGraph.commits
       /\ sGraph'.contains = sGraph.contains
       /\ Grows(sGraph, sGraph') /\ (text # S!NoText => <<s, 0>> \in DOMAIN sGraph'.nodes)
  <2> HIDE DEF u, text
  <2> QED BY <1>6, <1>10, <1>11 DEF Grows
<1>13. Fits(t, sGraph')
  <2>1. Fits(r, sGraph')
    BY <1>2, <1>12, StaysFit
  <2>2. text = t.seen[t.spec]
    BY <1>8
  <2> HIDE DEF t, r, text
  <2> QED BY <1>2, <1>3, <1>8, <1>9, <1>12, <2>1, <2>2 DEF Fits, Loop, Applying
<1>14. ~sOverlapped => text = sDisk[s].plan
  <2> SUFFICES ASSUME ~sOverlapped PROVE text = sDisk[s].plan
    OBVIOUS
  <2>1. Remembers(p)
    BY DEF SInv, Sole
  <2> QED BY <1>2, <1>3, <1>7, <2>1 DEF Remembers, S!Readable, Loop
<1>15. ~sOverlapped => Remembers(p)'
  <2> SUFFICES ASSUME ~sOverlapped PROVE Remembers(p)'
    OBVIOUS
  <2>1. r.job = "build" => r.seen = S!Readable
    BY <1>2 DEF SInv, Sole, Remembers, Loop
  <2> HIDE DEF r
  <2> QED BY <1>6, <1>8, <2>1 DEF Remembers, S!Readable, Loop, Applying, t
<1> HIDE DEF u, text
<1>16. Moves(p)
  <2>1. sDisk \in [Specs -> S!DocumentFiles] /\ sCut' \subseteq Specs
    BY <1>1, <1>6 DEF SInv, S!TypeOK, Undisturbed
  <2> HIDE DEF t, r
  <2> QED BY <1>1, <1>5, <1>6, <1>12, <1>13, <1>15, <2>1
             DEF Moves, StillAlone, Undisturbed, t
<1>17. InOrder(p)
  BY <1>16, InOrderIs
<1>18. S!CommitsAreWhole'
  BY <1>6, <1>12 DEF SInv, S!CommitsAreWhole
<1>19. ASSUME ~sOverlapped', NEW x \in Specs
       PROVE  /\ x \notin sCut' => S!Describes(sGraph', sDisk, x)
              /\ S!Chained(sGraph', x)
  <2>1. /\ x \notin sCut /\ (S!Halfway(p) => r.spec # x) => S!Describes(sGraph, sDisk, x)
        /\ S!Chained(sGraph, x)
    BY <1>17, <1>19 DEF InOrder
  <2>2. CASE text = S!NoText
    <3>1. ~S!Halfway(p)
      BY <1>2, <1>7, <2>2 DEF S!Halfway, S!At
    <3> QED BY <1>6, <2>1, <2>2, <3>1
  <2>3. CASE text # S!NoText
    <3>1. sGraph' = S!Upsert(sGraph, s, text) /\ sCut' = sCut \ {s}
      BY <1>6, <2>3 DEF u
    <3>2. text = sDisk[s].plan /\ sDisk[s].plan \in S!Texts
      BY <1>4, <1>6, <1>14, <1>19
    <3>3. S!Chained(sGraph', x)
      BY <1>3, <1>4, <1>10, <2>1, <3>1, UpsertChains
    <3>4. ASSUME x \notin sCut' PROVE S!Describes(sGraph', sDisk, x)
      <4>1. x = s \/ S!Describes(sGraph, sDisk, x)
        BY <1>2, <1>7, <2>1, <3>1, <3>4 DEF S!Halfway, S!At
      <4>2. S!Describes(S!Upsert(sGraph, s, sDisk[s].plan), sDisk, x)
        BY <1>3, <1>10, <3>2, <4>1, UpsertDescribes
      <4> QED BY <3>1, <3>2, <4>2
    <3> QED BY <3>3, <3>4
  <2> QED BY <2>2, <2>3
<1> QED BY <1>6, <1>16, <1>18, <1>19, GraphStep

\* The commit that a command is at is the first that it has left.
LEMMA CommitIs ==
  ASSUME SInv, NEW p \in Procs, sRun[p].at \in Loop
         \/ (sRun[p].at = "persist" /\ sRun[p].todo # {})
  PROVE  /\ S!Min(sRun[p].todo) \in sRun[p].todo /\ S!Min(sRun[p].todo) \in S!Commits
         /\ \A c \in sRun[p].todo : S!Min(sRun[p].todo) <= c
<1>1. sRun[p].todo \subseteq S!Commits /\ sRun[p].todo # {}
  BY Facts DEF Fits, S!Commands
<1> QED BY <1>1, MinIs

\* The row of the commit is replaced.
LEMMA ReplaceCommitStep == ASSUME SInv, NEW p \in Procs, S!ReplaceCommit(p) PROVE SInv'
<1> DEFINE r == sRun[p]
           t == sRun'[p]
           c == S!Min(r.todo)
<1>1. Undisturbed /\ ~S!At(p, "idle") /\ ~S!Halfway(p)
  <2>1. WorldOK'
    BY WorldIs DEF S!ReplaceCommit, S!world, WorldOK
  <2> QED BY <2>1, UndisturbedIs DEF S!ReplaceCommit, S!At, S!Halfway
<1>2. r \in S!Commands /\ Fits(r, sGraph) /\ r.at = "node" /\ r.hit = {}
  BY Facts DEF S!ReplaceCommit, S!At, Fits, Loop
<1>3. c \in S!Commits
  BY <1>2, CommitIs DEF Loop
<1>4. t = [r EXCEPT !.at = "link"] /\ sRun' = [sRun EXCEPT ![p] = t]
  BY Facts DEF S!ReplaceCommit, S!Goto
<1>5. /\ sGraph' = S!InsertCommit(sGraph, c) /\ sTorn' = sTorn \cup {c}
      /\ UNCHANGED <<sDisk, sCut, sOverlapped>>
  BY DEF S!ReplaceCommit, S!world
<1> HIDE DEF c
<1>6. t.at = "link" /\ t.took = r.took /\ t.todo = r.todo /\ t.hit = r.hit
      /\ t.due = r.due /\ t.job = r.job /\ t.spec = r.spec /\ t.seen = r.seen
  BY <1>2, <1>4 DEF S!Commands
<1>7. t \in S!Commands
  BY <1>2, <1>4 DEF S!Commands, S!Steps
<1>8. S!IsGraph(sGraph)
  BY <1>1 DEF Undisturbed
<1>9. /\ S!IsGraph(sGraph') /\ sGraph'.nodes = sGraph.nodes
      /\ sGraph'.evolved = sGraph.evolved
      /\ sGraph'.commits = sGraph.commits \cup {c}
      /\ sGraph'.contains = {x \in sGraph.contains : x[1] # c}
  BY <1>3, <1>5, <1>8, InsertedCommit
<1>10. Grows(sGraph, sGraph')
  BY <1>9 DEF Grows
<1>11. Fits(t, sGraph')
  <2>1. Fits(r, sGraph')
    BY <1>2, <1>10, StaysFit
  <2>2. c = S!Min(t.todo)
    BY <1>6 DEF c
  <2> HIDE DEF t, r
  <2> QED BY <1>2, <1>6, <1>7, <1>9, <2>1, <2>2 DEF Fits, Loop, Applying
<1>12. ~sOverlapped => Remembers(p)'
  <2> SUFFICES ASSUME ~sOverlapped PROVE Remembers(p)'
    OBVIOUS
  <2>1. r.job = "build" => r.seen = S!Readable
    BY <1>2 DEF SInv, Sole, Remembers, Loop
  <2> HIDE DEF r
  <2> QED BY <1>5, <1>6, <2>1 DEF Remembers, S!Readable, Loop, Applying, t
<1>13. Moves(p)
  <2>1. sDisk \in [Specs -> S!DocumentFiles] /\ sTorn' \subseteq S!Commits
    BY <1>1, <1>3, <1>5 DEF SInv, S!TypeOK, Undisturbed
  <2> HIDE DEF t, r
  <2> QED BY <1>1, <1>4, <1>5, <1>9, <1>10, <1>11, <1>12, <2>1
             DEF Moves, StillAlone, Undisturbed, t
<1>14. S!CommitsAreWhole'
  <2> SUFFICES ASSUME NEW d \in sGraph'.commits \ sTorn'
               PROVE  {d} \X Touches[d] \subseteq sGraph'.contains
    BY DEF S!CommitsAreWhole
  <2>1. d # c /\ d \in sGraph.commits \ sTorn
    BY <1>5, <1>9
  <2>2. {d} \X Touches[d] \subseteq sGraph.contains
    BY <2>1 DEF SInv, S!CommitsAreWhole
  <2> QED BY <1>9, <2>1, <2>2
<1> QED BY <1>1, <1>5, <1>9, <1>13, <1>14, RowsStay

\* The relation of the spec and the commit is created.
LEMMA LinkCommitStep == ASSUME SInv, NEW p \in Procs, S!LinkCommit(p) PROVE SInv'
<1> DEFINE r == sRun[p]
           t == sRun'[p]
           c == S!Min(r.todo)
           s == r.spec
<1>1. Undisturbed /\ ~S!At(p, "idle") /\ ~S!Halfway(p)
  <2>1. WorldOK'
    BY WorldIs DEF S!LinkCommit, S!world, WorldOK
  <2> QED BY <2>1, UndisturbedIs DEF S!LinkCommit, S!At, S!Halfway
<1>2. r \in S!Commands /\ Fits(r, sGraph) /\ r.at = "link" /\ r.hit = {}
  BY Facts DEF S!LinkCommit, S!At, Fits, Loop
<1>3. c \in sGraph.commits
  BY <1>2 DEF Fits
<1>4. t = [r EXCEPT !.at = "fragments"] /\ sRun' = [sRun EXCEPT ![p] = t]
  BY Facts DEF S!LinkCommit, S!Goto
<1>5. /\ sGraph' = IF r.seen[s] = S!NoText THEN sGraph
                  ELSE S!Link(sGraph, <<s, 0>>, c, "SUMMARIZED_FROM")
      /\ UNCHANGED <<sDisk, sTorn, sCut, sOverlapped>>
  BY DEF S!LinkCommit, S!world
<1>6. r.seen[s] # S!NoText => <<s, 0>> \in DOMAIN sGraph.nodes
  BY <1>2 DEF Fits
<1> HIDE DEF c
<1>7. t.at = "fragments" /\ t.took = r.took /\ t.todo = r.todo /\ t.hit = r.hit
      /\ t.due = r.due /\ t.job = r.job /\ t.spec = r.spec /\ t.seen = r.seen
  BY <1>2, <1>4 DEF S!Commands
<1>8. t \in S!Commands
  BY <1>2, <1>4 DEF S!Commands, S!Steps
<1>9. S!IsGraph(sGraph)
  BY <1>1 DEF Undisturbed
<1>10. /\ S!IsGraph(sGraph') /\ sGraph'.nodes = sGraph.nodes
       /\ sGraph'.evolved = sGraph.evolved
       /\ sGraph'.commits = sGraph.commits /\ sGraph'.contains = sGraph.contains
  <2>1. CASE r.seen[s] = S!NoText
    BY <1>5, <1>9, <2>1
  <2>2. CASE r.seen[s] # S!NoText
    <3> DEFINE id == <<s, 0>>
    <3>1. id \in DOMAIN sGraph.nodes /\ sGraph' = S!Link(sGraph, id, c, "SUMMARIZED_FROM")
      BY <1>5, <1>6, <2>2
    <3> HIDE DEF id
    <3> QED BY <1>3, <1>9, <3>1, Linked
  <2> QED BY <2>1, <2>2
<1>11. Grows(sGraph, sGraph')
  BY <1>10 DEF Grows
<1>12. Fits(t, sGraph')
  <2>1. Fits(r, sGraph')
    BY <1>2, <1>11, StaysFit
  <2> HIDE DEF t, r
  <2> QED BY <1>2, <1>7, <1>8, <1>10, <2>1 DEF Fits, Loop, Applying
<1>13. ~sOverlapped => Remembers(p)'
  <2> SUFFICES ASSUME ~sOverlapped PROVE Remembers(p)'
    OBVIOUS
  <2>1. r.job = "build" => r.seen = S!Readable
    BY <1>2 DEF SInv, Sole, Remembers, Loop
  <2> HIDE DEF r
  <2> QED BY <1>5, <1>7, <2>1 DEF Remembers, S!Readable, Loop, Applying, t
<1>14. Moves(p)
  <2>1. sDisk \in [Specs -> S!DocumentFiles]
    BY DEF SInv, S!TypeOK
  <2> HIDE DEF t, r
  <2> QED BY <1>1, <1>4, <1>5, <1>10, <1>11, <1>12, <1>13, <2>1
             DEF Moves, StillAlone, Undisturbed, t
<1>15. S!CommitsAreWhole'
  BY <1>5, <1>10 DEF SInv, S!CommitsAreWhole
<1> QED BY <1>1, <1>5, <1>10, <1>14, <1>15, RowsStay

\* The fragments of the commit are stored.
LEMMA StoreFragmentsStep == ASSUME SInv, NEW p \in Procs, S!StoreFragments(p) PROVE SInv'
<1> DEFINE r == sRun[p]
           t == sRun'[p]
           c == S!Min(r.todo)
           left == r.todo \ {c}
           step == IF left = {} THEN "finish" ELSE IF r.job = "build" THEN "spec"
                   ELSE "node"
<1>1. Undisturbed /\ ~S!At(p, "idle") /\ ~S!Halfway(p)
  <2>1. WorldOK'
    BY WorldIs DEF S!StoreFragments, S!world, WorldOK
  <2> QED BY <2>1, UndisturbedIs DEF S!StoreFragments, S!At, S!Halfway
<1>2. r \in S!Commands /\ Fits(r, sGraph) /\ r.at = "fragments" /\ r.hit = {}
  BY Facts DEF S!StoreFragments, S!At, Fits, Loop
<1>3. c \in sGraph.commits
  BY <1>2 DEF Fits
<1>4. t = [r EXCEPT !.todo = left, !.at = step] /\ sRun' = [sRun EXCEPT ![p] = t]
  BY Facts DEF S!StoreFragments
<1>5. /\ sGraph' = S!Contain(sGraph, c) /\ sTorn' = sTorn \ {c}
      /\ UNCHANGED <<sDisk, sCut, sOverlapped>>
  BY DEF S!StoreFragments, S!world
<1>6. /\ left \subseteq r.todo /\ r.todo \ left \subseteq {c} /\ left \subseteq S!Commits
      /\ step \in {"finish", "spec", "node"} /\ (step = "finish" <=> left = {})
      /\ step = "spec" => r.job = "build"
  BY <1>2 DEF S!Commands
<1> HIDE DEF c, left, step
<1>7. t.at = step /\ t.took = r.took /\ t.todo = left /\ t.hit = r.hit
      /\ t.due = r.due /\ t.job = r.job /\ t.spec = r.spec /\ t.seen = r.seen
  BY <1>2, <1>4 DEF S!Commands
<1>8. t \in S!Commands
  BY <1>2, <1>4, <1>6 DEF S!Commands, S!Steps
<1>9. S!IsGraph(sGraph)
  BY <1>1 DEF Undisturbed
<1>10. /\ S!IsGraph(sGraph') /\ sGraph'.nodes = sGraph.nodes
       /\ sGraph'.evolved = sGraph.evolved
       /\ sGraph'.commits = sGraph.commits
       /\ sGraph'.contains = sGraph.contains \cup {c} \X Touches[c]
  BY <1>3, <1>5, <1>9, Contained
<1>11. Grows(sGraph, sGraph')
  BY <1>10 DEF Grows
<1>12. Fits(t, sGraph')
  <2>1. Fits(r, sGraph')
    BY <1>2, <1>11, StaysFit
  <2>2. r.took \ left \subseteq sGraph'.commits /\ left \subseteq r.took
    BY <1>2, <1>3, <1>10, <1>6, <2>1 DEF Fits, Loop
  <2> HIDE DEF t, r
  <2> QED BY <1>2, <1>7, <1>8, <1>10, <1>6, <2>1, <2>2 DEF Fits, Loop, Applying
<1>13. ~sOverlapped => Remembers(p)'
  <2> SUFFICES ASSUME ~sOverlapped PROVE Remembers(p)'
    OBVIOUS
  <2>1. r.job = "build" => r.seen = S!Readable
    BY <1>2 DEF SInv, Sole, Remembers, Loop
  <2> HIDE DEF r
  <2> QED BY <1>5, <1>7, <1>6, <2>1 DEF Remembers, S!Readable, Loop, Applying, t
<1>14. Moves(p)
  <2>1. sDisk \in [Specs -> S!DocumentFiles] /\ sTorn' \subseteq S!Commits
    BY <1>1, <1>5 DEF SInv, S!TypeOK, Undisturbed
  <2> HIDE DEF t, r
  <2> QED BY <1>1, <1>4, <1>5, <1>10, <1>11, <1>12, <1>13, <2>1
             DEF Moves, StillAlone, Undisturbed, t
<1>15. S!CommitsAreWhole'
  <2> SUFFICES ASSUME NEW d \in sGraph'.commits \ sTorn'
               PROVE  {d} \X Touches[d] \subseteq sGraph'.contains
    BY DEF S!CommitsAreWhole
  <2>1. d = c \/ d \in sGraph.commits \ sTorn
    BY <1>5, <1>10
  <2>2. d \in sGraph.commits \ sTorn => {d} \X Touches[d] \subseteq sGraph.contains
    BY DEF SInv, S!CommitsAreWhole
  <2> QED BY <1>10, <2>1, <2>2
<1> QED BY <1>1, <1>5, <1>10, <1>14, <1>15, RowsStay

\* An evolution persists a commit.
LEMMA PersistNextStep == ASSUME SInv, NEW p \in Procs, S!PersistNext(p) PROVE SInv'
<1> DEFINE r == sRun[p]
           t == sRun'[p]
           c == S!Min(r.todo)
           s == Scope[c]
           text == r.seen[s]
           left == r.todo \ {c}
           u == S!Upsert(sGraph, s, text)
<1>1. Undisturbed /\ ~S!At(p, "idle") /\ ~S!Halfway(p)
  <2>1. WorldOK'
    BY WorldIs DEF S!PersistNext, S!world, WorldOK
  <2> QED BY <2>1, UndisturbedIs DEF S!PersistNext, S!At, S!Halfway
<1>2. r \in S!Commands /\ Fits(r, sGraph) /\ r.at = "persist" /\ r.todo # {}
  BY Facts DEF S!PersistNext, S!At
<1>3. c \in r.todo /\ c \in S!Commits /\ \A d \in r.todo : c <= d
  BY <1>2, CommitIs
<1>4. s \in Specs /\ r.todo = r.took \ r.hit
  BY <1>2, <1>3 DEF Fits
<1>5. text \in S!Texts
  BY <1>2, <1>4 DEF S!Commands
<1>6. t = [r EXCEPT !.todo = left, !.hit = @ \cup {c}] /\ sRun' = [sRun EXCEPT ![p] = t]
  BY Facts DEF S!PersistNext
<1>7. /\ sGraph' = S!Persist(sGraph, c, text) /\ sTorn' = sTorn \ {c} /\ sCut' = sCut \ {s}
      /\ UNCHANGED <<sDisk, sOverlapped>>
  BY DEF S!PersistNext, S!world
<1>8. left \subseteq S!Commits /\ r.hit \cup {c} \subseteq S!Commits
  BY <1>2, <1>3 DEF S!Commands
<1>9. t.at = "persist" /\ t.took = r.took /\ t.todo = left /\ t.hit = r.hit \cup {c}
      /\ t.due = r.due /\ t.job = r.job /\ t.seen = r.seen
  BY <1>2, <1>6 DEF S!Commands
<1>10. t \in S!Commands
  <2> HIDE DEF left, c
  <2> QED BY <1>2, <1>6, <1>8 DEF S!Commands
<1>11. S!IsGraph(sGraph)
  BY <1>1 DEF Undisturbed
<1>12. /\ S!IsGraph(u) /\ DOMAIN u.nodes = (DOMAIN sGraph.nodes) \cup {<<s, 0>>}
  <2> HIDE DEF s, text
  <2> QED BY <1>4, <1>5, <1>11, Upserted
<1> HIDE DEF c
<1>13. /\ S!IsGraph(sGraph') /\ sGraph'.commits = sGraph.commits \cup {c}
       /\ sGraph'.contains = {x \in sGraph.contains : x[1] # c} \cup {c} \X Touches[c]
       /\ sGraph'.nodes = u.nodes /\ sGraph'.evolved = u.evolved
  BY <1>3, <1>4, <1>5, <1>7, <1>11, Persisted
<1>14. Grows(sGraph, sGraph')
  BY <1>12, <1>13 DEF Grows
<1>15. \A h \in t.hit, d \in t.took \ t.hit : h < d
  <2> SUFFICES ASSUME NEW h \in r.hit \cup {c}, NEW d \in r.took \ (r.hit \cup {c})
               PROVE  h < d
    BY <1>9
  <2>1. CASE h \in r.hit
    BY <1>2, <2>1 DEF Fits
  <2>2. CASE h = c
    <3>1. d \in r.todo /\ d # c /\ d \in S!Commits
      BY <1>2, <1>4 DEF S!Commands
    <3>2. c <= d /\ c \in 1..Last /\ d \in 1..Last
      BY <1>3, <3>1, Numbers
    <3> QED BY <2>2, <3>1, <3>2, Numbers
  <2> QED BY <2>1, <2>2
<1>16. Fits(t, sGraph')
  <2>1. Fits(r, sGraph')
    BY <1>2, <1>14, StaysFit
  <2>2. t.todo = t.took \ t.hit /\ t.hit \subseteq t.took \cap sGraph'.commits
        /\ t.todo \subseteq r.todo
    BY <1>2, <1>3, <1>4, <1>9, <1>13, <2>1 DEF Fits
  <2> HIDE DEF t, r
  <2> QED BY <1>2, <1>9, <1>10, <1>15, <2>1, <2>2 DEF Fits, Loop, Applying
<1>17. ~sOverlapped => r.seen = S!Readable /\ text = sDisk[s].plan
  <2> SUFFICES ASSUME ~sOverlapped PROVE r.seen = S!Readable /\ text = sDisk[s].plan
    OBVIOUS
  <2>1. r.seen = S!Readable
    BY <1>2 DEF SInv, Sole, Remembers
  <2> QED BY <1>4, <2>1 DEF S!Readable
<1>18. ~sOverlapped => Remembers(p)'
  BY <1>7, <1>9, <1>17 DEF Remembers, S!Readable, Loop, Applying
<1> HIDE DEF u, text, s
<1>19. Moves(p)
  <2>1. sDisk \in [Specs -> S!DocumentFiles] /\ sCut' \subseteq Specs
        /\ sTorn' \subseteq S!Commits
    BY <1>1, <1>7 DEF SInv, S!TypeOK, Undisturbed
  <2> HIDE DEF t, r
  <2> QED BY <1>1, <1>6, <1>7, <1>13, <1>14, <1>16, <1>18, <2>1
             DEF Moves, StillAlone, Undisturbed, t
<1>20. InOrder(p)
  BY <1>19, InOrderIs
<1>21. S!CommitsAreWhole'
  <2> SUFFICES ASSUME NEW d \in sGraph'.commits \ sTorn'
               PROVE  {d} \X Touches[d] \subseteq sGraph'.contains
    BY DEF S!CommitsAreWhole
  <2>1. CASE d = c
    BY <1>13, <2>1
  <2>2. CASE d # c
    <3>1. d \in sGraph.commits \ sTorn
      BY <1>7, <1>13, <2>2
    <3>2. {d} \X Touches[d] \subseteq sGraph.contains
      BY <3>1 DEF SInv, S!CommitsAreWhole
    <3> QED BY <1>13, <2>2, <3>2
  <2> QED BY <2>1, <2>2
<1>22. ASSUME ~sOverlapped', NEW x \in Specs
       PROVE  /\ x \notin sCut' => S!Describes(sGraph', sDisk, x)
              /\ S!Chained(sGraph', x)
  <2>1. /\ x \notin sCut => S!Describes(sGraph, sDisk, x)
        /\ S!Chained(sGraph, x)
    BY <1>1, <1>20, <1>22 DEF InOrder
  <2>2. text = sDisk[s].plan /\ sDisk[s].plan \in S!Texts
    BY <1>5, <1>7, <1>17, <1>22
  <2>3. S!Chained(u, x)
    BY <1>4, <1>5, <1>11, <2>1, UpsertChains DEF u
  <2>4. x \notin sCut' => S!Describes(u, sDisk, x)
    <3> SUFFICES ASSUME x \notin sCut' PROVE S!Describes(u, sDisk, x)
      OBVIOUS
    <3>1. x = s \/ S!Describes(sGraph, sDisk, x)
      BY <1>7, <2>1
    <3>2. S!Describes(S!Upsert(sGraph, s, sDisk[s].plan), sDisk, x)
      BY <1>4, <1>11, <2>2, <3>1, UpsertDescribes
    <3> QED BY <2>2, <3>2 DEF u
  <2> QED BY <1>13, <2>3, <2>4 DEF S!Describes, S!Chained
<1> QED BY <1>7, <1>19, <1>21, <1>22, GraphStep

\* An affected spec is deprecated.
LEMMA DeprecatesStep == ASSUME SInv, NEW p \in Procs, S!Deprecates(p) PROVE SInv'
<1> DEFINE s == sRun[p].spec
<1>1. Undisturbed /\ ~S!At(p, "idle") /\ ~S!Halfway(p) /\ sRun[p].at \in Applying
  <2>1. WorldOK'
    BY WorldIs DEF S!Deprecates, S!world, WorldOK
  <2> QED BY <2>1, UndisturbedIs DEF S!Deprecates, S!At, S!Halfway, Applying
<1>2. s \in Specs /\ <<s, 0>> \in DOMAIN sGraph.nodes
  BY <1>1, Facts DEF Fits
<1>3. sGraph' = S!Deprecate(sGraph, s) /\ UNCHANGED <<sDisk, sTorn, sCut, sOverlapped>>
      /\ S!Onward(p)
  BY DEF S!Deprecates, S!world
<1>4. S!IsGraph(sGraph)
  BY <1>1 DEF Undisturbed
<1> HIDE DEF s
<1>5. /\ S!IsGraph(sGraph') /\ sGraph'.commits = sGraph.commits
      /\ sGraph'.contains = sGraph.contains
      /\ DOMAIN sGraph'.nodes = (DOMAIN sGraph.nodes) \cup {<<s, -1>>}
  BY <1>2, <1>3, <1>4, Deprecated
<1>6. Grows(sGraph, sGraph')
  BY <1>5 DEF Grows
<1>7. Resumes(p, sGraph)
  BY <1>1, <1>3, Onwards
<1>8. Fits(sRun'[p], sGraph')
  BY <1>6, <1>7, StaysFit DEF Resumes
<1>9. Remembers(p)'
  BY <1>7 DEF Resumes, Remembers, Loop, Applying
<1>10. Moves(p)
  <2>1. sDisk \in [Specs -> S!DocumentFiles]
    BY DEF SInv, S!TypeOK
  <2> QED BY <1>1, <1>3, <1>5, <1>6, <1>7, <1>8, <1>9, <2>1
             DEF Moves, StillAlone, Undisturbed, Resumes
<1>11. InOrder(p)
  BY <1>10, InOrderIs
<1>12. S!CommitsAreWhole'
  BY <1>3, <1>5 DEF SInv, S!CommitsAreWhole
<1>13. ASSUME ~sOverlapped', NEW x \in Specs
       PROVE  /\ x \notin sCut' => S!Describes(sGraph', sDisk, x)
              /\ S!Chained(sGraph', x)
  <2>1. /\ x \notin sCut => S!Describes(sGraph, sDisk, x)
        /\ S!Chained(sGraph, x)
    BY <1>1, <1>11, <1>13 DEF InOrder
  <2>2. S!Chained(sGraph', x)
    BY <1>2, <1>3, <1>4, <2>1, DeprecateChains
  <2>3. x \notin sCut' => S!Describes(sGraph', sDisk, x)
    BY <1>2, <1>3, <1>4, <2>1, DeprecateDescribes
  <2> QED BY <2>2, <2>3
<1> QED BY <1>3, <1>10, <1>12, <1>13, GraphStep

\* A rewrite commits.
LEMMA CommitUpdateStep == ASSUME SInv, NEW p \in Procs, S!CommitUpdate(p) PROVE SInv'
<1> DEFINE r == sRun[p]
           s == r.spec
           v == r.version
           text == r.seen[s]
           c == S!Next1(p)[2]
<1>1. Undisturbed /\ ~S!At(p, "idle") /\ S!Halfway(p) /\ r.at \in Applying
      /\ r.at = "commit"
  <2>1. WorldOK'
    BY WorldIs DEF S!CommitUpdate, S!world, WorldOK
  <2> QED BY <2>1, UndisturbedIs DEF S!CommitUpdate, S!At, S!Halfway, Applying
<1>2. s \in Specs /\ <<s, 0>> \in DOMAIN sGraph.nodes /\ v \in Nat \ {0} /\ text \in S!Texts
      /\ r.due # {} /\ r.due \subseteq Specs \X S!Commits /\ Fits(r, sGraph)
  <2>1. r \in S!Commands /\ Fits(r, sGraph)
    BY Facts
  <2> HIDE DEF r
  <2> QED BY <1>1, <2>1 DEF Fits, S!Commands
<1>3. c \in sGraph.commits
  <2>1. S!Next1(p) \in r.due
    BY <1>2, NextIsDue
  <2> QED BY <1>2, <2>1 DEF Fits
<1>4. sGraph' = S!Update(sGraph, s, v, text, c)
      /\ UNCHANGED <<sDisk, sTorn, sCut, sOverlapped>> /\ S!Onward(p)
  BY DEF S!CommitUpdate, S!world
<1>5. S!IsGraph(sGraph)
  BY <1>1 DEF Undisturbed
<1>6. ~sOverlapped => /\ v = sGraph.nodes[<<s, 0>>].version
                      /\ s \in sCut \/ sDisk[s].bak = sGraph.nodes[<<s, 0>>].text
                      /\ sDisk[s].plan = text
  <2> SUFFICES ASSUME ~sOverlapped
               PROVE  /\ v = sGraph.nodes[<<s, 0>>].version
                      /\ s \in sCut \/ sDisk[s].bak = sGraph.nodes[<<s, 0>>].text
                      /\ sDisk[s].plan = text
    OBVIOUS
  <2>1. Remembers(p)
    BY DEF SInv, Sole
  <2> QED BY <1>1, <2>1 DEF Remembers
<1>7. Resumes(p, sGraph)
  BY <1>1, <1>4, Onwards
<1> HIDE DEF s, v, text, c
<1>8. /\ S!IsGraph(sGraph') /\ sGraph'.commits = sGraph.commits
      /\ sGraph'.contains = sGraph.contains
      /\ DOMAIN sGraph.nodes \subseteq DOMAIN sGraph'.nodes
  <2>1. HasUpdated(sGraph, sGraph', <<s, 0>>, <<s, v>>, v, text)
    BY <1>2, <1>3, <1>4, <1>5, Updated
  <2> QED BY <2>1 DEF HasUpdated
<1>9. Grows(sGraph, sGraph')
  BY <1>8 DEF Grows
<1>10. Fits(sRun'[p], sGraph')
  BY <1>7, <1>9, StaysFit DEF Resumes
<1>11. Remembers(p)'
  BY <1>7 DEF Resumes, Remembers, Loop, Applying
<1>12. Moves(p)
  <2>1. sDisk \in [Specs -> S!DocumentFiles]
    BY DEF SInv, S!TypeOK
  <2> QED BY <1>1, <1>4, <1>7, <1>8, <1>9, <1>10, <1>11, <2>1
             DEF Moves, StillAlone, Undisturbed, Resumes
<1>13. InOrder(p)
  BY <1>12, InOrderIs
<1>14. S!CommitsAreWhole'
  BY <1>4, <1>8 DEF SInv, S!CommitsAreWhole
<1>15. ASSUME ~sOverlapped', NEW x \in Specs
       PROVE  /\ x \notin sCut' => S!Describes(sGraph', sDisk, x)
              /\ S!Chained(sGraph', x)
  <2>1. /\ x \notin sCut /\ x # s => S!Describes(sGraph, sDisk, x)
        /\ S!Chained(sGraph, x)
    BY <1>13, <1>15 DEF InOrder, s
  <2>2. v = sGraph.nodes[<<s, 0>>].version
    BY <1>4, <1>6, <1>15
  <2>3. S!Chained(sGraph', x)
    BY <1>2, <1>3, <1>4, <1>5, <2>1, <2>2, UpdateChains
  <2>4. ASSUME x \notin sCut' PROVE S!Describes(sGraph', sDisk, x)
    <3>1. x # s => S!Describes(sGraph, sDisk, x)
      BY <1>4, <2>1, <2>4
    <3>2. x = s => text = sDisk[s].plan /\ sGraph.nodes[<<s, 0>>].text = sDisk[s].bak
      BY <1>4, <1>6, <1>15, <2>4
    <3> QED BY <1>2, <1>3, <1>4, <1>5, <3>1, <3>2, UpdateDescribes
  <2> QED BY <2>3, <2>4
<1> QED BY <1>4, <1>12, <1>14, <1>15, GraphStep

-----------------------------------------------------------------------------
(* The invariant holds.                                                      *)

\* A graph without rows is one.
LEMMA EmptyIs == S!IsGraph(S!EmptyGraph)
<1>1. DOMAIN S!EmptyGraph.nodes = {}
  BY DEF S!EmptyGraph
<1>2. S!EmptyGraph.nodes \in [DOMAIN S!EmptyGraph.nodes -> S!Records]
  BY DEF S!EmptyGraph
<1> QED BY <1>1, <1>2 DEF S!EmptyGraph, S!IsGraph

\* So is the one a build makes of the first commit.
LEMMA BuiltIs ==
  ASSUME Last > 0, Scope[1] \in Documents
  PROVE  /\ S!IsGraph(S!Built) /\ S!Built.commits = {1} /\ S!Built.evolved = {}
         /\ S!Built.contains = {1} \X Touches[1]
         /\ DOMAIN S!Built.nodes = {<<Scope[1], 0>>}
         /\ S!Built.nodes[<<Scope[1], 0>>].text = 0
         /\ S!Built.nodes[<<Scope[1], 0>>].version = 1
<1> DEFINE s == Scope[1]
           a == S!InsertCommit(S!EmptyGraph, 1)
           u == S!Upsert(a, s, 0)
           l == S!Link(u, <<s, 0>>, 1, "SUMMARIZED_FROM")
           h == S!Contain(l, 1)
<1>1. 1 \in S!Commits /\ s \in Specs /\ 0 \in S!Texts
  <2>1. 1 \in S!Commits
    BY Numbers DEF S!Commits
  <2>2. s \in Specs
    BY GraphsAssumption DEF S!SpecGraphAssumption
  <2> QED BY <2>1, <2>2 DEF S!Texts
<1>2. /\ S!IsGraph(S!EmptyGraph) /\ DOMAIN S!EmptyGraph.nodes = {}
      /\ S!EmptyGraph.evolved = {}
      /\ S!EmptyGraph.commits = {} /\ S!EmptyGraph.contains = {}
  BY EmptyIs DEF S!EmptyGraph
<1>3. /\ S!IsGraph(a) /\ a.nodes = S!EmptyGraph.nodes /\ a.evolved = {} /\ a.commits = {1}
      /\ a.contains = {}
  BY <1>1, <1>2, InsertedCommit
<1> HIDE DEF a, s
<1>4. /\ S!IsGraph(u) /\ u.commits = {1} /\ u.contains = {}
      /\ DOMAIN u.nodes = {<<s, 0>>} /\ u.nodes[<<s, 0>>].text = 0
      /\ u.nodes[<<s, 0>>].version = 1
      /\ u.evolved = {}
  <2>1. /\ S!IsGraph(u) /\ u.commits = a.commits /\ u.contains = a.contains
        /\ DOMAIN u.nodes = (DOMAIN a.nodes) \cup {<<s, 0>>}
        /\ u.nodes[<<s, 0>>].text = 0 /\ u.nodes[<<s, 0>>].version = 1
        /\ u.evolved = Without(a.evolved, <<s, 0>>)
    <3>1. S!IsGraph(a) /\ s \in Specs /\ 0 \in S!Texts
      BY <1>1, <1>3
    <3> QED BY <3>1, Upserted
  <2> QED BY <1>2, <1>3, <2>1 DEF Without
<1> HIDE DEF u
<1>5. /\ S!IsGraph(l) /\ l.nodes = u.nodes /\ l.evolved = u.evolved
      /\ l.commits = u.commits /\ l.contains = u.contains
  <2> DEFINE id == <<s, 0>>
  <2>1. id \in DOMAIN u.nodes /\ 1 \in u.commits
    BY <1>4
  <2> HIDE DEF id
  <2>2. /\ S!IsGraph(S!Link(u, id, 1, "SUMMARIZED_FROM"))
        /\ S!Link(u, id, 1, "SUMMARIZED_FROM").nodes = u.nodes
        /\ S!Link(u, id, 1, "SUMMARIZED_FROM").evolved = u.evolved
        /\ S!Link(u, id, 1, "SUMMARIZED_FROM").commits = u.commits
        /\ S!Link(u, id, 1, "SUMMARIZED_FROM").contains = u.contains
    BY <1>4, <2>1, Linked
  <2> QED BY <2>2 DEF id
<1> HIDE DEF l
<1>6. /\ S!IsGraph(h) /\ h.nodes = l.nodes /\ h.evolved = l.evolved
      /\ h.commits = l.commits /\ h.contains = l.contains \cup {1} \X Touches[1]
  BY <1>4, <1>5, Contained
<1> HIDE DEF h
<1>7. h = S!Built
  BY DEF h, l, u, a, s, S!Built
<1> QED BY <1>4, <1>5, <1>6, <1>7 DEF s

\* The invariant holds at first.
LEMMA InitSInv == S!Init => SInv
<1> SUFFICES ASSUME S!Init PROVE SInv
  OBVIOUS
<1>1. \/ sGraph = S!EmptyGraph
      \/ Last > 0 /\ Scope[1] \in Documents /\ sGraph = S!Built
  BY DEF S!Init, S!Fresh
<1>2. /\ S!Quiet /\ sHead \in 0..Last /\ sMeta \in -1..Last
  BY Numbers DEF S!Init, S!Fresh, S!NoMeta
<1>3. sDisk \in [Specs -> S!DocumentFiles] /\ \A s \in Documents : sDisk[s].plan = 0
  BY <1>2, GraphsAssumption DEF S!Quiet, S!DocumentFiles, S!Texts, S!SpecGraphAssumption
<1>4. sRun \in [Procs -> S!Commands] /\ \A p \in Procs : sRun[p] = S!Idle
  BY <1>2, IdleFits DEF S!Quiet
<1>5. \A p \in Procs : Fits(sRun[p], sGraph)
  BY <1>4, IdleFits
<1>6. \A p \in Procs : S!At(p, "idle")
  BY <1>4 DEF S!At, S!Idle
<1>7. Sole
  BY <1>6 DEF Sole, Alone, Remembers, S!At, Loop, Applying
<1>8. MaxRuns \in Nat /\ Documents \subseteq Specs
  BY GraphsAssumption DEF S!SpecGraphAssumption
<1>9. S!IsGraph(sGraph) /\ S!CommitsAreWhole
      /\ \A s \in Specs : S!Describes(sGraph, sDisk, s) /\ S!Chained(sGraph, s)
  <2>1. CASE sGraph = S!EmptyGraph
    <3>1. DOMAIN sGraph.nodes = {} /\ sGraph.evolved = {} /\ sGraph.commits = {}
      BY <2>1 DEF S!EmptyGraph
    <3> QED BY <2>1, <3>1, EmptyIs DEF S!CommitsAreWhole, S!Describes, S!Chained
  <2>2. CASE Last > 0 /\ Scope[1] \in Documents /\ sGraph = S!Built
    <3>1. /\ S!IsGraph(sGraph) /\ sGraph.commits = {1} /\ sGraph.evolved = {}
          /\ sGraph.contains = {1} \X Touches[1]
          /\ DOMAIN sGraph.nodes = {<<Scope[1], 0>>}
          /\ sGraph.nodes[<<Scope[1], 0>>].text = 0
          /\ sGraph.nodes[<<Scope[1], 0>>].version = 1
      BY <2>2, BuiltIs
    <3>2. S!CommitsAreWhole
      BY <3>1 DEF S!CommitsAreWhole
    <3>3. ASSUME NEW s \in Specs PROVE S!Describes(sGraph, sDisk, s) /\ S!Chained(sGraph, s)
      BY <1>3, <2>2, <3>1 DEF S!Describes, S!Chained
    <3> QED BY <3>1, <3>2, <3>3
  <2> QED BY <1>1, <2>1, <2>2
<1>10. S!TypeOK
  <2>1. sLock \in {"absent", "fresh", "old"} /\ sWriter \in Procs \cup {S!Nobody}
        /\ sTorn \subseteq S!Commits /\ sCut \subseteq Specs /\ sOverlapped \in BOOLEAN
        /\ sStarted = 0
    BY <1>2 DEF S!Quiet
  <2>2. sStarted \in 0..MaxRuns
    BY <1>8, <2>1
  <2> QED BY <1>2, <1>3, <1>4, <1>9, <2>1, <2>2 DEF S!TypeOK
<1>11. S!RecordsMatchTheFiles /\ S!VersionsAreChained
  BY <1>9 DEF S!RecordsMatchTheFiles, S!VersionsAreChained
<1> QED BY <1>5, <1>7, <1>9, <1>10, <1>11 DEF SInv

\* Every step keeps it.
LEMMA NextSInv == SInv /\ [S!Next]_(S!vars) => SInv'
<1> SUFFICES ASSUME SInv, [S!Next]_(S!vars) PROVE SInv'
  OBVIOUS
<1>1. CASE UNCHANGED S!vars
  BY <1>1, StutterStep
<1>2. CASE S!UserCommits \/ S!LockAges
  BY <1>2, UserCommitsStep, LockAgesStep
<1>3. ASSUME NEW p \in Procs, S!Building(p) PROVE SInv'
  BY <1>3, StartBuildStep, ReplaceSpecStep, ReplaceCommitStep, LinkCommitStep,
     StoreFragmentsStep, LoopFailsStep, FinishStep DEF S!Building
<1>4. ASSUME NEW p \in Procs, S!Mining(p) PROVE SInv'
  BY <1>4, StartMineStep, MineRangeStep, MineWritesStep, MineFindsNothingStep DEF S!Mining
<1>5. ASSUME NEW p \in Procs, S!Evolving(p) PROVE SInv'
  BY <1>5, StartEvolveStep, SeesTheLockStep, TakesTheLockStep, SchemaFailsStep, AnalyzeStep,
     PersistNextStep, PersistFailsStep, PhaseOneEndsStep, AdvanceStep, LocateStep,
     JudgeStep,
     AllJudgedStep, KeepsStep, DeprecatesStep, RewritesStep, RewriteFailsStep, BackupStep,
     InstallStep, CommitUpdateStep, CommitFailsStep, ReleaseStep DEF S!Evolving
<1>6. ASSUME NEW p \in Procs, S!Dies(p) PROVE SInv'
  BY <1>6, DiesStep
<1> QED BY <1>1, <1>2, <1>3, <1>4, <1>5, <1>6 DEF S!Next

\* It holds throughout.
LEMMA SInvAlways == S!Spec => []SInv
BY InitSInv, NextSInv, PTL DEF S!Spec

\* What meta.json passes has been persisted, as the last success comes before all
\* that is left.
LEMMA AdvanceIsStored ==
  ASSUME SInv, NEW p \in Procs, S!Advance(p)
         \/ S!Finish(p), NEW c \in sRun[p].took, c <= sMeta'
  PROVE  c \in sGraph.commits
<1>1. CASE S!Finish(p)
  BY <1>1, Facts DEF S!Finish, S!At, Fits
<1>2. CASE S!Advance(p)
  <2> DEFINE r == sRun[p]
  <2>1. r \in S!Commands /\ Fits(r, sGraph) /\ r.at = "advance" /\ sMeta' = S!Max(r.hit)
    BY <1>2, Facts DEF S!Advance, S!At, S!LastSuccess
  <2>2. r.hit \subseteq S!Commits /\ r.hit # {} /\ r.took \subseteq S!Commits
    BY <2>1 DEF Fits, S!Commands
  <2>3. S!Max(r.hit) \in r.hit
    BY <2>2, MaxIs
  <2>4. c \in r.hit
    <3> SUFFICES ASSUME c \notin r.hit PROVE FALSE
      OBVIOUS
    <3>1. S!Max(r.hit) < c
      BY <2>1, <2>3 DEF Fits
    <3>2. c \in 1..Last /\ S!Max(r.hit) \in 1..Last /\ c <= S!Max(r.hit)
      BY <2>1, <2>2, <2>3, Numbers
    <3> HIDE DEF r
    <3> QED BY <3>1, <3>2, Numbers
  <2> QED BY <2>1, <2>4 DEF Fits
<1> QED BY <1>1, <1>2

-----------------------------------------------------------------------------
(* The two graphs beside each other.                                         *)

\* A behaviour of the two is one of the graph of the code.
LEMMA SyncBehaves == GraphsSpec => Spec
<1>1. GraphsInit => Init
  BY DEF GraphsInit
<1>2. [GraphsNext]_allVars => [Next]_vars
  BY DEF GraphsNext, allVars
<1> QED BY <1>1, <1>2, PTL DEF GraphsSpec, Spec

\* And one of the graph of the specs.
LEMMA SpecsBehave == GraphsSpec => S!Spec
<1>1. GraphsInit => S!Init
  BY DEF GraphsInit, S!Init
<1>2. [GraphsNext]_allVars => [S!Next]_(S!vars)
  BY DEF GraphsNext, allVars, sVars, S!vars
<1> QED BY <1>1, <1>2, PTL DEF GraphsSpec, S!Spec

\* The states are of their types: a foreign key of the graph of the specs finds its row
\* after every statement of every command, whatever else runs and whoever is killed.
THEOREM GraphsAreTyped == GraphsSpec => []TypesOK
<1>1. Spec => []TypeOK
  BY GraphIsTyped
<1>2. S!Spec => []SInv
  BY SInvAlways
<1>3. TypeOK /\ SInv => TypesOK
  BY DEF TypesOK, SInv
<1> QED BY <1>1, <1>2, <1>3, SyncBehaves, SpecsBehave, PTL

\* The record of a spec describes its document, and that of its last version the .bak,
\* unless two commands overlapped or one was cut between the files and the tables.
THEOREM RecordsDescribeTheFiles == GraphsSpec => []RecordsMatchTheFiles
<1>1. S!Spec => []SInv
  BY SInvAlways
<1>2. SInv => RecordsMatchTheFiles
  BY DEF SInv, RecordsMatchTheFiles
<1> QED BY <1>1, <1>2, SpecsBehave, PTL

\* From a spec EVOLVED_FROM leads through all its versions, unless two commands
\* overlapped, and a commit that is not being replaced has all its fragments.
THEOREM NothingIsTornOff == GraphsSpec => []GraphHangsTogether
<1>1. S!Spec => []SInv
  BY SInvAlways
<1>2. SInv => GraphHangsTogether
  BY DEF SInv, GraphHangsTogether
<1> QED BY <1>1, <1>2, SpecsBehave, PTL

\* A command moves meta.json only over commits that it has put in the graph, whichever
\* of its transactions failed and whatever ran beside it.
THEOREM MetaPassesWhatIsStored == GraphsSpec => AdvancesOverStored
<1>1. SInv /\ [S!Next]_(S!vars) =>
        [\A p \in Procs : S!Advance(p) \/ S!Finish(p) =>
           \A c \in sRun[p].took : c <= sMeta' => c \in sGraph.commits]_(S!vars)
  BY AdvanceIsStored
<1>2. S!Spec => AdvancesOverStored
  BY <1>1, SInvAlways, PTL DEF S!Spec, AdvancesOverStored, S!AdvancesOverStored
<1> QED BY <1>2, SpecsBehave, PTL
=============================================================================
