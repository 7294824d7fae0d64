----------------------------- MODULE QueryCache -----------------------------
(***************************************************************************)
(* The opt-in cache of tool answers: src/mcp/query-cache.ts as             *)
(* ToolHandler.execute of src/mcp/tools.ts uses it.  Answers are rows of   *)
(* the project's database, with the set of their keys in memory; both are  *)
(* dropped when the newest indexing time of the project's files changes.   *)
(* A tool runs between the lookup and the store, and the index, the        *)
(* database file and the process may all be replaced meanwhile.            *)
(*                                                                         *)
(* An answer is [says, at]: the version of the graph it was computed from  *)
(* and the stamp of that version, or Busy when the deadline answered.      *)
(***************************************************************************)
EXTENDS Naturals, FiniteSets, FiniteSetsExt

CONSTANTS
  Files,
  Keys,       \* of tool calls, by buildMcpQueryCacheKey
  Calls,
  MaxChanges  \* bound of the model: changes of the index, replacements, restarts

QueryCacheAssumption ==
  MaxChanges \in Nat /\ IsFiniteSet(Files) /\ Files # {}

Unset == 0    \* no file, no stamp, no metadata
Busy == [says |-> 0, at |-> 0]

VARIABLES
  \* the database
  version,     \* of the graph
  indexedAt,   \* of each file
  rows,        \* mcp_query_cache
  storedStamp, \* query_cache_index_stamp
  connection,  \* which file is at the path
  \* McpQueryCacheIndex, and the instance's connection
  keys, syncedStamp, held,
  \* the calls
  pc, key, builder, read, hit,
  \* history
  overtaken,   \* keys whose row was stored by a call that a change overtook
  clock        \* changes so far

database == <<version, indexedAt, rows, storedStamp, connection>>
memory == <<keys, syncedStamp, held>>
calls == <<pc, key, builder, read, hit>>
vars == <<database, memory, calls, overtaken, clock>>

\* getLastIndexedAt
IndexStamp == Max({indexedAt[f] : f \in Files})
Now == [says |-> version, at |-> IndexStamp]
Answers == [says : 0 .. MaxChanges + 1, at : 0 .. MaxChanges + 1]

\* The types of the state.  The keys of a set that was synchronized are the rows'.
TypeOK ==
  /\ version \in 1 .. MaxChanges + 1 /\ indexedAt \in [Files -> 0 .. MaxChanges + 1]
  /\ rows \in [Keys -> Answers \cup {<<>>}] /\ storedStamp \in 0 .. MaxChanges + 1
  /\ connection \in 1 .. MaxChanges + 1 /\ held \in 1 .. connection
  /\ keys \subseteq Keys /\ syncedStamp \in 0 .. MaxChanges + 1
  /\ pc \in [Calls -> {"idle", "running", "done", "failed"}]
  /\ key \in [Calls -> Keys] /\ builder \in [Calls -> 1 .. MaxChanges + 1]
  /\ read \in [Calls -> Answers \cup {<<>>}] /\ hit \in [Calls -> BOOLEAN]
  /\ overtaken \subseteq Keys /\ clock \in 0 .. MaxChanges
  /\ held = connection /\ syncedStamp # Unset => keys = {k \in Keys : rows[k] # <<>>}

Empty == [k \in Keys |-> <<>>]
Init ==
  /\ version = 1 /\ indexedAt = [f \in Files |-> 1]
  /\ rows = Empty /\ storedStamp = Unset /\ connection = 1
  /\ keys = {} /\ syncedStamp = Unset /\ held = 1
  /\ pc = [c \in Calls |-> "idle"] /\ key \in [Calls -> Keys]
  /\ builder = [c \in Calls |-> 1] /\ read = [c \in Calls |-> <<>>]
  /\ hit = [c \in Calls |-> FALSE]
  /\ overtaken = {} /\ clock = 0

-----------------------------------------------------------------------------
Change == clock < MaxChanges /\ clock' = clock + 1 /\ version' = version + 1

\* A sync indexes a file, or only removes one.
Reindex(f) ==
  /\ Change
  /\ indexedAt' = [indexedAt EXCEPT ![f] = version + 1]
  /\ UNCHANGED <<rows, storedStamp, connection, memory, calls, overtaken>>
Remove(f) ==
  /\ Change
  /\ indexedAt[f] # Unset /\ indexedAt' = [indexedAt EXCEPT ![f] = Unset]
  /\ UNCHANGED <<rows, storedStamp, connection, memory, calls, overtaken>>

\* .homegraph/ is removed and created again.
Replace ==
  /\ Change
  /\ connection' = connection + 1
  /\ indexedAt' = [f \in Files |-> version + 1]
  /\ rows' = Empty /\ storedStamp' = Unset /\ overtaken' = {}
  /\ UNCHANGED <<memory, calls>>

\* The server ends, and with it its calls.
Restart ==
  /\ clock < MaxChanges /\ clock' = clock + 1
  /\ keys' = {} /\ syncedStamp' = Unset /\ held' = connection
  /\ pc' = [c \in Calls |-> IF pc[c] = "running" THEN "failed" ELSE pc[c]]
  /\ UNCHANGED <<database, key, builder, read, hit, overtaken>>

-----------------------------------------------------------------------------
\* freshen: a replaced database is opened, and the set reset.
Freshened == IF held = connection THEN syncedStamp ELSE Unset

\* ensureValid
AnyStamp == TRUE
ThisStamp == storedStamp = IndexStamp
EnsureValid ==
  IF ThisStamp
    THEN /\ keys' = IF Freshened = IndexStamp THEN keys ELSE {k \in Keys : rows[k] # <<>>}
         /\ UNCHANGED <<rows, storedStamp, overtaken>>
    ELSE keys' = {} /\ rows' = Empty /\ storedStamp' = IndexStamp /\ overtaken' = {}

\* execute, up to the lookup.
Begin(c) ==
  /\ pc[c] = "idle"
  /\ EnsureValid
  /\ syncedStamp' = IndexStamp /\ held' = connection
  /\ builder' = [builder EXCEPT ![c] = connection]
  /\ hit' = [hit EXCEPT ![c] = key[c] \in keys' /\ rows'[key[c]] # <<>>]
  /\ read' = [read EXCEPT ![c] = rows'[key[c]]]
  /\ pc' = [pc EXCEPT ![c] = IF hit'[c] THEN "done" ELSE "running"]
  /\ UNCHANGED <<version, indexedAt, connection, key, clock>>

\* The tool reads the graph, or the deadline answers for it.
Read(c) ==
  /\ pc[c] = "running" /\ read[c] = <<>>
  /\ \E a \in {Now, Busy} : read' = [read EXCEPT ![c] = a]
  /\ UNCHANGED <<database, memory, pc, key, builder, hit, overtaken, clock>>

\* setEntry, through the connection of the lookup, which may have been closed.
Store(c) ==
  /\ pc[c] = "running" /\ read[c] # <<>>
  /\ IF builder[c] = held
       THEN /\ IF held = connection
                 THEN /\ rows' = [rows EXCEPT ![key[c]] = read[c]]
                      /\ overtaken' = IF read[c].at = storedStamp THEN overtaken \ {key[c]}
                                                                   ELSE overtaken \cup {key[c]}
                 ELSE UNCHANGED <<rows, overtaken>>
            /\ keys' = keys \cup {key[c]}
            /\ pc' = [pc EXCEPT ![c] = "done"]
       ELSE /\ pc' = [pc EXCEPT ![c] = "failed"]
            /\ UNCHANGED <<rows, keys, overtaken>>
  /\ UNCHANGED <<version, indexedAt, storedStamp, connection, syncedStamp, held,
                 key, builder, read, hit, clock>>

Next ==
  \/ \E f \in Files : Reindex(f) \/ Remove(f)
  \/ Replace \/ Restart
  \/ \E c \in Calls : Begin(c) \/ Read(c) \/ Store(c)
Spec == Init /\ [][Next]_vars

-----------------------------------------------------------------------------
(* What the code promises.                                                  *)

\* Answers are dropped wholesale when the stamp changes: a hit was computed under
\* the stamp of the moment it is served, unless a call that a change overtook
\* stored it, or the deadline did.
HitsAreOfThisStamp ==
  [][\A c \in Calls : pc[c] = "idle" /\ hit'[c] =>
       \/ read'[c].at = IndexStamp
       \/ key[c] \in overtaken']_vars
=============================================================================
