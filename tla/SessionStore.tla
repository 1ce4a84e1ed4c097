---------------------------- MODULE SessionStore ----------------------------
(***************************************************************************)
(* The SQLite store of claw-db: sessions, messages, transcript events and  *)
(* channel states, opened and migrated by initialize, which a crash may    *)
(* cut short.  SQLite itself is external: a statement is one step, and     *)
(* foreign keys are enforced on a connection that asked for it.  Columns   *)
(* that no statement looks at are left out.                                *)
(***************************************************************************)
EXTENDS Naturals, Sequences, FiniteSets, SequencesExt

CONSTANTS
  Keys,      \* session keys
  Channels,  \* channel and account
  MaxRows,   \* bound: rows ever inserted into a table
  MaxStamp   \* bound: timestamps

ASSUME StoreAssumption ==
  IsFiniteSet(Keys) /\ MaxRows \in Nat /\ MaxStamp \in Nat

CurrentVersion == 1
Creates == 7   \* the statements of MIGRATION_V1: four tables, then three indexes
Row == [id : 1..MaxRows, key : Keys, at : 0..MaxStamp]

VARIABLES
  conn,       \* closed, open, wal, checked (foreign keys on), migrated, ready
  tables,     \* how many of MIGRATION_V1's tables and indexes exist
  userVersion,\* the database's schema version
  sessions,   \* session keys, with updated_at
  messages,   \* rows of messages
  events,     \* rows of transcript_events
  lastId,     \* last id given to a message and to an event
  states,     \* channel_state
  stamp       \* history: the last created_at given by a caller

storeVars == <<conn, tables, userVersion, sessions, messages, events, lastId, states, stamp>>
rowVars == <<sessions, messages, events, lastId, states, stamp>>

StoreInit ==
  /\ conn = "closed" /\ tables = 0 /\ userVersion = 0
  /\ sessions = {} /\ messages = {} /\ events = {}
  /\ lastId = [messages |-> 0, events |-> 0]
  /\ states = [c \in Channels |-> "none"] /\ stamp = 0

\* The next CREATE of MIGRATION_V1, each committed by itself; what exists already
\* (IF NOT EXISTS) is passed over.  A database of this version is left alone.
Migrate ==
  \/ userVersion < 1 /\ tables < Creates /\ tables' = tables + 1 /\ UNCHANGED conn
  \/ (userVersion >= 1 \/ tables = Creates) /\ conn' = "migrated" /\ UNCHANGED tables

\* Mutant: the version is written before the tables are there.
InitializeVersionFirst ==
  /\ \/ conn = "open" /\ conn' = "wal" /\ UNCHANGED <<tables, userVersion>>
     \/ conn = "wal" /\ conn' = "checked" /\ UNCHANGED tables /\ userVersion' = CurrentVersion
     \/ conn = "checked" /\ Migrate /\ UNCHANGED userVersion
     \/ conn = "migrated" /\ conn' = "ready" /\ UNCHANGED <<tables, userVersion>>
  /\ UNCHANGED rowVars

\* open, then the steps of initialize: WAL mode, foreign keys, the tables and
\* indexes, the version; each is a statement of its own.
Open ==
  /\ conn = "closed" /\ conn' = "open"
  /\ UNCHANGED <<tables, userVersion, rowVars>>

InitializeStep ==
  /\ \/ conn = "open" /\ conn' = "wal" /\ UNCHANGED <<tables, userVersion>>
     \/ conn = "wal" /\ conn' = "checked" /\ UNCHANGED <<tables, userVersion>>
     \/ conn = "checked" /\ Migrate /\ UNCHANGED userVersion
     \/ conn = "migrated" /\ conn' = "ready" /\ userVersion' = CurrentVersion /\ UNCHANGED tables
  /\ UNCHANGED rowVars

StoreCrash ==
  /\ conn # "closed" /\ conn' = "closed"
  /\ UNCHANGED <<tables, userVersion, rowVars>>

Referenced(k) == \E r \in messages \cup events : r.key = k

Ready == conn = "ready" /\ tables = Creates
\* Mutant: ids are counted from the rows that are there.
InsertReusingIds(rows, table, k, at) ==
  rows \cup {[id |-> Cardinality(rows) + 1, key |-> k, at |-> at]}

InsertRow(rows, table, k, at) ==
  rows \cup {[id |-> lastId[table] + 1, key |-> k, at |-> at]}

CreateSession(k) ==
  /\ Ready /\ sessions' = sessions \cup {k}    \* an error, if it is there
  /\ UNCHANGED <<conn, tables, userVersion, messages, events, lastId, states, stamp>>

\* Foreign keys keep a session that rows refer to.
DeleteSession(k) ==
  /\ Ready /\ ~Referenced(k)
  /\ sessions' = sessions \ {k}
  /\ UNCHANGED <<conn, tables, userVersion, messages, events, lastId, states, stamp>>

\* Callers give the time of a row; here, clocks do not run backwards.
InsertMessage(k, at) ==
  /\ Ready /\ k \in sessions /\ at >= stamp /\ lastId.messages < MaxRows
  /\ messages' = InsertRow(messages, "messages", k, at) /\ stamp' = at
  /\ lastId' = [lastId EXCEPT !.messages = @ + 1]
  /\ UNCHANGED <<conn, tables, userVersion, sessions, events, states>>

InsertEvent(k, at) ==
  /\ Ready /\ k \in sessions /\ at >= stamp /\ lastId.events < MaxRows
  /\ events' = InsertRow(events, "events", k, at) /\ stamp' = at
  /\ lastId' = [lastId EXCEPT !.events = @ + 1]
  /\ UNCHANGED <<conn, tables, userVersion, sessions, messages, states>>

DeleteTranscript(k) ==
  /\ Ready /\ events' = {r \in events : r.key # k}
  /\ UNCHANGED <<conn, tables, userVersion, sessions, messages, lastId, states, stamp>>

UpsertChannelState(c, s) ==
  /\ Ready /\ states' = [states EXCEPT ![c] = s]
  /\ UNCHANGED <<conn, tables, userVersion, sessions, messages, events, lastId, stamp>>

DeleteChannelState(c) ==
  /\ Ready /\ states' = [states EXCEPT ![c] = "none"]
  /\ UNCHANGED <<conn, tables, userVersion, sessions, messages, events, lastId, stamp>>

StoreNext ==
  \/ Open \/ InitializeStep \/ StoreCrash
  \/ \E k \in Keys :
       \/ CreateSession(k) \/ DeleteSession(k) \/ DeleteTranscript(k)
       \/ \E at \in 0..MaxStamp : InsertMessage(k, at) \/ InsertEvent(k, at)
  \/ \E c \in Channels : UpsertChannelState(c, "running") \/ DeleteChannelState(c)

StoreSpec == StoreInit /\ [][StoreNext]_storeVars

\* ORDER BY created_at, id; LIMIT n keeps the oldest.
Precedes(x, y) == x.at < y.at \/ (x.at = y.at /\ x.id < y.id)
Ordered(rows) ==
  CHOOSE s \in [1..Cardinality(rows) -> rows] : \A i, j \in DOMAIN s : i < j => Precedes(s[i], s[j])
GetMessagesBySession(k, limit) ==
  LET all == Ordered({r \in messages : r.key = k})
  IN  SubSeq(all, 1, IF limit < Len(all) THEN limit ELSE Len(all))
GetTranscript(k) == Ordered({r \in events : r.key = k})
GetTranscriptRange(k, from, to) == Ordered({r \in events : r.key = k /\ from <= r.at /\ r.at <= to})
GetMessagesByTimeRange(from, to) == Ordered({r \in messages : from <= r.at /\ r.at <= to})

-----------------------------------------------------------------------------

StoreTypeOK ==
  /\ conn \in {"closed", "open", "wal", "checked", "migrated", "ready"}
  /\ tables \in 0..Creates /\ userVersion \in 0..CurrentVersion
  /\ lastId \in [messages : 0..MaxRows, events : 0..MaxRows]
  /\ sessions \subseteq Keys /\ messages \subseteq Row /\ events \subseteq Row
  /\ states \in [Channels -> {"none", "running"}] /\ stamp \in 0..MaxStamp

\* A store that initialize has returned is usable, at whatever step earlier
\* initialisations were cut short.
ReadyHasTables == conn = "ready" => tables = Creates

\* Every row belongs to a session; a transcript and a message list come back
\* in the order of insertion, ids are not given twice though rows are deleted,
\* and a limited list is a beginning of the whole.
TranscriptInOrder ==
  /\ \A r \in messages \cup events : r.key \in sessions
  /\ \A k \in Keys :
       LET t == GetTranscript(k) m == GetMessagesBySession(k, MaxRows) IN
       /\ \A i, j \in DOMAIN t : i < j => t[i].id < t[j].id
       /\ \A i, j \in DOMAIN m : i < j => m[i].id < m[j].id
       /\ IsPrefix(GetMessagesBySession(k, 1), m)
       /\ GetTranscriptRange(k, 0, MaxStamp) = t
  /\ \A r \in events : r.id <= lastId.events
  /\ \A r \in events : \A q \in events : r.id = q.id => r = q
  /\ Range(GetMessagesByTimeRange(0, MaxStamp)) = messages

\* A store that is ready has its tables, its rows belong to sessions and come
\* back in the order in which they were inserted.
StoreKeepsRows == StoreTypeOK /\ ReadyHasTables /\ TranscriptInOrder
=============================================================================
