-------------------------------- MODULE Shelf --------------------------------
(***************************************************************************)
(* The rows that operators edit by hand: catalog entries of stories,       *)
(* library presets, provider connections, preferences.  Every save reads   *)
(* the row, compares the version the client names with the version read,   *)
(* and updates the columns whose value differs from what it had read, and  *)
(* the version; the row is not locked in between, so a second session may  *)
(* save meanwhile.  A preset's revision is a row of its own under          *)
(* (preset, number).                                                       *)
(***************************************************************************)
EXTENDS Naturals, Sequences, FiniteSets

CONSTANTS Entries,      \* stories with a catalog entry
          Presets,      \* library presets
          BuiltIn,      \* the presets of them that are read-only
          Connections,  \* provider connections
          Preferences,  \* the operator's preferences row
          Calls, MaxSaves   \* bound: saves begun

\* Every row is of one table.
ShelfAssumption ==
  /\ BuiltIn \subseteq Presets /\ MaxSaves \in Nat
  /\ Entries \cap (Presets \cup Connections \cup Preferences) = {}
  /\ Presets \cap (Connections \cup Preferences) = {} /\ Connections \cap Preferences = {}

Rows == Entries \cup Presets \cup Connections \cup Preferences

VARIABLES
  rows,       \* row -> its version and its columns
  revisions,  \* preset -> the numbers of its stored revisions
  calls,      \* call -> the save it is in the middle of, or Idle
  saves,      \* how many saves have begun; also a fresh value for a column
  meant       \* history: row -> column -> value of the last save to change it

vars == <<rows, revisions, calls, saves, meant>>

Idle == [row |-> "none"]
Never == 0      \* archived_at, last_played_at when unset; any first value

Columns(r) ==
  CASE r \in Entries -> {"title", "last_played_at", "archived_at"}
    [] r \in Presets -> {"archived_at", "current_revision"}
    [] r \in Connections -> {"endpoint", "credential_env"}
    [] OTHER -> {"gameplay", "accessibility"}

\* The handlers: the column each changes and the value it gives it.
Rename(r, now) == [column |-> "title", value |-> now]
Open(r, now) == [column |-> "last_played_at", value |-> now]
Archive(r, now) == [column |-> "archived_at", value |-> now]
Unarchive(r, now) == [column |-> "archived_at", value |-> Never]
Revise(r, now) == [column |-> "current_revision",
                   value |-> rows[r].columns["current_revision"] + 1]
SaveProvider(r, now) == {[column |-> k, value |-> now] : k \in Columns(r)}
SavePreferences(r, now) == {[column |-> k, value |-> now] : k \in Columns(r)}

Handlers(r, now) ==
  CASE r \in Entries -> {Rename(r, now), Open(r, now), Archive(r, now), Unarchive(r, now)}
    [] r \in Presets \ BuiltIn -> {Archive(r, now), Unarchive(r, now), Revise(r, now)}
    [] r \in BuiltIn -> {Archive(r, now), Unarchive(r, now)}
    [] r \in Connections -> SaveProvider(r, now)
    [] OTHER -> SavePreferences(r, now)

\* A row of the catalog: metadata_version and what can be changed of the rest.
CatalogRow == [version : 1..(MaxSaves + 1),
               columns : [{"title", "last_played_at", "archived_at"} -> 0..MaxSaves]]

TypeOK ==
  /\ \A r \in Entries : rows[r] \in CatalogRow
  /\ \A r \in Rows : DOMAIN rows[r].columns = Columns(r) /\ rows[r].version \in 1..(MaxSaves + 1)
  /\ \A c \in Calls : calls[c] = Idle \/ calls[c].row \in Rows
  /\ saves \in 0..MaxSaves

Init ==
  /\ rows = [r \in Rows |->
       [version |-> 1,
        columns |-> [k \in Columns(r) |-> IF k = "current_revision" THEN 1 ELSE Never]]]
  /\ revisions = [p \in Presets |-> {1}]
  /\ calls = [c \in Calls |-> Idle]
  /\ saves = 0
  /\ meant = [r \in Rows |-> rows[r].columns]

(* The session reads the row; a version that is not the row's is refused.  *)
Read(c, r) ==
  /\ calls[c] = Idle /\ saves < MaxSaves
  /\ \E change \in Handlers(r, saves + 1) :
       calls' = [calls EXCEPT ![c] = [row |-> r, seen |-> rows[r], change |-> change]]
  /\ saves' = saves + 1
  /\ UNCHANGED <<rows, revisions, meant>>

\* The columns an UPDATE carries: those the save gives a new value.
Written_All(call, columns) == [call.seen.columns EXCEPT ![call.change.column] = call.change.value]
Written(call, columns) ==
  IF call.change.value = call.seen.columns[call.change.column]
  THEN columns
  ELSE [columns EXCEPT ![call.change.column] = call.change.value]

\* The insert of a revision whose number is stored already fails.
Collides(call) ==
  /\ call.change.column = "current_revision"
  /\ call.change.value \in revisions[call.row]

(* The flush and the commit.                                               *)
Write(c) ==
  LET call == calls[c]
      r == call.row
      new == call.change.value # call.seen.columns[call.change.column]
  IN /\ call # Idle /\ ~Collides(call)
     /\ rows' = [rows EXCEPT ![r].version = call.seen.version + 1,
                             ![r].columns = Written(call, @)]
     /\ revisions' = IF call.change.column = "current_revision"
                     THEN [revisions EXCEPT ![r] = @ \cup {call.change.value}]
                     ELSE revisions
     /\ meant' = IF new THEN [meant EXCEPT ![r][call.change.column] = call.change.value]
                        ELSE meant
     /\ calls' = [calls EXCEPT ![c] = Idle]
     /\ UNCHANGED saves

Refuse(c) ==
  /\ calls[c] # Idle /\ Collides(calls[c])
  /\ calls' = [calls EXCEPT ![c] = Idle]
  /\ UNCHANGED <<rows, revisions, saves, meant>>

Next == \E c \in Calls : (\E r \in Rows : Read(c, r)) \/ Write(c) \/ Refuse(c)

Spec == Init /\ [][Next]_vars

(* Two saves of one row that overlap disturb only what each changes: a     *)
(* revision appended meanwhile survives an archive, an archive survives a  *)
(* rename, though both had read the row before either wrote it ...         *)
SavesKeepColumns == \A r \in Rows : rows[r].columns = meant[r]

\* ... and current_revision always names the newest stored revision, with
\* none missing below it, so that the next number is free.
CurrentIsNewest ==
  \A p \in Presets : revisions[p] = 1..rows[p].columns["current_revision"]

LibraryHolds == SavesKeepColumns /\ CurrentIsNewest
==============================================================================
