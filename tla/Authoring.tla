------------------------------ MODULE Authoring ------------------------------
(***************************************************************************)
(* Turning a draft into a story.  A draft pins a revision of a library     *)
(* preset; POST /stories loads it in one session and builds the world,     *)
(* its setup snapshot, its catalog entry and the receipt of the            *)
(* idempotency key in another, which commits once.  Clients repeat calls,  *)
(* edit and delete drafts meanwhile, and the process may stop between any  *)
(* two of its statements.                                                  *)
(*                                                                         *)
(* Statements of one session see what others have committed (PostgreSQL's  *)
(* READ COMMITTED).  An UPDATE of a draft waits while another session has  *)
(* updated it and not ended, and writes the columns whose value differs    *)
(* from what the session had read.                                         *)
(***************************************************************************)
EXTENDS Naturals, Sequences, FiniteSets

CONSTANTS Presets, Contents, Drafts, Keys, Calls,
          First,          \* the content of every preset's revision 1
          MaxRevision,    \* bound: revisions of a preset
          MaxVersion,     \* bound: versions a draft is taken through
          MaxStories      \* bound: stories created

Free == "free"

AuthoringAssumption ==
  /\ First \in [Presets -> Contents] /\ Free \notin Calls
  /\ {MaxRevision, MaxVersion, MaxStories} \subseteq Nat \ {0}

VARIABLES
  library,   \* preset -> its revisions' contents, oldest first
  drafts,    \* draft -> its row
  stories,   \* the committed stories, in order: world, setup and provenance
  receipts,  \* idempotency key -> the receipt kept for it
  calls,     \* call -> how far its handler is and what it has read
  lock,      \* draft -> the session that holds its row, or Free
  told       \* history: <<key, story>> a client was answered with

vars == <<library, drafts, stories, receipts, calls, lock, told>>

\* A pin of revision 0 leaves the number out of the draft.
Pins == [preset : Presets, revision : 0..MaxRevision]

Gone == [version |-> 0]
NoReceipt == [story |-> 0]
Idle == [at |-> "idle"]

Present(d) == drafts[d] # Gone

\* preset_revision or 1.
Pinned(pin) == IF pin.revision = 0 THEN 1 ELSE pin.revision
Readable(pin) == Pinned(pin) <= Len(library[pin.preset])
Resolved_Newest(pin) ==
  library[pin.preset][IF pin.revision = 0 THEN Len(library[pin.preset])
                                          ELSE pin.revision]
Resolved(pin) == library[pin.preset][Pinned(pin)]

\* What makes two requests the same request.
RequestHash(c) == [draft |-> calls[c].draft, expected |-> calls[c].expected,
                   pin |-> calls[c].row.pin]

\* The draft's row after a save: created_world_id is never among the columns.
SavedDraft(now, seen, pin, expected) ==
  [now EXCEPT !.version = expected + 1,
              !.pin = IF pin = seen.pin THEN @ ELSE pin]

\* The rows: a preset's revisions are numbered without gaps, a draft carries no
\* world, a setup its provenance, a receipt the world it stands for.
RevisionRows(p) == library[p] \in Seq(Contents) /\ Len(library[p]) \in 1..MaxRevision
DraftRow == [version : 1..(MaxVersion + 1), pin : Pins, world : {0}]
SetupRow == [key : Keys, draft : Drafts, preset : Presets, revision : 1..MaxRevision,
             content : Contents]
ReceiptRow(r) == r.story \in DOMAIN stories /\ r.hash.draft \in Drafts

TypeOK ==
  /\ \A p \in Presets : RevisionRows(p)
  /\ \A d \in Drafts : Present(d) => drafts[d] \in DraftRow
  /\ \A i \in DOMAIN stories : stories[i] \in SetupRow
  /\ \A k \in Keys : receipts[k] = NoReceipt \/ ReceiptRow(receipts[k])
  /\ lock \in [Drafts -> Calls \cup {Free}]

Init ==
  /\ library = [p \in Presets |-> <<First[p]>>]
  /\ \E pins \in [Drafts -> {pin \in Pins : pin.revision <= 2}] :
       drafts = [d \in Drafts |-> [version |-> 1, pin |-> pins[d], world |-> 0]]
  /\ stories = <<>>
  /\ receipts = [k \in Keys |-> NoReceipt]
  /\ calls = [c \in Calls |-> Idle]
  /\ lock = [d \in Drafts |-> Free]
  /\ told = {}

(* The library: a revision is appended under its number, never rewritten.  *)
Revise(p, content) ==
  /\ Len(library[p]) < MaxRevision
  /\ library' = [library EXCEPT ![p] = Append(@, content)]
  /\ UNCHANGED <<drafts, stories, receipts, calls, lock, told>>

(* PATCH /story-drafts: read and compare, then update.                     *)
BeginEdit(c, d) ==
  /\ calls[c] = Idle /\ Present(d)
  /\ drafts[d].world = 0
  /\ drafts[d].version <= MaxVersion
  /\ calls' = [calls EXCEPT ![c] = [at |-> "editing", draft |-> d, row |-> drafts[d]]]
  /\ UNCHANGED <<library, drafts, stories, receipts, lock, told>>

EndEdit(c, pin) ==
  LET d == calls[c].draft
  IN /\ calls[c].at = "editing"
     /\ lock[d] = Free
     /\ drafts' = IF Present(d)
                  THEN [drafts EXCEPT ![d] = SavedDraft(@, calls[c].row, pin,
                                                        calls[c].row.version)]
                  ELSE drafts
     /\ calls' = [calls EXCEPT ![c] = Idle]
     /\ UNCHANGED <<library, stories, receipts, lock, told>>

DeleteDraft(d) ==
  /\ Present(d) /\ lock[d] = Free
  /\ drafts[d].world = 0
  /\ drafts' = [drafts EXCEPT ![d] = Gone]
  /\ UNCHANGED <<library, stories, receipts, calls, lock, told>>

(* POST /stories: the route loads the draft and ends that session.         *)
Load(c, k, d, expected) ==
  /\ calls[c] = Idle /\ Present(d)
  /\ expected <= drafts[d].version
  /\ Len(stories) < MaxStories
  /\ calls' = [calls EXCEPT ![c] = [at |-> "loaded", key |-> k, draft |-> d,
                                    expected |-> expected, row |-> drafts[d]]]
  /\ UNCHANGED <<library, drafts, stories, receipts, lock, told>>

Known(k) == receipts[k] # NoReceipt
KeyTaken_Never(k) == FALSE
\* The receipt's primary key, seen when this call's own receipt is inserted.
KeyTaken(k) == receipts[k] # NoReceipt

\* A receipt of the same request is replayed, of another one refused.
Replay(c) ==
  LET receipt == receipts[calls[c].key]
  IN /\ told' = IF receipt.hash = RequestHash(c)
                THEN told \cup {<<calls[c].key, receipt.story>>}
                ELSE told
     /\ calls' = [calls EXCEPT ![c] = Idle]

\* The session of create_story: an earlier receipt first.
FindReceipt(c) ==
  /\ calls[c].at = "loaded" /\ Known(calls[c].key)
  /\ Replay(c)
  /\ UNCHANGED <<library, drafts, stories, receipts, lock>>

\* Otherwise the presets are resolved and the rows of the world written,
\* unless the draft is consumed, a revision is missing or the version stale.
Instantiate(c) ==
  LET row == calls[c].row
  IN /\ calls[c].at = "loaded" /\ ~Known(calls[c].key)
     /\ calls' = [calls EXCEPT ![c] =
          IF row.world = 0 /\ Readable(row.pin) /\ row.version = calls[c].expected
          THEN [at |-> "built", key |-> @.key, draft |-> @.draft,
                expected |-> @.expected, row |-> row, content |-> Resolved(row.pin)]
          ELSE Idle]
     /\ UNCHANGED <<library, drafts, stories, receipts, lock, told>>

\* save_draft reads the row again in this session ...
CheckDraft(c) ==
  LET d == calls[c].draft
  IN /\ calls[c].at = "built"
     /\ calls' = [calls EXCEPT ![c] =
          IF Present(d) /\ drafts[d].version = calls[c].expected
          THEN [at |-> "checked", key |-> @.key, draft |-> d, expected |-> @.expected,
                row |-> @.row, content |-> @.content, seen |-> drafts[d]]
          ELSE Idle]
     /\ UNCHANGED <<library, drafts, stories, receipts, lock, told>>

\* ... and updates it, once no other session holds it.
HoldDraft(c) ==
  LET d == calls[c].draft
  IN /\ calls[c].at = "checked"
     /\ lock[d] = Free
     /\ IF Present(d)
        THEN /\ calls' = [calls EXCEPT ![c].at = "held"]
             /\ lock' = [lock EXCEPT ![d] = c]
        ELSE /\ calls' = [calls EXCEPT ![c] = Idle]
             /\ UNCHANGED lock
     /\ UNCHANGED <<library, drafts, stories, receipts, told>>

Story(c) == [key |-> calls[c].key, draft |-> calls[c].draft,
             preset |-> calls[c].row.pin.preset,
             revision |-> Pinned(calls[c].row.pin), content |-> calls[c].content]

Receipt(c) == [story |-> Len(stories) + 1, hash |-> RequestHash(c)]

\* The receipt goes in last and everything becomes visible at once.
Commit(c) ==
  LET k == calls[c].key
      d == calls[c].draft
  IN /\ calls[c].at = "held" /\ ~KeyTaken(k)
     /\ stories' = Append(stories, Story(c))
     /\ receipts' = [receipts EXCEPT ![k] = Receipt(c)]
     /\ drafts' = [drafts EXCEPT ![d] = SavedDraft(@, calls[c].seen, calls[c].row.pin,
                                                   calls[c].expected)]
     /\ lock' = [lock EXCEPT ![d] = Free]
     /\ told' \in {told, told \cup {<<k, Len(stories) + 1>>}}
     /\ calls' = [calls EXCEPT ![c] = Idle]
     /\ UNCHANGED library

\* A receipt that collides rolls everything back and replays the winner's.
LoseRace(c) ==
  /\ calls[c].at = "held" /\ KeyTaken(calls[c].key)
  /\ lock' = [lock EXCEPT ![calls[c].draft] = Free]
  /\ Replay(c)
  /\ UNCHANGED <<library, drafts, stories, receipts>>

\* The process or the client's connection dies: the session's work is undone.
Abandon(c) ==
  /\ calls[c].at \in {"built", "checked", "held"}
  /\ calls' = [calls EXCEPT ![c] = Idle]
  /\ lock' = [d \in Drafts |-> IF lock[d] = c THEN Free ELSE lock[d]]
  /\ UNCHANGED <<library, drafts, stories, receipts, told>>

Next ==
  \/ \E p \in Presets, content \in Contents : Revise(p, content)
  \/ \E d \in Drafts : DeleteDraft(d)
  \/ \E c \in Calls :
       \/ \E d \in Drafts : BeginEdit(c, d)
       \/ \E pin \in Pins : EndEdit(c, pin)
       \/ \E k \in Keys, d \in Drafts, expected \in 1..MaxVersion :
            Load(c, k, d, expected)
       \/ FindReceipt(c) \/ Instantiate(c) \/ CheckDraft(c) \/ HoldDraft(c)
       \/ Commit(c) \/ LoseRace(c) \/ Abandon(c)

Spec == Init /\ [][Next]_vars

(* A key names one story: whatever is repeated, raced or cut off, no two   *)
(* stories were created under it, its receipt names that story, and no     *)
(* client was ever answered with another (the receipt's key, create.py).   *)
OneStoryPerKey ==
  /\ \A i, j \in DOMAIN stories : stories[i].key = stories[j].key => i = j
  /\ \A k \in Keys : Known(k) => stories[receipts[k].story].key = k
  /\ \A t \in told : Known(t[1]) /\ receipts[t[1]].story = t[2]

(* A story's setup names the revision it was resolved from: reading that   *)
(* revision later, however the library moved on, gives what the story got. *)
SetupNamesItsSource ==
  \A i \in DOMAIN stories :
    library[stories[i].preset][stories[i].revision] = stories[i].content

(* "this draft already created a story": a draft is consumed by the story  *)
(* it creates.                                                             *)
OneStoryPerDraft ==
  \A i, j \in DOMAIN stories : stories[i].draft = stories[j].draft => i = j
==============================================================================
