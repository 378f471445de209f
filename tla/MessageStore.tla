------------------------------ MODULE MessageStore ------------------------------
(***************************************************************************)
(* The messages and chats one session keeps for the dashboard, and their   *)
(* file: src/baileys/store/memoryStore.ts with the routes that clear and   *)
(* delete chats.  One contact is enough: it may write under its phone      *)
(* number and under a LID, and the two rooms are merged once the store     *)
(* knows that they belong together.                                        *)
(***************************************************************************)
EXTENDS Integers, FiniteSets

CONSTANTS
  LastMessage,   \* bound: messages are 1..LastMessage, numbered by their timestamps
  MaxPerChat,    \* maxMessagesPerChat
  MaxSaves,      \* bound: writes of the file under way at once
  MaxChanges     \* bound: events and requests

ASSUME StoreAssumption == {LastMessage, MaxPerChat, MaxSaves, MaxChanges} \subseteq Nat \ {0}

Msg == 1..LastMessage
Room == {"lid", "pn"}

VARIABLES
  mem,       \* in memory: the messages per room, the rooms with a chat, the mapping
  onDisk,    \* <id>_store.json, or NoFile
  dirty,     \* something worth saving changed
  snapshots,    \* what each write under way puts into the file; NoFile: none
  loading,   \* what a connect() read of the file and has not put into the store
  link,      \* connect() is pending or reading, its socket is up, or nothing follows
  stage,     \* of the object: open, destroyed, off (no process)
  deleted,   \* markDeleted() was called
  request,   \* a clear, delete or leave that awaits WhatsApp
  changes,   \* events and requests so far
  mishaps    \* history: what the file was exposed to since its last good write

storeVars ==
  <<mem, onDisk, dirty, snapshots, loading, link, stage, deleted, request, changes, mishaps>>

Content == [msgs : [Room -> SUBSET Msg], chats : SUBSET Room, mapped : BOOLEAN]
Empty == [msgs |-> [r \in Room |-> {}], chats |-> {}, mapped |-> FALSE]
NoFile == [msgs |-> Empty.msgs, chats |-> {"none"}, mapped |-> FALSE]
NoRequest == [kind |-> "none", room |-> "pn"]

StoreTypeOK ==
  /\ mem \in Content /\ {onDisk, loading} \subseteq Content \union {NoFile}
  /\ snapshots \in [1..MaxSaves -> Content \union {NoFile}]
  /\ {dirty, deleted} \subseteq BOOLEAN
  /\ link \in {"pending", "reading", "up", "gone"} /\ stage \in {"open", "destroyed", "off"}
  /\ request \in [kind : {"none", "clear", "delete", "leave"}, room : Room]
  /\ changes \in 0..MaxChanges
  /\ mishaps \subseteq {"raced", "unmarked", "late", "failed", "stale", "revived"}

StoreInit ==
  /\ mem = Empty /\ onDisk = NoFile /\ dirty = FALSE
  /\ snapshots = [w \in 1..MaxSaves |-> NoFile] /\ loading = NoFile
  /\ link = "pending" /\ stage = "open" /\ deleted = FALSE
  /\ request = NoRequest /\ changes = 0 /\ mishaps = {}

-----------------------------------------------------------------------------
Newest(ms, n) == {m \in ms : Cardinality({k \in ms : k > m}) < n}

\* mergeRoom(lid, pn).
MergeRoom(s) ==
  [s EXCEPT !.msgs = [r \in Room |-> IF r = "pn" THEN s.msgs["lid"] \union s.msgs["pn"] ELSE {}],
            !.chats = IF @ = {} THEN {} ELSE {"pn"}]

\* registerLidMapping(); canonicalRoomJid() prefers the phone number.
RegisterLidMapping(s) == MergeRoom([s EXCEPT !.mapped = TRUE])
Canonical(s, r) == IF s.mapped THEN "pn" ELSE r

\* addMessage(), and the chat is made: the oldest messages beyond the limit go.
AddMessages(s, r, ms) ==
  [s EXCEPT !.msgs[r] = Newest(@ \union ms, MaxPerChat), !.chats = @ \union {r}]

\* clearChat() and deleteChat() of exactly this room.
Cleared(s, r) == [s EXCEPT !.msgs[r] = {}]
Deleted(s, r) == [Cleared(s, r) EXCEPT !.chats = @ \ {r}]

\* readFromFile(): the rooms of the file replace those in memory.
Loaded(s, f) ==
  LET s2 == [msgs |-> [r \in Room |-> IF f.msgs[r] # {} \/ r \in f.chats THEN f.msgs[r] ELSE s.msgs[r]],
             chats |-> s.chats \union f.chats,
             mapped |-> s.mapped \/ f.mapped]
  IN IF f = NoFile THEN s ELSE IF s2.mapped THEN MergeRoom(s2) ELSE s2

-----------------------------------------------------------------------------
Writing == {snapshots[w] : w \in 1..MaxSaves} \ {NoFile}

\* The rooms become s.  What changes them without marking the store dirty, or while a
\* write is under way that will mark it clean, may stay out of the file; what changes
\* them after destroy() is saved by nobody.
Becomes(s, marked) ==
  /\ mem' = s
  /\ mishaps' = mishaps
       \union (IF s # mem /\ (~marked \/ Writing # {}) THEN {"unmarked"} ELSE {})
       \union (IF s # mem /\ stage = "destroyed" THEN {"late"} ELSE {})

\* The listeners bound to the socket stay when the store is destroyed.
Event(s) ==
  /\ link = "up" /\ changes < MaxChanges /\ changes' = changes + 1
  /\ Becomes(s, TRUE) /\ dirty' = TRUE
  /\ UNCHANGED <<onDisk, snapshots, loading, link, stage, deleted, request>>

\* messages.upsert, with or without the other address of the contact.
MessagesUpsert(m, r, hasAlt) ==
  LET s == IF hasAlt THEN RegisterLidMapping(mem) ELSE mem
  IN Event(AddMessages(s, Canonical(s, r), {m}))

\* messaging-history.set: what is in the account, again; contacts name both addresses.
HistorySet(ms, r, maps) ==
  LET s == IF maps THEN RegisterLidMapping(mem) ELSE mem
  IN Event(AddMessages(s, Canonical(s, r), ms))

\* messages.delete and chats.delete: somebody cleared or deleted the chat there.
MessagesDelete(ms, r) ==
  Event(LET c == Canonical(mem, r) IN [mem EXCEPT !.msgs[c] = @ \ ms])
ChatsUpsert(r) == Event([mem EXCEPT !.chats = @ \union {Canonical(mem, r)}])
ChatsDelete(r) == Event(Deleted(Deleted(mem, Canonical(mem, r)), r))

\* lid-mapping.update, and what reconcileLidRooms() finds out.
LidMappingUpdate == Event(RegisterLidMapping(mem))

\* POST chats/clear, chats/delete and groups/leave-and-delete.  A chat with messages is
\* cleared on WhatsApp first, a group is always left there first; none marks the store.
AtOnce(kind, r) == kind # "leave" /\ mem.msgs[r] = {}
RequestStarts(kind, r) ==
  /\ link = "up" /\ stage = "open" /\ request = NoRequest
  /\ changes < MaxChanges /\ changes' = changes + 1
  /\ \/ AtOnce(kind, r) /\ UNCHANGED request
        /\ Becomes(IF kind = "clear" THEN Cleared(mem, r) ELSE Deleted(mem, r), FALSE)
     \/ ~AtOnce(kind, r) /\ request' = [kind |-> kind, room |-> r] /\ UNCHANGED <<mem, mishaps>>
  /\ UNCHANGED <<onDisk, dirty, snapshots, loading, link, stage, deleted>>

\* WhatsApp answers, also after the session was closed; the local copy changes only then,
\* and not after an error.
RequestEnds(ok) ==
  LET r == request.room
  IN /\ request # NoRequest /\ request' = NoRequest
     /\ Becomes(CASE ~ok -> mem
                 [] request.kind = "clear" -> Cleared(mem, r)
                 [] OTHER -> Deleted(mem, r), FALSE)
     /\ UNCHANGED <<onDisk, dirty, snapshots, loading, link, stage, deleted, changes>>

-----------------------------------------------------------------------------
\* writeToFile(): what is saved is what the store holds now.  (Variant: destroy() saves
\* like the timer.)
IfMarked(force) == dirty /\ ~deleted
MustWrite(force) == (force \/ dirty) /\ ~deleted

\* A write with other content may still be under way, and be renamed later; w only names
\* the new one, by the first number that is free.
SaveStarts(w) ==
  /\ snapshots[w] = NoFile /\ \A v \in 1..(w - 1) : snapshots[v] # NoFile
  /\ snapshots' = [snapshots EXCEPT ![w] = mem]
  /\ mishaps' = mishaps \union (IF Writing \subseteq {mem} THEN {} ELSE {"raced"})

\* The timer.
AutoSave(w) ==
  /\ stage = "open" /\ MustWrite(FALSE) /\ SaveStarts(w)
  /\ UNCHANGED <<mem, onDisk, dirty, loading, link, stage, deleted, request, changes>>

\* close() ends with destroy(): the timer stops, a last write begins.
Destroy(w) ==
  /\ stage # "off" /\ stage' = "destroyed"
  /\ IF MustWrite(TRUE) THEN SaveStarts(w) ELSE UNCHANGED <<snapshots, mishaps>>
  /\ UNCHANGED <<mem, onDisk, dirty, loading, link, deleted, request, changes>>

\* The temporary file is renamed, or an error leaves everything as it was.  The store is
\* clean whatever changed meanwhile.
SaveEnds(w, ok) ==
  LET alone == \A v \in 1..MaxSaves : v # w => snapshots[v] = NoFile
  IN /\ snapshots[w] # NoFile /\ snapshots' = [snapshots EXCEPT ![w] = NoFile]
     /\ \/ ok /\ onDisk' = snapshots[w] /\ dirty' = FALSE
           /\ mishaps' = IF alone /\ snapshots[w] = mem THEN mishaps \intersect {"revived"} ELSE mishaps
        \/ ~ok /\ UNCHANGED <<onDisk, dirty>>
           /\ mishaps' = mishaps \union (IF stage = "destroyed" THEN {"failed"} ELSE {})
     /\ UNCHANGED <<mem, loading, link, stage, deleted, request, changes>>

\* connect() reads the file before it makes a socket, also when its timer outlives the
\* close of the session, and puts what it read into the store.
ReadStarts ==
  /\ link = "pending" /\ link' = "reading" /\ loading' = onDisk
  /\ UNCHANGED <<mem, onDisk, dirty, snapshots, stage, deleted, request, changes, mishaps>>
ReadEnds(made) ==
  LET s == Loaded(mem, loading)
  IN /\ link = "reading" /\ link' = (IF made THEN "up" ELSE "gone") /\ loading' = NoFile
     /\ mem' = s /\ dirty' = (dirty \/ (s.mapped /\ "lid" \in loading.chats))
     /\ mishaps' = mishaps
          \union (IF s # mem /\ Writing # {} THEN {"unmarked"} ELSE {})
          \union (IF s # mem /\ stage = "destroyed" THEN {"late"} ELSE {})
          \union (IF s # mem /\ loading # onDisk THEN {"stale"} ELSE {})
     /\ UNCHANGED <<onDisk, snapshots, stage, deleted, request, changes>>

\* The socket closes; connect() runs again after a while, or not.
SocketCloses(again) ==
  /\ link = "up" /\ link' = (IF again THEN "pending" ELSE "gone")
  /\ UNCHANGED <<mem, onDisk, dirty, snapshots, loading, stage, deleted, request, changes, mishaps>>

\* deleteSession(): the tombstone first, then logout() closes the store,
MarkDeleted ==
  /\ stage # "off" /\ ~deleted /\ deleted' = TRUE
  /\ dirty' = FALSE /\ onDisk' = NoFile
  /\ mishaps' = mishaps \union (IF Writing # {} THEN {"revived"} ELSE {})
  /\ UNCHANGED <<mem, snapshots, loading, link, stage, request, changes>>
\* and what is left of the files is removed.
DeleteAuthState ==
  /\ deleted /\ stage = "destroyed" /\ onDisk' = NoFile
  /\ mishaps' = (IF Writing = {} THEN mishaps \ {"revived"} ELSE mishaps)
  /\ UNCHANGED <<mem, dirty, snapshots, loading, link, stage, deleted, request, changes>>

\* The process ends, and a new one makes a new object of the session.
Crash ==
  /\ stage # "off" /\ stage' = "off" /\ link' = "gone"
  /\ snapshots' = [w \in 1..MaxSaves |-> NoFile] /\ request' = NoRequest /\ loading' = NoFile
  /\ mem' = Empty /\ dirty' = FALSE /\ mishaps' = mishaps \intersect {"revived"}
  /\ UNCHANGED <<onDisk, deleted, changes>>
Boot ==
  /\ stage = "off" /\ stage' = "open" /\ link' = "pending" /\ deleted' = FALSE /\ mishaps' = {}
  /\ UNCHANGED <<mem, onDisk, dirty, snapshots, loading, request, changes>>

StoreNext ==
  \/ \E r \in Room, b \in BOOLEAN :
       \/ \E m \in Msg : MessagesUpsert(m, r, b)
       \/ HistorySet(Msg, r, b)
  \/ \E r \in Room :
       \/ ChatsUpsert(r)
       \/ ChatsDelete(r)
       \/ \E ms \in SUBSET Msg : MessagesDelete(ms, r)
       \/ \E kind \in {"clear", "delete", "leave"} : RequestStarts(kind, r)
  \/ \E b \in BOOLEAN : RequestEnds(b) \/ ReadEnds(b) \/ SocketCloses(b)
  \/ \E w \in 1..MaxSaves : AutoSave(w) \/ Destroy(w) \/ (\E b \in BOOLEAN : SaveEnds(w, b))
  \/ LidMappingUpdate \/ ReadStarts \/ MarkDeleted \/ DeleteAuthState \/ Crash \/ Boot

StoreSpec == StoreInit /\ [][StoreNext]_storeVars

-----------------------------------------------------------------------------
\* Once the addresses of the contact are known to belong together there is one room
\* of it, whatever was received, merged, saved and loaded in whichever order; and
\* until its rooms are merged none outgrows the limit.  (A merged room may: every
\* reload brings the LID room of an older file in once more, untrimmed.)
OneRoomPerContact ==
  /\ mem.mapped => mem.msgs["lid"] = {} /\ "lid" \notin mem.chats
  /\ Cardinality(mem.msgs["lid"]) <= MaxPerChat
  /\ ~mem.mapped => Cardinality(mem.msgs["pn"]) <= MaxPerChat

\* A closed store whose last write ended has its rooms in the file, and a deleted one has
\* no file.  This says nothing of four mishaps that close() does not prevent: a write with
\* other content was still under way when a later one began, the rooms changed after
\* destroy(), the last write failed, and a write was under way when the session was
\* deleted, so that its rename brings the file back.
FileIsFinal ==
  /\ stage = "destroyed" /\ ~deleted /\ Writing = {} /\ {"raced", "late", "failed"} \intersect mishaps = {}
       => onDisk = mem
  /\ deleted /\ "revived" \notin mishaps => onDisk = NoFile

\* Of a connected session a store that is not marked dirty has nothing to save: its rooms
\* are those of the file.  The mishaps this excepts: the rooms were changed by a request,
\* which does not mark the store, or while a write was under way, whose end marks it clean;
\* and a reconnect put rooms into it that the file had before.
FileIsCurrent ==
  link = "up" /\ ~dirty /\ ~deleted /\ {"unmarked", "stale"} \intersect mishaps = {}
    => onDisk = mem \/ (onDisk = NoFile /\ mem = Empty)

\* The rooms of a contact are one, the mark tells what is to be saved, and a closed store
\* is in its file.
StoreIsSound == OneRoomPerContact /\ FileIsFinal /\ FileIsCurrent
=============================================================================
