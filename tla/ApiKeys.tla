------------------------------- MODULE ApiKeys -------------------------------
(***************************************************************************)
(* The API keys, src/services/apiKeys.ts.  A record lives in a file, which *)
(* is written at once, and, while Redis is connected, in a Redis hash,     *)
(* which is written by an awaited command.  Plaintext keys of an older     *)
(* version are moved when they are met.  Every use of a key may write its  *)
(* record again, to note when it was last used.                            *)
(*                                                                         *)
(* A lost connection rejects a command that may or may not have run; a     *)
(* restart may find Redis unreachable (initializeRedis returns null) and   *)
(* then lives without it.                                                  *)
(***************************************************************************)
CONSTANTS
  Key,       \* keys ever issued
  Legacy,    \* those stored in plaintext by the older version
  KeyRequest    \* requests in progress at once

ASSUME KeysAssumption == Legacy \subseteq Key /\ "none" \notin Key

VARIABLES
  file,      \* keys with a record in FILE_PATH (and in its cache)
  redis,     \* keys with a record in HASHED_STORE
  legacy,    \* keys with a plaintext entry in Redis
  up,        \* isRedisAvailable()
  touched,   \* keys whose last use was noted within the minute (lastTouchedAt)
  op,        \* per request: where it waits and for which key
  minted,    \* history: keys that were issued
  asked,     \* history: keys somebody began to delete
  revoked,   \* history: keys whose revocation was answered
  clean,     \* history: of those, the ones no other request met
  met        \* history: keys that two requests have had in hand at once

keyVars == <<file, redis, legacy, up, touched, op, minted, asked, revoked, clean, met>>

\* Where a request waits: for the hash, for the plaintext entry, for the two
\* commands that move it, for the command that writes a hashed record, for the
\* whole hash to search it, for the command that deletes from it.  A request that
\* moves a plaintext key either presents it or only tidies up.
Place == {"idle", "hGet", "get", "moved", "del", "hSet", "hGetAll", "hDel"}
Free == [at |-> "idle", key |-> "none", presents |-> FALSE]

KeysTypeOK ==
  /\ {file, redis, minted, asked, revoked, clean, met, touched} \subseteq SUBSET Key
  /\ legacy \subseteq Legacy /\ up \in BOOLEAN
  /\ op \in [KeyRequest -> [at : Place, key : Key \union {"none"}, presents : BOOLEAN]]

KeysInit ==
  /\ file = {} /\ redis = {} /\ legacy = Legacy /\ up = TRUE
  /\ touched = {} /\ op = [r \in KeyRequest |-> Free]
  /\ minted = Legacy /\ asked = {} /\ revoked = {} /\ clean = {} /\ met = {}

Held(k, r) == \E q \in KeyRequest \ {r} : op[q].key = k

Start(r, place, k, presents) ==
  /\ op[r] = Free
  /\ met' = IF Held(k, r) THEN met \union {k} ELSE met
  /\ op' = [op EXCEPT ![r] = [at |-> place, key |-> k, presents |-> presents]]
Go(r, place) == op' = [op EXCEPT ![r].at = place] /\ UNCHANGED met
Finish(r) ==
  /\ op' = [op EXCEPT ![r] = Free]
  /\ met' = IF Held(op[r].key, r) THEN met ELSE met \ {op[r].key}
Noted == <<minted, asked, revoked, clean>>

-----------------------------------------------------------------------------
\* The file's part of persistRecord().  (Variant: the file only without Redis.)
FiledOnce(k) == IF up THEN file ELSE file \union {k}
Filed(k) == file \union {k}

\* createApiKey(), once the plaintext keys have been moved.
CreateApiKey(r, k) ==
  /\ k \notin minted
  /\ minted' = minted \union {k}
  /\ file' = Filed(k)
  /\ IF up THEN Start(r, "hSet", k, FALSE) ELSE UNCHANGED <<op, met>>
  /\ UNCHANGED <<redis, legacy, up, touched, asked, revoked, clean>>

\* The caller is authenticated; touch() writes its record once a minute.
Touch(r, k) ==
  IF k \in touched THEN Finish(r) /\ UNCHANGED <<file, touched>>
  ELSE /\ touched' = touched \union {k}
       /\ file' = Filed(k)
       /\ IF up THEN Go(r, "hSet") ELSE Finish(r)

\* findApiKeyByToken(): the hash first ...
PresentKey(r, k) ==
  /\ k \in minted
  /\ Start(r, "hGet", k, TRUE)
  /\ UNCHANGED <<file, redis, legacy, up, touched, Noted>>

\* ... then the file, then the plaintext entry.  Without Redis, and when the
\* command fails, the hash is as good as empty.
HashAnswered(r) ==
  /\ op[r].at = "hGet"
  /\ LET k == op[r].key
     IN \/ up /\ k \in redis /\ Touch(r, k)
        \/ k \in file /\ Touch(r, k)
        \/ /\ k \notin file /\ UNCHANGED <<file, touched>>
           /\ IF up THEN Go(r, "get") ELSE Finish(r)
  /\ UNCHANGED <<redis, legacy, up, Noted>>

\* migrateLegacyKeys() has scanned the plaintext key k.
MigrateLegacyKey(r, k) ==
  /\ up /\ k \in legacy
  /\ Start(r, "get", k, FALSE)
  /\ UNCHANGED <<file, redis, legacy, up, touched, Noted>>

\* The plaintext entry: a caller whose entry is gone is refused, a migration
\* writes a record even if the entry is gone by now.
EntryRead(r) ==
  /\ op[r].at = "get"
  /\ LET k == op[r].key
     IN \/ /\ k \in legacy \/ ~op[r].presents
           /\ file' = Filed(k) /\ Go(r, "moved")
        \/ UNCHANGED file /\ Finish(r)
  /\ UNCHANGED <<redis, legacy, up, touched, Noted>>

\* The command that writes k's record has run, or failed.
Stored(k) == redis' \in {redis, redis \union {k}}

Moved(r) ==
  /\ op[r].at = "moved"
  /\ Stored(op[r].key) /\ Go(r, "del")
  /\ UNCHANGED <<file, legacy, up, touched, Noted>>

EntryDeleted(r) ==
  /\ op[r].at = "del"
  /\ legacy' \in {legacy, legacy \ {op[r].key}}
  /\ IF op[r].presents THEN Touch(r, op[r].key)
     ELSE Finish(r) /\ UNCHANGED <<file, touched>>
  /\ UNCHANGED <<redis, up, Noted>>

RecordStored(r) ==
  /\ op[r].at = "hSet"
  /\ Stored(op[r].key) /\ Finish(r)
  /\ UNCHANGED <<file, legacy, up, touched, Noted>>

\* The revocation of k is answered.  It was clean if no other request met it and
\* Redis has nothing of k left.
Answered(k, left) ==
  /\ revoked' = revoked \union {k}
  /\ clean' = IF k \in left \union legacy \union met THEN clean ELSE clean \union {k}

\* What deleteRecord() leaves in the file.
Unfiled(k) == file \ {k}

\* revokeApiKey() and revokeApiKeysForSession() read both stores; a key found in
\* one is deleted from both.
RevokeApiKey(r, k) ==
  /\ Start(r, "hGetAll", k, FALSE)
  /\ UNCHANGED <<file, redis, legacy, up, touched, Noted>>

StoresRead(r) ==
  /\ op[r].at = "hGetAll"
  /\ LET k == op[r].key
     IN \/ /\ k \in file \/ (up /\ k \in redis)
           /\ file' = Unfiled(k)
           /\ asked' = asked \union {k}
           /\ IF up THEN Go(r, "hDel") /\ UNCHANGED <<revoked, clean>>
              ELSE Finish(r) /\ Answered(k, redis)
        \/ k \notin file /\ Finish(r) /\ UNCHANGED <<file, asked, revoked, clean>>
  /\ UNCHANGED <<redis, legacy, up, touched, minted>>

RecordDeleted(r) ==
  /\ op[r].at = "hDel"
  /\ redis' \in {redis, redis \ {op[r].key}}
  /\ Answered(op[r].key, redis')
  /\ Finish(r)
  /\ UNCHANGED <<file, legacy, up, touched, minted, asked>>

\* A minute passes (`now - last > 60_000').
MinutePasses ==
  /\ touched # {} /\ touched' = {}
  /\ UNCHANGED <<file, redis, legacy, up, op, met, Noted>>

\* The process is restarted, with Redis or without.
KeysRestart ==
  /\ up' \in BOOLEAN
  /\ op' = [r \in KeyRequest |-> Free] /\ touched' = {} /\ met' = {}
  /\ UNCHANGED <<file, redis, legacy, Noted>>

KeysNext ==
  \/ \E r \in KeyRequest, k \in Key :
       CreateApiKey(r, k) \/ PresentKey(r, k) \/ MigrateLegacyKey(r, k) \/ RevokeApiKey(r, k)
  \/ \E r \in KeyRequest :
       \/ HashAnswered(r) \/ EntryRead(r) \/ Moved(r) \/ EntryDeleted(r)
       \/ RecordStored(r) \/ StoresRead(r) \/ RecordDeleted(r)
  \/ MinutePasses \/ KeysRestart

KeysSpec == KeysInit /\ [][KeysNext]_keyVars

-----------------------------------------------------------------------------
\* A key works until somebody deletes it: whatever commands fail, whenever the
\* process restarts and with Redis or without, a record of it is in the file or
\* its plaintext entry is still there.
NoKeyIsLost == minted \ asked \subseteq file \union legacy

\* A revocation that met no other request for the key and left no copy behind is
\* final: no cache, no later migration, no restart brings the key back.
CleanRevocationSticks == clean \cap (file \union redis \union legacy) = {}

KeysAreKept == NoKeyIsLost /\ CleanRevocationSticks
=============================================================================
