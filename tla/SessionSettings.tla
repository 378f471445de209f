---------------------------- MODULE SessionSettings ----------------------------
(***************************************************************************)
(* The settings of one session: its options in memory, the metadata in the *)
(* store they are written to, and the secrets its webhooks are signed      *)
(* with.  Handlers of src/dashboard/api.ts and src/routes/session.ts       *)
(* change the options at once and await the write.  Redis executes writes  *)
(* in order; one may fail.                                                 *)
(***************************************************************************)
EXTENDS Integers, Sequences

CONSTANTS
  LastRev,     \* bound: changes, and the secrets they make, are numbered
  Grace,       \* WEBHOOK_SECRET_GRACE_MS
  LastHour,    \* bound: the clock
  MaxWrites    \* bound: writes on their way at once

ASSUME SettingsAssumption ==
  LastRev \in Nat \ {0} /\ Grace \in Nat \ {0} /\ LastHour \in Nat /\ MaxWrites \in Nat \ {0}

VARIABLES
  instant,     \* Date.now()
  rev,         \* changes so far
  live,        \* options of the connection, or NoOptions
  linked,      \* isConnected
  saved,       \* the stored metadata, or NoOptions
  writes,      \* metadata on its way to Redis, or NoOptions for a deletion
  reading,     \* metadata that reconnectSession() or a PATCH has read and awaits with
  answered,    \* history: the last change that was answered with success
  outdated     \* history: settings changed while somebody held metadata read before

settingsVars ==
  <<instant, rev, live, linked, saved, writes, reading, answered, outdated>>

\* 0: no secret.  rev, the change that led to the options, stands for every setting
\* that is not about signing.
NoOptions == [secret |-> -1, previous |-> 0, until |-> 0, rev |-> 0]
Options == [secret : -1..LastRev, previous : 0..LastRev, until : 0..LastHour + Grace,
            rev : 0..LastRev]

SettingsTypeOK ==
  /\ instant \in 0..LastHour /\ {rev, answered} \subseteq 0..LastRev
  /\ {live, saved} \subseteq Options
  /\ writes \in Seq(Options) /\ Len(writes) <= MaxWrites
  /\ reading \in [by : {"nobody", "reconnect", "patch"}, what : Options]
  /\ {linked, outdated} \subseteq BOOLEAN

Nobody == [by |-> "nobody", what |-> NoOptions]

SettingsInit ==
  /\ instant = 0 /\ rev = 1 /\ linked = FALSE /\ writes = <<>> /\ reading = Nobody
  /\ live = NoOptions
  /\ saved = [secret |-> 1, previous |-> 0, until |-> 0, rev |-> 1]
  /\ answered = 1 /\ outdated = FALSE

-----------------------------------------------------------------------------
\* activeWebhookSecrets(): the previous secret signs while its grace lasts, the
\* current one goes out in the -new headers.
InGrace(o) == o.previous # 0 /\ o.until > instant
Primary(o) == IF InGrace(o) THEN o.previous ELSE o.secret
Secondary(o) == IF InGrace(o) THEN o.secret ELSE 0

\* A deletion is sent like a write.
StoredAs(o) == IF o.secret = -1 THEN NoOptions ELSE o

\* What is read back.  Secrets encrypted with another CONFIG_ENC_KEY are unreadable.
Decoded(o, readable) == IF readable THEN o ELSE [o EXCEPT !.secret = 0, !.previous = 0]

\* updateSessionMetadata(): the write is sent, the handler awaits it.
Send(o) == Len(writes) < MaxWrites /\ writes' = Append(writes, o)

Numbered == rev < LastRev /\ rev' = rev + 1
ReadIsOutdated == outdated' = (outdated \/ reading # Nobody)

\* updateOptions() and updateSessionMetadata() of a live session.
Change(o) ==
  /\ live # NoOptions /\ Numbered
  /\ live' = [o EXCEPT !.rev = rev + 1] /\ Send(live')
  /\ ReadIsOutdated
  /\ UNCHANGED <<instant, linked, saved, reading, answered>>

\* POST webhook/rotate.
Rotate(grace) ==
  LET keep == live.secret # 0 /\ grace > 0
  IN Change([live EXCEPT !.secret = rev + 1,
                         !.previous = IF keep THEN live.secret ELSE 0,
                         !.until = IF keep THEN instant + grace ELSE 0])

\* A form with a new secret, or one that clears it: PUT webhook and PATCH settings.
SetSecret == Change([live EXCEPT !.secret = rev + 1])
ClearSecret == Change([live EXCEPT !.secret = 0])

\* A form with a blank secret, and PATCH ai-config: the secrets stay.
SaveOthers == Change(live)

\* PATCH settings of a session that is not live: the stored metadata is read (behind
\* the writes sent before)
PatchReads ==
  /\ live = NoOptions /\ saved # NoOptions /\ reading = Nobody /\ writes = <<>>
  /\ reading' = [by |-> "patch", what |-> Decoded(saved, TRUE)]
  /\ UNCHANGED <<instant, rev, live, linked, saved, writes, answered, outdated>>
\* and written back with a new secret.
PatchWrites ==
  /\ reading.by = "patch" /\ reading' = Nobody /\ Numbered
  /\ Send([reading.what EXCEPT !.secret = rev + 1, !.rev = rev + 1])
  /\ UNCHANGED <<instant, live, linked, saved, answered, outdated>>

\* reconnectSession() reads the metadata, or takes the old connection's, and then
\* awaits the end of the old connection.
ReconnectReads ==
  /\ ~linked /\ reading = Nobody /\ writes = <<>> /\ {saved, live} # {NoOptions}
  /\ reading' = [by |-> "reconnect",
                 what |-> IF saved # NoOptions THEN Decoded(saved, TRUE) ELSE live]
  /\ UNCHANGED <<instant, rev, live, linked, saved, writes, answered, outdated>>

\* A connection is made from metadata; connect() writes them back.
Connect(o) == live' = o /\ linked' = FALSE /\ Send(live')

Reconnect ==
  /\ reading.by = "reconnect" /\ reading' = Nobody
  /\ Connect(reading.what)
  /\ UNCHANGED <<instant, rev, saved, answered, outdated>>

\* POST sessions/:id: new options, with or without a secret.
CreateSession(hasSecret) ==
  /\ ~linked /\ Numbered
  /\ Connect([NoOptions EXCEPT !.secret = IF hasSecret THEN rev + 1 ELSE 0, !.rev = rev + 1])
  /\ ReadIsOutdated
  /\ UNCHANGED <<instant, saved, reading, answered>>

\* deleteSession().
DeleteSession ==
  /\ {saved, live} # {NoOptions} /\ Numbered
  /\ live' = NoOptions /\ linked' = FALSE /\ Send([NoOptions EXCEPT !.rev = rev + 1])
  /\ ReadIsOutdated
  /\ UNCHANGED <<instant, saved, reading, answered>>

\* Redis executes the oldest command, or it fails and the handler answers 500.
WriteEnds(ok) ==
  /\ writes # <<>> /\ writes' = Tail(writes)
  /\ IF ok THEN saved' = StoredAs(Head(writes)) /\ answered' = Head(writes).rev
     ELSE UNCHANGED <<saved, answered>>
  /\ UNCHANGED <<instant, rev, live, linked, reading, outdated>>

\* The socket opens or closes; a connection that was logged out leaves the map.
SocketTurns ==
  /\ live # NoOptions
  /\ linked' = ~linked /\ (live' = live \/ (linked /\ live' = NoOptions))
  /\ UNCHANGED <<instant, rev, saved, writes, reading, answered, outdated>>

\* The process ends and reconnectSavedSessions() runs.
Restart(readable) ==
  /\ reading' = Nobody /\ linked' = FALSE
  /\ outdated' = (outdated \/ ~readable)
  /\ IF saved = NoOptions
     THEN live' = NoOptions /\ writes' = <<>>
     ELSE live' = Decoded(saved, readable) /\ writes' = <<live'>>
  /\ UNCHANGED <<instant, rev, saved, answered>>

GraceRuns ==
  /\ instant < LastHour /\ instant' = instant + 1
  /\ UNCHANGED <<rev, live, linked, saved, writes, reading, answered, outdated>>

SettingsNext ==
  \/ \E grace \in {0, Grace} : Rotate(grace)
  \/ SetSecret \/ ClearSecret \/ SaveOthers
  \/ PatchReads \/ PatchWrites \/ ReconnectReads \/ Reconnect
  \/ \E b \in BOOLEAN : CreateSession(b) \/ WriteEnds(b) \/ Restart(b)
  \/ DeleteSession \/ SocketTurns \/ GraceRuns

SettingsSpec == SettingsInit /\ [][SettingsNext]_settingsVars

-----------------------------------------------------------------------------
\* Whatever fails, restarts or reconnects: neither the settings in memory nor those
\* in the store are ever older than the last change that was answered with success,
\* and one change has one outcome: no field of it is lost on the way to the store or
\* back.  (Metadata that is read before an await may be outdated, see below; secrets
\* of another CONFIG_ENC_KEY are lost for good.)
SettingsAreCurrent ==
  ~outdated =>
    /\ saved # NoOptions => saved.rev >= answered
    /\ live # NoOptions => live.rev >= answered
    /\ live.rev = saved.rev => live = saved

\* While the settings stay the same, the secret that signs deliveries changes only
\* to the one announced in the -new headers; a rotation with grace, the first in its
\* window, changes it not at all.
SigningIsContinuous ==
  [][live # NoOptions /\ live' # NoOptions /\ Primary(live)' # Primary(live) =>
       /\ live'.rev = live.rev /\ ~outdated' => Primary(live)' = Secondary(live)
       /\ ~(Rotate(Grace) /\ ~InGrace(live) /\ live.secret # 0)]_settingsVars

\* A change that was answered with success stays, and with it the signing of deliveries.
SettingsAreKept == []SettingsAreCurrent /\ SigningIsContinuous
=============================================================================
