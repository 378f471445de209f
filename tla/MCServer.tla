------------------------------- MODULE MCServer -------------------------------
(***************************************************************************)
(* Instance for TLC of the modules about what the server stores, how much  *)
(* it lets through and whom it lets in.  They share no state, so a         *)
(* behaviour is one of one of them: part says which, and what the others   *)
(* start with is fixed.                                                    *)
(***************************************************************************)
EXTENDS AuthBackend, SendSlots, TokenBucket, SessionSettings, MessageStore, Accounts, LoginGuard, ApiKeys, TLC

VARIABLE part

serverVars ==
  <<part, authVars, slotVars, bucketVars, settingsVars, storeVars, accountVars, loginVars, keyVars>>

ServerInit ==
  /\ part \in {"backend", "slots", "bucket", "settings", "store", "accounts", "login", "keys"}
  /\ BackendInit
  /\ SlotsInit
  /\ BucketInit
  /\ SettingsInit
  /\ StoreInit
  /\ AccountsInit
  /\ LoginInit
  /\ KeysInit
  /\ part # "backend" => stored = {} /\ config = [backend |-> "auto", confirmed |-> FALSE]

ServerNext ==
  \/ /\ part = "backend" /\ BackendNext
     /\ UNCHANGED <<part, slotVars, bucketVars, settingsVars, storeVars, accountVars, loginVars, keyVars>>
  \/ /\ part = "slots" /\ SlotsNext
     /\ UNCHANGED <<part, authVars, bucketVars, settingsVars, storeVars, accountVars, loginVars, keyVars>>
  \/ /\ part = "bucket" /\ BucketNext
     /\ UNCHANGED <<part, authVars, slotVars, settingsVars, storeVars, accountVars, loginVars, keyVars>>
  \/ /\ part = "settings" /\ SettingsNext
     /\ UNCHANGED <<part, authVars, slotVars, bucketVars, storeVars, accountVars, loginVars, keyVars>>
  \/ /\ part = "store" /\ StoreNext
     /\ UNCHANGED <<part, authVars, slotVars, bucketVars, settingsVars, accountVars, loginVars, keyVars>>
  \/ /\ part = "accounts" /\ AccountsNext
     /\ UNCHANGED <<part, authVars, slotVars, bucketVars, settingsVars, storeVars, loginVars, keyVars>>
  \/ /\ part = "login" /\ LoginNext
     /\ UNCHANGED <<part, authVars, slotVars, bucketVars, settingsVars, storeVars, accountVars, keyVars>>
  \/ /\ part = "keys" /\ KeysNext
     /\ UNCHANGED <<part, authVars, slotVars, bucketVars, settingsVars, storeVars, accountVars, loginVars>>

ServerSpec == ServerInit /\ [][ServerNext]_serverVars

Symmetric == Permutations(Name) \union Permutations(AccountRequest)

\* Every variable of the modules has its type: what a limiter counts, what a token
\* carries, where a request for a key waits.
ServerTypesOK ==
  /\ BackendTypeOK /\ SlotsTypeOK /\ BucketTypeOK /\ SettingsTypeOK /\ StoreTypeOK
  /\ AccountsTypeOK /\ LoginTypeOK /\ KeysTypeOK

\* What is stored stays what it should be: the backend that was decided for the store,
\* and of concurrent changes of a session's settings the later one.
StorageIsKept == BackendIsKept /\ SettingsAreKept

\* What is limited stays limited and is given back: the slots of sends, the tokens of a
\* receiver's bucket, the guesses of a password, over timeouts, waits that end, windows
\* that move on and buckets that are thrown away.
LimitsAreKept == SendsAreAccounted /\ RateIsKept /\ LoginIsThrottled
=============================================================================
