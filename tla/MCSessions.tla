------------------------------- MODULE MCSessions -------------------------------
(* Instances of Sessions for TLC.                                          *)
EXTENDS Sessions

CONSTANTS i1, i2

AllKinds == {"create", "reconnect", "delete"}

\* One session on files, which two requests fight over; one on Redis with a request
\* and a dropped socket; two sessions with room for one.
OnFiles == [redis |-> FALSE, maxSessions |-> 1, maxRetries |-> 1, saved |-> {i1},
            ids |-> {i1}, kinds |-> AllKinds, calls |-> 2]
OnRedis == [OnFiles EXCEPT !.redis = TRUE, !.calls = 1]
Crowded == [OnFiles EXCEPT !.maxRetries = 0, !.saved = {i2}, !.ids = {i1, i2},
                            !.kinds = {"create"}]
RedisOnly == {OnRedis}
FilesOnly == {[OnFiles EXCEPT !.saved = {}]}
AllConfigs == {OnFiles, OnRedis, Crowded}
=============================================================================
