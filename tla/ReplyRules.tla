------------------------------- MODULE ReplyRules -------------------------------
(***************************************************************************)
(* The pure rules behind an automatic reply, as functions of their input:  *)
(* the history put into the prompt (src/services/aiHistory.ts and          *)
(* buildHistory() of src/baileys/connection.ts), the window of the AI      *)
(* (src/services/routing.ts), and the OTP filter                           *)
(* (src/services/otpFilter.ts).  A step asks one rule about one input; the *)
(* properties compare what it says with a reference definition.            *)
(***************************************************************************)
EXTENDS Integers, Sequences, SequencesExt, FiniteSets, FiniteSetsExt

CONSTANTS
  Text,          \* texts, stored ones and asked ones
  Times,         \* the times of messages
  CharLimits,    \* AI_HISTORY_MAX_CHARS, 0 for none
  MaxEntries,    \* bound: stored messages of a chat, texts of a batch
  MaxCost,       \* bound: characters of one message
  Minutes,       \* minutes of a day
  Near, Far      \* 40 and 80 characters: how near a phrase is to a code

ASSUME RulesAssumption ==
  /\ {MaxEntries, MaxCost, Minutes, Near, Far} \subseteq Nat /\ Near <= Far /\ Minutes > 0
  /\ Times \subseteq Nat /\ CharLimits \subseteq Nat

VARIABLE question   \* the rule and its input
rulesVars == <<question>>

-----------------------------------------------------------------------------
\* selectHistory(): entries with a time and a length, the fresh ones newest first; of
\* one time the order of the store is kept.
Fresh(entries, cutoff) == {i \in DOMAIN entries : entries[i].cost > 0 /\ entries[i].at >= cutoff}
NewerThan(entries, i, j) ==
  entries[i].at > entries[j].at \/ (entries[i].at = entries[j].at /\ i > j)
Newer(entries, cutoff) ==
  LET places == Fresh(entries, cutoff)
      place(k) == CHOOSE i \in places : Cardinality({j \in places : NewerThan(entries, j, i)}) = k - 1
  IN [k \in 1..Cardinality(places) |-> entries[place(k)]]

\* The budget after n entries; nothing more is taken once one did not fit.  (Variant:
\* what does not fit is left out and the walk goes on.)
Nothing == [kept |-> <<>>, chars |-> 0, full |-> FALSE]
PassOver(b, e, limits) ==
  IF Len(b.kept) >= limits.messages THEN [b EXCEPT !.full = TRUE]
  ELSE IF limits.chars > 0 /\ b.kept # <<>> /\ b.chars + e.cost > limits.chars THEN b
  ELSE [b EXCEPT !.kept = Append(@, e), !.chars = @ + e.cost]
TakeEntry(b, e, limits) ==
  IF \/ b.full \/ Len(b.kept) >= limits.messages
     \/ limits.chars > 0 /\ b.kept # <<>> /\ b.chars + e.cost > limits.chars
  THEN [b EXCEPT !.full = TRUE]
  ELSE LET cost == IF limits.chars > 0 /\ b.kept = <<>> THEN Min({e.cost, limits.chars}) ELSE e.cost
       IN [b EXCEPT !.kept = Append(@, [e EXCEPT !.cost = cost]), !.chars = @ + cost]

Budget(fresh, limits) ==
  LET after[n \in 0..Len(fresh)] == IF n = 0 THEN Nothing ELSE TakeEntry(after[n - 1], fresh[n], limits)
  IN after
SelectHistory(entries, limits) ==
  LET fresh == Newer(entries, limits.cutoff) IN Reverse(Budget(fresh, limits)[Len(fresh)].kept)

\* buildHistory(): the entries come newest first and as they are stored, the texts of
\* the batch as they are put to the AI (enqueueForAi() has cleaned and cut them and
\* added a line for their media).  The loop walks the entries from the last, the
\* oldest, one, and only ever looks for the last text that is still pending.
TakeOut(b, e) ==
  IF b.pending # <<>> /\ ~e.fromMe /\ e.text = Last(b.pending)
  THEN [b EXCEPT !.pending = Front(@)] ELSE [b EXCEPT !.left = Append(@, e)]
WalkBack(newestFirst, current) ==
  LET n == Len(newestFirst)
      walk[i \in 0..n] == IF i = 0 THEN [left |-> <<>>, pending |-> current]
                          ELSE TakeOut(walk[i - 1], newestFirst[n + 1 - i])
  IN walk
BuildHistory(newestFirst, current) == Reverse(WalkBack(newestFirst, current)[Len(newestFirst)].left)

\* isWithinWindow().
IsWithinWindow(t, start, end) ==
  \/ start = end
  \/ start < end /\ t >= start /\ t < end
  \/ start > end /\ (t >= start \/ t < end)

\* smartScore(): phrases are the places of all occurrences, codes have a place and a
\* shape; an exclude phrase takes away 4.
Bonus(code, phrases) ==
  LET distance == Min({IF code.start > p THEN code.start - p ELSE p - code.start : p \in phrases})
  IN IF distance > Far THEN 0 ELSE 2 + (IF distance <= Near THEN 1 ELSE 0) + code.shape
SmartScore(phrases, codes, excluded) ==
  IF phrases = {} THEN 0
  ELSE 3 + Min({Cardinality(phrases) - 1, 1}) + Max({0} \union {Bonus(c, phrases) : c \in codes})
         - (IF excluded THEN 4 ELSE 0)

\* SMART_THRESHOLDS.
Threshold(sensitivity) ==
  CASE sensitivity = "conservative" -> 6 [] sensitivity = "balanced" -> 5 [] OTHER -> 4

\* matchOtpFilter() in smart mode.
Suppressed(q) == SmartScore(q.phrases, q.codes, q.excluded) >= Threshold(q.sensitivity)

-----------------------------------------------------------------------------
SeqsUpTo(S, n) == UNION {[1..k -> S] : k \in 0..n}
Entry == [at : Times, cost : 0..MaxCost]
Limits == [messages : 1..MaxEntries, chars : CharLimits, cutoff : Times]
Distance == {0, Near, Near + 1, Far + 1}

\* History: the entries in the order of the store.  Batch: a chat as it is stored,
\* newest first, and the texts answered now, as they are asked.  The two are in any
\* relation: an asked text may be stored differently, several times or not among the
\* newest, and other messages may have come since.
AskHistory == \E e \in SeqsUpTo(Entry, MaxEntries), l \in Limits :
  question' = [rule |-> "history", entries |-> e, limits |-> l]
AskBatch == \E all \in SeqsUpTo([text : Text, fromMe : BOOLEAN], MaxEntries), now \in SeqsUpTo(Text, MaxEntries) :
  question' = [rule |-> "batch", all |-> all, current |-> now]
AskWindow == \E s, e, t \in 0..Minutes - 1 :
  question' = [rule |-> "window", start |-> s, end |-> e, time |-> t]
AskFilter ==
  \E p \in SUBSET Distance, c \in SUBSET [start : {0, Far}, shape : {0, 1}], x \in BOOLEAN,
     s \in {"conservative", "balanced", "aggressive"} :
    question' = [rule |-> "filter", phrases |-> p, codes |-> c, excluded |-> x, sensitivity |-> s]

RulesInit == question = [rule |-> "none"]
RulesNext == question.rule = "none" /\ (AskHistory \/ AskBatch \/ AskWindow \/ AskFilter)
RulesSpec == RulesInit /\ [][RulesNext]_rulesVars

-----------------------------------------------------------------------------
\* The characters of some messages, each by its message and its place in it.
Characters(s) == {p \in (DOMAIN s) \X (1..MaxCost) : p[2] <= s[p[1]].cost}
Total(s) == Cardinality(Characters(s))

\* "oldest dropped first" and "Always keep the newest turn": the fresh messages are
\* put in the order of their times, the history is as many of the newest as both
\* limits allow, oldest first, and only a single one is ever cut, to the limit.
HistoryIsNewestThatFit ==
  question.rule = "history" =>
    LET limits == question.limits
        fresh == Newer(question.entries, limits.cutoff)
        out == SelectHistory(question.entries, limits)
        n == Len(out)
        fits(k) == /\ k <= limits.messages
                   /\ limits.chars = 0 \/ k <= 1 \/ Total(SubSeq(fresh, 1, k)) <= limits.chars
        cut(e) == [e EXCEPT !.cost = IF limits.chars > 0 THEN Min({@, limits.chars}) ELSE @]
    IN /\ {fresh[k] : k \in DOMAIN fresh} = {question.entries[i] : i \in Fresh(question.entries, limits.cutoff)}
       /\ \A j, k \in DOMAIN fresh : j < k => fresh[j].at >= fresh[k].at
       /\ n <= Len(fresh) /\ fits(n) /\ (n < Len(fresh) => ~fits(n + 1))
       /\ \A i \in 1..n : out[i] = IF n = 1 THEN cut(fresh[1]) ELSE fresh[n + 1 - i]

\* A window and the window from its end to its start share the day between them.
WindowsPartitionTheDay ==
  question.rule = "window" /\ question.start # question.end =>
    LET within(start, end) == IsWithinWindow(question.time, start, end)
    IN within(question.start, question.end) # within(question.end, question.start)

\* "checks for built-in code shapes near them": no message is taken for a verification
\* message without one of the phrases, and unless the filter is set to aggressive none
\* without a code at most Far characters from one; an exclude phrase never makes it one.
Beside(code, phrase) == code.start - phrase \in -Far..Far
FilterNeedsACode ==
  question.rule = "filter" /\ Suppressed(question) =>
    /\ question.phrases # {}
    /\ question.sensitivity # "aggressive" =>
         \E c \in question.codes, p \in question.phrases : Beside(c, p)
    /\ Suppressed([question EXCEPT !.excluded = FALSE])

\* What the history keeps of a chat: it stays in its order, and only texts of the contact
\* that are among the asked ones are taken out, no more than are asked; what the agent
\* said stays.  Where the last text of the batch is stored as it is asked, one at least
\* is taken out, so a batch of one text is not told twice.  Nothing more is promised: a
\* text that is stored differently, and others of a longer batch, may stay in, and an
\* older equal text may go instead, although the comment of buildHistory() says
\* "excluding the texts that are being answered now".
HistoryKeepsTurns ==
  question.rule = "batch" =>
    LET all == question.all
        asked == question.current
        left == BuildHistory(all, asked)
        stays(e) == e.fromMe \/ \A n \in DOMAIN asked : e.text # asked[n]
        told(e) == ~e.fromMe /\ asked # <<>> /\ e.text = Last(asked)
    IN /\ Len(left) >= Len(all) - Len(asked)
       /\ (\E k \in DOMAIN all : told(all[k])) => Len(left) < Len(all)
       /\ \E place \in [DOMAIN left -> DOMAIN all] :
            /\ \A i, j \in DOMAIN left : i < j => place[i] < place[j]
            /\ \A i \in DOMAIN left : left[i] = all[place[i]]
            /\ \A k \in DOMAIN all : stays(all[k]) => \E i \in DOMAIN left : place[i] = k

RulesMeetTheirReference ==
  HistoryKeepsTurns /\ HistoryIsNewestThatFit /\ WindowsPartitionTheDay /\ FilterNeedsACode
=============================================================================
