--------------------------- MODULE DeadLettersProofs ---------------------------
(***************************************************************************)
(* Proofs about DeadLetters for any number of letters and requests and any *)
(* size of the buffer: an entry is added once and never moves relative to  *)
(* another, so the order of the buffer is that of the failures; a replay   *)
(* of one entry has that entry at its head until it ends.                  *)
(*                                                                         *)
(* Nothing is assumed of who adds the letters, so that the webhook         *)
(* deliveries, which do, take these results over as they are.              *)
(***************************************************************************)
EXTENDS DeadLetters, SequenceTheorems, FiniteSetTheorems, WellFoundedInduction, TLAPS

\* An entry is added once; the buffer holds added ones, the later before the earlier.
AddedOnce == \A i, k \in DOMAIN added : added[i] = added[k] => i = k
EntriesWereAdded == \A i \in DOMAIN entries : \E k \in DOMAIN added : added[k] = entries[i]
LaterFirst ==
  \A i, j \in DOMAIN entries : i < j =>
    \A k, m \in DOMAIN added : added[k] = entries[i] /\ added[m] = entries[j] => m < k

\* A replay that goes on has something to post, a single one only one entry.
ReplaysHaveWork ==
  \A r \in Request : /\ replay[r].kind = "one" => Len(replay[r].todo) = 1
                     /\ replay[r].kind = "all" => replay[r].todo # <<>>

LettersInv == /\ LettersTypeOK /\ AddedOnce /\ EntriesWereAdded /\ LaterFirst
              /\ ReplaysHaveWork /\ RetryingIsInFlight

\* Among naturals there is a least one.
LEMMA NatLeast ==
  ASSUME NEW T \in SUBSET Nat, T # {}
  PROVE  \E x \in T : \A y \in T : x <= y
<1> DEFINE R == OpToRel(<, Nat)
<1>1. \A x, y \in Nat : y < x => <<y, x>> \in R BY DEF OpToRel
<1>2. IsWellFoundedOn(R, Nat) BY NatLessThanWellFounded
<1> HIDE DEF R
<1>3. PICK x \in T : \A y \in T : ~(<<y, x>> \in R) BY <1>2, WFMin
<1>4. \A y \in T : ~(y < x) BY <1>1, <1>3
<1>5. \A y \in T : y \in Nat /\ x \in Nat /\ ~(y < x) BY <1>4
<1>6. \A y \in T : x <= y BY <1>5
<1> QED BY <1>6

\* What the operators on the buffer return.
LEMMA WithoutIs ==
  ASSUME NEW es \in Seq(Letter), NEW i \in DOMAIN es
  PROVE  /\ Without(es, i) \in Seq(Letter) /\ Len(Without(es, i)) = Len(es) - 1
         /\ \A k \in DOMAIN Without(es, i) : Without(es, i)[k] = IF k < i THEN es[k] ELSE es[k + 1]
<1> DEFINE front == SubSeq(es, 1, i - 1)
           back == SubSeq(es, i + 1, Len(es))
<1>1. Len(es) \in Nat /\ i \in 1..Len(es) OBVIOUS
<1>2. front \in Seq(Letter) /\ Len(front) = i - 1 /\ \A k \in 1..(i - 1) : front[k] = es[k]
  BY <1>1
<1>3. /\ back \in Seq(Letter) /\ Len(back) = Len(es) - i
      /\ \A k \in 1..(Len(es) - i) : back[k] = es[i + k]
  BY <1>1
<1> HIDE DEF front, back
<1>4. /\ front \o back \in Seq(Letter) /\ Len(front \o back) = Len(front) + Len(back)
      /\ \A k \in 1..(Len(front) + Len(back)) :
           (front \o back)[k] = IF k <= Len(front) THEN front[k] ELSE back[k - Len(front)]
  BY <1>2, <1>3, ConcatProperties
<1> DEFINE w == front \o back
<1> HIDE DEF w
<1>5. w \in Seq(Letter) /\ Len(w) = Len(es) - 1 BY <1>1, <1>2, <1>3, <1>4 DEF w
<1>6. ASSUME NEW k \in 1..(Len(es) - 1) PROVE w[k] = IF k < i THEN es[k] ELSE es[k + 1]
  <2>1. CASE k < i
    <3>1. k \in 1..(i - 1) BY <1>1, <2>1
    <3>2. k \in 1..(Len(front) + Len(back)) /\ k <= Len(front) BY <1>1, <1>2, <1>3, <3>1
    <3>3. w[k] = front[k] BY <1>4, <3>2 DEF w
    <3> QED BY <1>2, <2>1, <3>1, <3>3
  <2>2. CASE ~(k < i)
    <3>1. w[k] = back[k - (i - 1)]
      <4>1. k \in 1..(Len(front) + Len(back)) /\ ~(k <= Len(front)) /\ k - Len(front) = k - (i - 1)
        BY <1>1, <1>2, <1>3, <2>2
      <4>2. w[k] = back[k - Len(front)] BY <1>4, <4>1 DEF w
      <4> QED BY <4>1, <4>2
    <3>2. k - (i - 1) \in 1..(Len(es) - i) /\ i + (k - (i - 1)) = k + 1 BY <1>1, <2>2
    <3> QED BY <1>3, <2>2, <3>1, <3>2
  <2> QED BY <2>1, <2>2
<1>7. DOMAIN w = 1..(Len(es) - 1) BY <1>1, <1>5
<1>8. Without(es, i) = w BY DEF Without, w, front, back
<1> QED BY <1>5, <1>6, <1>7, <1>8

LEMMA SplicedIs ==
  ASSUME NEW es \in Seq(Letter), NEW l
  PROVE  /\ Spliced(es, l) \in Seq(Letter) /\ Len(Spliced(es, l)) <= Len(es)
         /\ \A i \in DOMAIN Spliced(es, l) : \E k \in DOMAIN es : Spliced(es, l)[i] = es[k]
         /\ \A i, j \in DOMAIN Spliced(es, l) : i < j =>
              \E k, m \in DOMAIN es : k < m /\ Spliced(es, l)[i] = es[k] /\ Spliced(es, l)[j] = es[m]
         /\ \A k \in DOMAIN es : es[k] # l => \E i \in DOMAIN Spliced(es, l) : Spliced(es, l)[i] = es[k]
         /\ (\A i, k \in DOMAIN es : es[i] = es[k] => i = k) => l \notin Elems(Spliced(es, l))
<1>1. CASE l \notin Elems(es)
  <2>1. Spliced(es, l) = es BY <1>1 DEF Spliced
  <2> QED BY <1>1, <2>1
<1>2. CASE l \in Elems(es)
  <2> DEFINE first == {i \in DOMAIN es : es[i] = l /\ \A k \in 1..(i - 1) : es[k] # l}
             n == PlaceOf(es, l)
  <2>1. n \in DOMAIN es /\ es[n] = l
    <3> DEFINE at == {i \in DOMAIN es : es[i] = l}
    <3>1. at # {} /\ at \subseteq Nat BY <1>2 DEF Elems
    <3>2. PICK i \in at : \A k \in at : i <= k
      BY <3>1, NatLeast
    <3>3. i \in DOMAIN es /\ es[i] = l /\ \A k \in 1..(i - 1) : es[k] # l BY <3>2
    <3> QED BY <3>3 DEF PlaceOf
  <2> HIDE DEF n
  <2> DEFINE w == Without(es, n)
  <2>2. Spliced(es, l) = w BY <1>2 DEF Spliced, n
  <2>3. /\ w \in Seq(Letter) /\ Len(w) = Len(es) - 1
        /\ \A k \in DOMAIN w : w[k] = IF k < n THEN es[k] ELSE es[k + 1]
    BY <2>1, WithoutIs
  <2> HIDE DEF w
  <2>4. Len(es) \in Nat /\ DOMAIN es = 1..Len(es) /\ DOMAIN w = 1..(Len(es) - 1) /\ n \in 1..Len(es)
    BY <2>1, <2>3
  <2>5. \A i \in DOMAIN w : \E k \in DOMAIN es : w[i] = es[k]
    <3> SUFFICES ASSUME NEW i \in DOMAIN w PROVE \E k \in DOMAIN es : w[i] = es[k] OBVIOUS
    <3>1. i \in DOMAIN es /\ i + 1 \in DOMAIN es BY <2>4
    <3> QED BY <2>3, <3>1
  <2>6. \A i, j \in DOMAIN w : i < j => \E k, m \in DOMAIN es : k < m /\ w[i] = es[k] /\ w[j] = es[m]
    <3> SUFFICES ASSUME NEW i \in DOMAIN w, NEW j \in DOMAIN w, i < j
                 PROVE  \E k, m \in DOMAIN es : k < m /\ w[i] = es[k] /\ w[j] = es[m]
      OBVIOUS
    <3> DEFINE k == IF i < n THEN i ELSE i + 1
               m == IF j < n THEN j ELSE j + 1
    <3>1. k \in DOMAIN es /\ m \in DOMAIN es /\ k < m BY <2>4
    <3>2. w[i] = es[k] /\ w[j] = es[m] BY <2>3
    <3> QED BY <3>1, <3>2
  <2>7. \A k \in DOMAIN es : es[k] # l => \E i \in DOMAIN w : w[i] = es[k]
    <3> SUFFICES ASSUME NEW k \in DOMAIN es, es[k] # l PROVE \E i \in DOMAIN w : w[i] = es[k]
      OBVIOUS
    <3> DEFINE i == IF k < n THEN k ELSE k - 1
    <3>1. k # n BY <2>1
    <3>2. i \in DOMAIN w /\ (i < n <=> k < n) /\ (k > n => i + 1 = k) BY <2>4, <3>1
    <3>3. w[i] = es[k] BY <2>3, <2>4, <3>1, <3>2
    <3> QED BY <3>2, <3>3
  <2>8. ASSUME \A i, k \in DOMAIN es : es[i] = es[k] => i = k, l \in Elems(w) PROVE FALSE
    <3>1. PICK i \in DOMAIN w : w[i] = l BY <2>8 DEF Elems
    <3> DEFINE k == IF i < n THEN i ELSE i + 1
    <3>2. k \in DOMAIN es /\ k # n BY <2>4
    <3>3. w[i] = es[k] BY <2>3
    <3> QED BY <2>1, <2>8, <3>1, <3>2, <3>3
  <2> QED BY <2>2, <2>3, <2>4, <2>5, <2>6, <2>7, <2>8
<1> QED BY <1>1, <1>2

LEMMA UnshiftedIs ==
  ASSUME NEW es \in Seq(Letter), Len(es) <= MaxEntries, NEW l \in Letter
  PROVE  LET w == Unshifted(es, l) IN
         /\ w \in Seq(Letter) /\ Len(w) = (IF Len(es) < MaxEntries THEN Len(es) + 1 ELSE MaxEntries)
         /\ w[1] = l /\ \A k \in 2..Len(w) : w[k] = es[k - 1]
<1> DEFINE longer == <<l>> \o es
           w == Unshifted(es, l)
<1>1. MaxEntries \in Nat \ {0} /\ Len(es) \in Nat BY DeadLetterAssumption
<1>2. <<l>> \in Seq(Letter) /\ Len(<<l>>) = 1 /\ <<l>>[1] = l OBVIOUS
<1>3. /\ longer \in Seq(Letter) /\ Len(longer) = Len(<<l>>) + Len(es)
      /\ \A k \in 1..(Len(<<l>>) + Len(es)) :
           longer[k] = IF k <= Len(<<l>>) THEN <<l>>[k] ELSE es[k - Len(<<l>>)]
  BY <1>2, ConcatProperties
<1> HIDE DEF longer
<1>4. Len(longer) = Len(es) + 1 /\ longer[1] = l /\ \A k \in 2..(Len(es) + 1) : longer[k] = es[k - 1]
  BY <1>1, <1>2, <1>3
<1>5. w = IF Len(longer) > MaxEntries THEN SubSeq(longer, 1, MaxEntries) ELSE longer
  BY DEF Unshifted, Capped, longer
<1>6. CASE Len(longer) > MaxEntries
  <2>1. w = SubSeq(longer, 1, MaxEntries) /\ Len(es) = MaxEntries BY <1>1, <1>4, <1>5, <1>6
  <2>2. \A k \in 1..MaxEntries : longer[k] \in Letter BY <1>1, <1>3, <1>4, <1>6
  <2>3. w \in Seq(Letter) /\ Len(w) = MaxEntries /\ \A k \in 1..MaxEntries : w[k] = longer[k]
    BY <1>1, <2>1, <2>2, SubSeqProperties
  <2> HIDE DEF w
  <2>4. w[1] = l /\ \A k \in 2..MaxEntries : w[k] = es[k - 1] BY <1>1, <1>4, <2>1, <2>3
  <2> QED BY <1>1, <2>1, <2>3, <2>4 DEF w
<1>7. CASE ~(Len(longer) > MaxEntries)
  <2>1. w = longer /\ Len(es) < MaxEntries BY <1>1, <1>4, <1>5, <1>7
  <2> HIDE DEF w
  <2>2. Len(w) = Len(es) + 1 /\ w[1] = l /\ \A k \in 2..Len(w) : w[k] = es[k - 1]
    BY <1>1, <1>4, <2>1
  <2> QED BY <1>3, <2>1, <2>2 DEF w
<1> QED BY <1>6, <1>7

LEMMA LettersAre ==
  ASSUME LettersInv
  PROVE  /\ entries \in Seq(Letter) /\ Len(entries) \in Nat /\ Len(entries) <= MaxEntries
         /\ DOMAIN entries = 1..Len(entries) /\ MaxEntries \in Nat \ {0}
         /\ status \in [Letter -> {"queued", "retrying"}]
         /\ added \in Seq(Letter) /\ Len(added) \in Nat /\ DOMAIN added = 1..Len(added)
         /\ replay \in [Request -> [kind : {"idle", "one", "all"}, todo : Seq(Letter)]]
         /\ delivered \subseteq Letter
         /\ AddedOnce /\ EntriesWereAdded /\ LaterFirst /\ ReplaysHaveWork /\ RetryingIsInFlight
BY DeadLetterAssumption DEF LettersInv, LettersTypeOK

\* A step that adds nothing and leaves the order of what stays in the buffer.
LEMMA OrderStays ==
  ASSUME LettersInv, added' = added,
         \A i \in DOMAIN entries' : \E k \in DOMAIN entries : entries'[i] = entries[k],
         \A i, j \in DOMAIN entries' : i < j =>
           \E k, m \in DOMAIN entries : k < m /\ entries'[i] = entries[k] /\ entries'[j] = entries[m]
  PROVE  AddedOnce' /\ EntriesWereAdded' /\ LaterFirst'
<1>1. AddedOnce /\ EntriesWereAdded /\ LaterFirst BY LettersAre
<1>2. AddedOnce' BY <1>1 DEF AddedOnce
<1>3. EntriesWereAdded' BY <1>1 DEF EntriesWereAdded
<1>4. LaterFirst'
  <2> SUFFICES ASSUME NEW i \in DOMAIN entries', NEW j \in DOMAIN entries', i < j,
                      NEW k \in DOMAIN added, NEW m \in DOMAIN added,
                      added[k] = entries'[i], added[m] = entries'[j]
               PROVE  m < k
    BY DEF LaterFirst
  <2>1. PICK a, b \in DOMAIN entries : a < b /\ entries'[i] = entries[a] /\ entries'[j] = entries[b]
    OBVIOUS
  <2> QED BY <1>1, <2>1 DEF LaterFirst
<1> QED BY <1>2, <1>3, <1>4

LEMMA AddKeeps == ASSUME LettersInv, NEW l \in Letter, Add(l) PROVE LettersInv'
<1>1. /\ entries \in Seq(Letter) /\ Len(entries) \in Nat /\ Len(entries) <= MaxEntries
      /\ DOMAIN entries = 1..Len(entries) /\ MaxEntries \in Nat \ {0}
      /\ status \in [Letter -> {"queued", "retrying"}]
      /\ added \in Seq(Letter) /\ Len(added) \in Nat /\ DOMAIN added = 1..Len(added)
      /\ AddedOnce /\ EntriesWereAdded /\ LaterFirst /\ ReplaysHaveWork /\ RetryingIsInFlight
  BY LettersAre
<1>2. /\ \A i \in DOMAIN added : added[i] # l
      /\ added' = Append(added, l) /\ entries' = Unshifted(entries, l)
      /\ status' = [status EXCEPT ![l] = "queued"] /\ UNCHANGED <<replay, delivered>>
  BY DEF Add, Elems
<1>3. /\ entries' \in Seq(Letter)
      /\ Len(entries') = (IF Len(entries) < MaxEntries THEN Len(entries) + 1 ELSE MaxEntries)
      /\ entries'[1] = l /\ \A k \in 2..Len(entries') : entries'[k] = entries[k - 1]
  BY <1>1, <1>2, UnshiftedIs
<1>4. /\ added' \in Seq(Letter) /\ Len(added') = Len(added) + 1
      /\ \A k \in 1..Len(added) : added'[k] = added[k]
      /\ added'[Len(added) + 1] = l
  BY <1>1, <1>2, AppendProperties
<1>5. DOMAIN entries' = 1..Len(entries') /\ Len(entries') \in 1..MaxEntries /\ Len(entries') <= Len(entries) + 1
  BY <1>1, <1>3
<1>6. DOMAIN added' = 1..(Len(added) + 1) BY <1>4
<1>7. ASSUME NEW k \in DOMAIN added'
      PROVE  \/ k = Len(added) + 1 /\ added'[k] = l
             \/ k \in DOMAIN added /\ added'[k] = added[k] /\ added'[k] # l
  BY <1>1, <1>2, <1>4, <1>6
<1>8. ASSUME NEW i \in DOMAIN entries', i # 1
      PROVE  i - 1 \in DOMAIN entries /\ entries'[i] = entries[i - 1]
  BY <1>1, <1>3, <1>5, <1>8
<1>9. \A i \in DOMAIN entries : entries[i] # l BY <1>1, <1>2 DEF EntriesWereAdded
<1>10. AddedOnce'
  <2> SUFFICES ASSUME NEW i \in DOMAIN added', NEW k \in DOMAIN added', added'[i] = added'[k]
               PROVE  i = k
    BY DEF AddedOnce
  <2> QED BY <1>1, <1>7 DEF AddedOnce
<1>11. EntriesWereAdded'
  <2> SUFFICES ASSUME NEW i \in DOMAIN entries'
               PROVE  \E k \in DOMAIN added' : added'[k] = entries'[i]
    BY DEF EntriesWereAdded
  <2>1. CASE i = 1
    <3>1. Len(added) + 1 \in DOMAIN added' BY <1>1, <1>6
    <3> QED BY <1>3, <1>4, <2>1, <3>1
  <2>2. CASE i # 1
    <3>1. PICK k \in DOMAIN added : added[k] = entries'[i] BY <1>1, <1>8, <2>2 DEF EntriesWereAdded
    <3>2. k \in DOMAIN added' /\ added'[k] = added[k] BY <1>1, <1>4, <1>6, <3>1
    <3> QED BY <3>1, <3>2
  <2> QED BY <2>1, <2>2
<1>12. LaterFirst'
  <2> SUFFICES ASSUME NEW i \in DOMAIN entries', NEW j \in DOMAIN entries', i < j,
                      NEW k \in DOMAIN added', NEW m \in DOMAIN added',
                      added'[k] = entries'[i], added'[m] = entries'[j]
               PROVE  m < k
    BY DEF LaterFirst
  <2>1. j # 1 /\ i \in Nat /\ j \in Nat /\ i >= 1 BY <1>5
  <2>2. j - 1 \in DOMAIN entries /\ entries'[j] = entries[j - 1] BY <1>8, <2>1
  <2>3. m \in DOMAIN added /\ added[m] = entries[j - 1] BY <1>7, <1>9, <2>2
  <2>4. CASE i = 1
    <3>1. k = Len(added) + 1 BY <1>3, <1>7, <2>4
    <3> QED BY <1>1, <2>3, <3>1
  <2>5. CASE i # 1
    <3>1. i - 1 \in DOMAIN entries /\ entries'[i] = entries[i - 1] BY <1>8, <2>5
    <3>2. k \in DOMAIN added /\ added[k] = entries[i - 1] BY <1>7, <1>9, <3>1
    <3>3. i - 1 < j - 1 BY <2>1
    <3> QED BY <1>1, <2>2, <2>3, <3>1, <3>2, <3>3 DEF LaterFirst
  <2> QED BY <2>4, <2>5
<1>13. RetryingIsInFlight'
  <2> SUFFICES ASSUME NEW i \in DOMAIN entries', status'[entries'[i]] = "retrying"
               PROVE  \E r \in Request : replay[r].kind = "one" /\ Head(replay[r].todo) = entries'[i]
    BY <1>2 DEF RetryingIsInFlight, Elems
  <2>1. i # 1 BY <1>1, <1>2, <1>3
  <2>2. i - 1 \in DOMAIN entries /\ entries'[i] = entries[i - 1] BY <1>8, <2>1
  <2>3. entries[i - 1] # l /\ entries[i - 1] \in Letter BY <1>1, <1>9, <2>2
  <2>4. status[entries[i - 1]] = "retrying" BY <1>1, <1>2, <2>2, <2>3
  <2> QED BY <1>1, <2>2, <2>4 DEF RetryingIsInFlight, Elems
<1>14. LettersTypeOK'
  <2>1. status' \in [Letter -> {"queued", "retrying"}] BY <1>1, <1>2
  <2>2. UNCHANGED <<replay, delivered>> /\ LettersTypeOK BY <1>2 DEF LettersInv
  <2> QED BY <1>1, <1>3, <1>4, <1>5, <2>1, <2>2 DEF LettersTypeOK
<1>15. ReplaysHaveWork' BY <1>1, <1>2 DEF ReplaysHaveWork
<1> QED BY <1>10, <1>11, <1>12, <1>13, <1>14, <1>15 DEF LettersInv

LEMMA RetryOneKeeps ==
  ASSUME LettersInv, NEW r \in Request, NEW l \in Letter, RetryOne(r, l) PROVE LettersInv'
<1> DEFINE x == [kind |-> "one", todo |-> <<l>>]
<1>1. /\ status \in [Letter -> {"queued", "retrying"}] /\ entries \in Seq(Letter)
      /\ replay \in [Request -> [kind : {"idle", "one", "all"}, todo : Seq(Letter)]]
      /\ ReplaysHaveWork /\ RetryingIsInFlight
  BY LettersAre
<1>2. /\ replay[r] = Idle /\ status' = [status EXCEPT ![l] = "retrying"]
      /\ replay' = [replay EXCEPT ![r] = x]
      /\ UNCHANGED <<entries, added, delivered>>
  BY DEF RetryOne
<1>3. /\ x \in [kind : {"idle", "one", "all"}, todo : Seq(Letter)] /\ x.kind = "one"
      /\ Len(x.todo) = 1 /\ Head(x.todo) = l
  OBVIOUS
<1> HIDE DEF x
<1>4. /\ status' \in [Letter -> {"queued", "retrying"}]
      /\ replay' \in [Request -> [kind : {"idle", "one", "all"}, todo : Seq(Letter)]]
      /\ \A q \in Request : replay'[q] = IF q = r THEN x ELSE replay[q]
  BY <1>1, <1>2, <1>3
<1>5. LettersTypeOK' BY <1>2, <1>4 DEF LettersInv, LettersTypeOK
<1>6. AddedOnce' /\ EntriesWereAdded' /\ LaterFirst' BY <1>2, OrderStays
<1>7. ReplaysHaveWork' BY <1>1, <1>3, <1>4 DEF ReplaysHaveWork
<1>8. RetryingIsInFlight'
  <2> SUFFICES ASSUME NEW n \in Elems(entries), status'[n] = "retrying"
               PROVE  \E q \in Request : replay'[q].kind = "one" /\ Head(replay'[q].todo) = n
    BY <1>2 DEF RetryingIsInFlight
  <2>1. CASE n = l BY <1>3, <1>4, <2>1
  <2>2. CASE n # l
    <3>1. n \in Letter /\ status[n] = "retrying" BY <1>1, <1>2, <2>2 DEF Elems
    <3>2. PICK q \in Request : replay[q].kind = "one" /\ Head(replay[q].todo) = n
      BY <1>1, <3>1 DEF RetryingIsInFlight
    <3>3. q # r BY <1>2, <3>2 DEF Idle
    <3> QED BY <1>4, <3>2, <3>3
  <2> QED BY <2>1, <2>2
<1> QED BY <1>5, <1>6, <1>7, <1>8 DEF LettersInv

LEMMA OneAnsweredKeeps ==
  ASSUME LettersInv, NEW r \in Request, NEW ok \in BOOLEAN, OneAnswered(r, ok)
  PROVE  LettersInv' /\ \A n \in Elems(entries) \ Elems(entries') : n \in delivered'
<1> DEFINE l == Head(replay[r].todo)
<1>1. /\ entries \in Seq(Letter) /\ Len(entries) <= MaxEntries /\ Len(entries) \in Nat
      /\ status \in [Letter -> {"queued", "retrying"}] /\ delivered \subseteq Letter
      /\ replay \in [Request -> [kind : {"idle", "one", "all"}, todo : Seq(Letter)]]
      /\ MaxEntries \in Nat /\ ReplaysHaveWork /\ RetryingIsInFlight
  BY LettersAre
<1>2. replay[r].kind = "one" /\ replay' = [replay EXCEPT ![r] = Idle] /\ added' = added
  BY DEF OneAnswered
<1>3. l \in Letter
  <2>1. replay[r].todo \in Seq(Letter) /\ Len(replay[r].todo) = 1 BY <1>1, <1>2 DEF ReplaysHaveWork
  <2> QED BY <2>1
<1>4. Idle \in [kind : {"idle", "one", "all"}, todo : Seq(Letter)] /\ Idle.kind = "idle" BY DEF Idle
<1>5. /\ replay' \in [Request -> [kind : {"idle", "one", "all"}, todo : Seq(Letter)]]
      /\ \A q \in Request : replay'[q] = IF q = r THEN Idle ELSE replay[q]
  BY <1>1, <1>2, <1>4
<1>6. ReplaysHaveWork' BY <1>1, <1>4, <1>5 DEF ReplaysHaveWork
<1>7. \/ ok /\ entries' = Spliced(entries, l) /\ delivered' = delivered \cup {l} /\ status' = status
      \/ ~ok /\ status' = [status EXCEPT ![l] = "queued"] /\ UNCHANGED <<entries, delivered>>
  BY DEF OneAnswered, BackInQueue
<1>8. /\ \A n \in Elems(entries) : n # l => n \in Elems(entries')
      /\ entries' \in Seq(Letter) /\ Len(entries') <= Len(entries)
      /\ \A i \in DOMAIN entries' : \E k \in DOMAIN entries : entries'[i] = entries[k]
      /\ \A i, j \in DOMAIN entries' : i < j =>
           \E k, m \in DOMAIN entries : k < m /\ entries'[i] = entries[k] /\ entries'[j] = entries[m]
  <2> HIDE DEF l
  <2>1. CASE entries' = Spliced(entries, l) BY <1>1, <2>1, SplicedIs DEF Elems
  <2>2. CASE entries' = entries BY <1>1, <2>2
  <2> QED BY <1>7, <2>1, <2>2
<1>9. Elems(entries') \subseteq Elems(entries) BY <1>8 DEF Elems
<1> HIDE DEF l
<1>10. LettersTypeOK'
  <2>1. status' \in [Letter -> {"queued", "retrying"}] /\ delivered' \subseteq Letter
    BY <1>1, <1>3, <1>7
  <2>2. Len(entries') <= MaxEntries BY <1>1, <1>8
  <2> QED BY <1>2, <1>5, <1>8, <2>1, <2>2 DEF LettersInv, LettersTypeOK
<1>11. AddedOnce' /\ EntriesWereAdded' /\ LaterFirst' BY <1>2, <1>8, OrderStays
<1>12. RetryingIsInFlight'
  <2> SUFFICES ASSUME NEW n \in Elems(entries'), status'[n] = "retrying"
               PROVE  \E q \in Request : replay'[q].kind = "one" /\ Head(replay'[q].todo) = n
    BY DEF RetryingIsInFlight
  <2>1. n \in Elems(entries) /\ n \in Letter
    <3>1. n \in Elems(entries) BY <1>9
    <3>2. n \in Letter BY <1>1, <3>1 DEF Elems
    <3> QED BY <3>1, <3>2
  <2>2. status[n] = "retrying" BY <1>1, <1>7, <2>1
  <2>3. PICK q \in Request : replay[q].kind = "one" /\ Head(replay[q].todo) = n
    BY <1>1, <2>1, <2>2 DEF RetryingIsInFlight
  <2>4. CASE q # r BY <1>5, <2>3, <2>4
  \* The replay that ended was of n: n is queued again, or out of the buffer for good.
  <2>5. CASE q = r
    <3>1. n = l BY <2>3, <2>5 DEF l
    <3>2. ok /\ entries' = Spliced(entries, l) BY <1>1, <1>3, <1>7, <3>1
    <3>3. \A i, k \in DOMAIN entries : entries[i] = entries[k] => i = k
      <4> SUFFICES ASSUME NEW i \in DOMAIN entries, NEW k \in DOMAIN entries, i < k,
                          entries[i] = entries[k]
                   PROVE  FALSE
        BY <1>1
      <4>1. PICK m \in DOMAIN added : added[m] = entries[i] BY LettersAre DEF EntriesWereAdded
      <4>2. m < m BY <4>1, LettersAre DEF LaterFirst
      <4>3. m \in Nat BY LettersAre
      <4> QED BY <4>2, <4>3
    <3>4. l \notin Elems(entries') BY <1>1, <3>2, <3>3, SplicedIs
    <3> QED BY <3>1, <3>4
  <2> QED BY <2>4, <2>5
<1>13. \A n \in Elems(entries) \ Elems(entries') : n \in delivered' BY <1>7, <1>8
<1> QED BY <1>6, <1>10, <1>11, <1>12, <1>13 DEF LettersInv

LEMMA RetryAllKeeps == ASSUME LettersInv, NEW r \in Request, RetryAll(r) PROVE LettersInv'
<1> DEFINE x == [kind |-> "all", todo |-> entries]
<1>1. /\ entries \in Seq(Letter) /\ ReplaysHaveWork /\ RetryingIsInFlight
      /\ replay \in [Request -> [kind : {"idle", "one", "all"}, todo : Seq(Letter)]]
  BY LettersAre
<1>2. /\ replay[r] = Idle /\ entries # <<>> /\ replay' = [replay EXCEPT ![r] = x]
      /\ UNCHANGED <<entries, status, added, delivered>>
  BY DEF RetryAll
<1>3. x \in [kind : {"idle", "one", "all"}, todo : Seq(Letter)] /\ x.kind = "all" /\ x.todo # <<>>
  BY <1>1, <1>2
<1> HIDE DEF x
<1>4. /\ replay' \in [Request -> [kind : {"idle", "one", "all"}, todo : Seq(Letter)]]
      /\ \A q \in Request : replay'[q] = IF q = r THEN x ELSE replay[q]
  BY <1>1, <1>2, <1>3
<1>5. LettersTypeOK' BY <1>2, <1>4 DEF LettersInv, LettersTypeOK
<1>6. AddedOnce' /\ EntriesWereAdded' /\ LaterFirst' BY <1>2, OrderStays
<1>7. ReplaysHaveWork' BY <1>1, <1>3, <1>4 DEF ReplaysHaveWork
<1>8. RetryingIsInFlight'
  <2> SUFFICES ASSUME NEW n \in Elems(entries), status[n] = "retrying"
               PROVE  \E q \in Request : replay'[q].kind = "one" /\ Head(replay'[q].todo) = n
    BY <1>2 DEF RetryingIsInFlight
  <2>1. PICK q \in Request : replay[q].kind = "one" /\ Head(replay[q].todo) = n
    BY <1>1 DEF RetryingIsInFlight
  <2>2. q # r BY <1>2, <2>1 DEF Idle
  <2> QED BY <1>4, <2>1, <2>2
<1> QED BY <1>5, <1>6, <1>7, <1>8 DEF LettersInv

LEMMA AllAnsweredKeeps ==
  ASSUME LettersInv, NEW r \in Request, NEW ok \in BOOLEAN, AllAnswered(r, ok)
  PROVE  LettersInv'
<1> DEFINE todo0 == replay[r].todo
           x == IF Tail(todo0) = <<>> THEN Idle ELSE [replay[r] EXCEPT !.todo = Tail(todo0)]
<1>1. /\ ReplaysHaveWork /\ RetryingIsInFlight /\ delivered \subseteq Letter
      /\ replay \in [Request -> [kind : {"idle", "one", "all"}, todo : Seq(Letter)]]
  BY LettersAre
<1>2. /\ replay[r].kind = "all" /\ replay' = [replay EXCEPT ![r] = x]
      /\ delivered' \in {delivered, delivered \cup {Head(todo0)}}
      /\ UNCHANGED <<entries, status, added>>
  BY <1>1 DEF AllAnswered
<1>3. todo0 \in Seq(Letter) /\ todo0 # <<>> BY <1>1, <1>2 DEF ReplaysHaveWork
<1>4. Head(todo0) \in Letter /\ Tail(todo0) \in Seq(Letter) BY <1>3, HeadTailProperties
<1>5. /\ x \in [kind : {"idle", "one", "all"}, todo : Seq(Letter)] /\ x.kind \in {"idle", "all"}
      /\ x.kind = "all" => x.todo # <<>>
  <2> HIDE DEF todo0
  <2>1. Idle \in [kind : {"idle", "one", "all"}, todo : Seq(Letter)] /\ Idle.kind = "idle" BY DEF Idle
  <2>2. /\ [replay[r] EXCEPT !.todo = Tail(todo0)] \in [kind : {"idle", "one", "all"}, todo : Seq(Letter)]
        /\ [replay[r] EXCEPT !.todo = Tail(todo0)].kind = "all"
        /\ [replay[r] EXCEPT !.todo = Tail(todo0)].todo = Tail(todo0)
    BY <1>1, <1>2, <1>4
  <2> QED BY <2>1, <2>2
<1> HIDE DEF x
<1>6. /\ replay' \in [Request -> [kind : {"idle", "one", "all"}, todo : Seq(Letter)]]
      /\ \A q \in Request : replay'[q] = IF q = r THEN x ELSE replay[q]
  BY <1>1, <1>2, <1>5
<1>7. delivered' \subseteq Letter BY <1>1, <1>2, <1>4
<1>8. LettersTypeOK' BY <1>2, <1>6, <1>7 DEF LettersInv, LettersTypeOK
<1>9. AddedOnce' /\ EntriesWereAdded' /\ LaterFirst' BY <1>2, OrderStays
<1>10. ReplaysHaveWork' BY <1>1, <1>5, <1>6 DEF ReplaysHaveWork
<1>11. RetryingIsInFlight' BY <1>1, <1>2, <1>6 DEF RetryingIsInFlight
<1> QED BY <1>8, <1>9, <1>10, <1>11 DEF LettersInv

\* The buffer is emptied, by a request or because the process ended.
LEMMA EmptyingKeeps == ASSUME LettersInv, Clear \/ Restart PROVE LettersInv' /\ entries' = <<>>
<1>1. entries' = <<>> /\ UNCHANGED <<added, delivered>> BY DEF Clear, Restart
<1>2. ReplaysHaveWork' /\ replay' \in [Request -> [kind : {"idle", "one", "all"}, todo : Seq(Letter)]]
  <2>1. CASE Clear
    <3>1. replay' = replay BY <2>1 DEF Clear
    <3>2. /\ ReplaysHaveWork
          /\ replay \in [Request -> [kind : {"idle", "one", "all"}, todo : Seq(Letter)]]
      BY LettersAre
    <3> QED BY <3>1, <3>2 DEF ReplaysHaveWork
  <2>2. CASE Restart
    <3>1. replay' = [q \in Request |-> Idle] BY <2>2 DEF Restart
    <3>2. Idle \in [kind : {"idle", "one", "all"}, todo : Seq(Letter)] /\ Idle.kind = "idle" BY DEF Idle
    <3> QED BY <3>1, <3>2 DEF ReplaysHaveWork
  <2> QED BY <2>1, <2>2
<1>3. status' \in [Letter -> {"queued", "retrying"}] BY LettersAre DEF Clear, Restart
<1>4. LettersTypeOK'
  <2>1. <<>> \in Seq(Letter) /\ Len(<<>>) = 0 /\ MaxEntries \in Nat BY DeadLetterAssumption
  <2>2. added' \in Seq(Letter) /\ delivered' \subseteq Letter BY <1>1, LettersAre
  <2>3. entries' \in Seq(Letter) /\ Len(entries') <= MaxEntries BY <1>1, <2>1
  <2> QED BY <1>2, <1>3, <2>2, <2>3 DEF LettersTypeOK
<1>5. AddedOnce' /\ EntriesWereAdded' /\ LaterFirst'
  <2>1. DOMAIN entries' = {} BY <1>1
  <2>2. AddedOnce BY LettersAre
  <2> QED BY <1>1, <2>1, <2>2 DEF AddedOnce, EntriesWereAdded, LaterFirst
<1>6. RetryingIsInFlight' BY <1>1 DEF RetryingIsInFlight, Elems
<1> QED BY <1>1, <1>2, <1>4, <1>5, <1>6 DEF LettersInv

LEMMA LettersStart == ASSUME LettersInit PROVE LettersInv
<1>1. <<>> \in Seq(Letter) /\ Len(<<>>) = 0 /\ MaxEntries \in Nat BY DeadLetterAssumption
<1>2. Idle \in [kind : {"idle", "one", "all"}, todo : Seq(Letter)] /\ Idle.kind = "idle" BY DEF Idle
<1>3. LettersTypeOK BY <1>1, <1>2 DEF LettersInit, LettersTypeOK
<1>4. AddedOnce /\ EntriesWereAdded /\ LaterFirst
  BY <1>1 DEF LettersInit, AddedOnce, EntriesWereAdded, LaterFirst
<1>5. ReplaysHaveWork /\ RetryingIsInFlight
  BY <1>1, <1>2 DEF LettersInit, ReplaysHaveWork, RetryingIsInFlight, Elems
<1> QED BY <1>3, <1>4, <1>5 DEF LettersInv

\* Why a step takes an entry out of the buffer.
Leaves ==
  \A l \in Elems(entries) \ Elems(entries') :
    \/ l \in delivered'
    \/ entries' = <<>>
    \/ Len(entries) = MaxEntries /\ l = entries[MaxEntries] /\ added' # added

LEMMA AddLeaves == ASSUME LettersInv, NEW l \in Letter, Add(l) PROVE Leaves
<1>1. /\ entries \in Seq(Letter) /\ Len(entries) \in Nat /\ Len(entries) <= MaxEntries
      /\ DOMAIN entries = 1..Len(entries) /\ MaxEntries \in Nat \ {0}
      /\ added \in Seq(Letter) /\ Len(added) \in Nat
  BY LettersAre
<1>2. added' = Append(added, l) /\ entries' = Unshifted(entries, l) BY DEF Add
<1>3. /\ entries' \in Seq(Letter)
      /\ Len(entries') = (IF Len(entries) < MaxEntries THEN Len(entries) + 1 ELSE MaxEntries)
      /\ \A k \in 2..Len(entries') : entries'[k] = entries[k - 1]
  BY <1>1, <1>2, UnshiftedIs
<1>4. Len(added') = Len(added) + 1 BY <1>1, <1>2, AppendProperties
<1>5. added' # added BY <1>1, <1>4
<1>6. ASSUME NEW i \in DOMAIN entries, i < MaxEntries PROVE entries[i] \in Elems(entries')
  <2>1. i + 1 \in 2..Len(entries') /\ i + 1 \in DOMAIN entries' BY <1>1, <1>3, <1>6
  <2>2. entries'[i + 1] = entries[i] BY <1>1, <1>3, <2>1
  <2> QED BY <2>1, <2>2 DEF Elems
<1> SUFFICES ASSUME NEW n \in Elems(entries) \ Elems(entries')
             PROVE  Len(entries) = MaxEntries /\ n = entries[MaxEntries]
  BY <1>5 DEF Leaves
<1>7. PICK i \in DOMAIN entries : entries[i] = n BY DEF Elems
<1>8. ~(i < MaxEntries) BY <1>6, <1>7
<1>9. i = MaxEntries /\ Len(entries) = MaxEntries
  <2>1. i \in 1..Len(entries) BY <1>1, <1>7
  <2>2. i \in Nat /\ i <= Len(entries) BY <1>1, <2>1
  <2>3. Len(entries) \in Nat /\ MaxEntries \in Nat /\ Len(entries) <= MaxEntries BY <1>1
  <2>4. MaxEntries <= i BY <1>8, <2>2, <2>3
  <2>5. MaxEntries = i BY <2>2, <2>3, <2>4
  <2> QED BY <2>2, <2>3, <2>5
<1> QED BY <1>7, <1>9

LEMMA LettersStep == ASSUME LettersInv, [LettersNext]_letterVars PROVE LettersInv' /\ Leaves
<1>1. ASSUME NEW l \in Letter, Add(l) PROVE LettersInv' /\ Leaves BY <1>1, AddKeeps, AddLeaves
<1>2. ASSUME NEW r \in Request, NEW l \in Letter, RetryOne(r, l) PROVE LettersInv' /\ Leaves
  <2>1. entries' = entries BY <1>2 DEF RetryOne
  <2> QED BY <1>2, <2>1, RetryOneKeeps DEF Leaves
<1>3. ASSUME NEW r \in Request, NEW ok \in BOOLEAN, OneAnswered(r, ok) PROVE LettersInv' /\ Leaves
  BY <1>3, OneAnsweredKeeps DEF Leaves
<1>4. ASSUME NEW r \in Request, RetryAll(r) PROVE LettersInv' /\ Leaves
  <2>1. entries' = entries BY <1>4 DEF RetryAll
  <2> QED BY <1>4, <2>1, RetryAllKeeps DEF Leaves
<1>5. ASSUME NEW r \in Request, NEW ok \in BOOLEAN, AllAnswered(r, ok) PROVE LettersInv' /\ Leaves
  <2>1. entries' = entries BY <1>5 DEF AllAnswered
  <2> QED BY <1>5, <2>1, AllAnsweredKeeps DEF Leaves
<1>6. CASE Clear \/ Restart BY <1>6, EmptyingKeeps DEF Leaves
<1>7. CASE UNCHANGED letterVars
  <2>1. UNCHANGED <<entries, status, added, replay, delivered>> BY <1>7 DEF letterVars
  <2>2. LettersInv'
    BY <2>1 DEF LettersInv, LettersTypeOK, AddedOnce, EntriesWereAdded, LaterFirst, ReplaysHaveWork,
                RetryingIsInFlight
  <2> QED BY <2>1, <2>2 DEF Leaves
<1> QED BY <1>1, <1>2, <1>3, <1>4, <1>5, <1>6, <1>7 DEF LettersNext, Replaying

LEMMA LettersImply == ASSUME LettersInv PROVE LettersTypeOK /\ LettersAreSound
<1>1. NewestFirst
  <2> DEFINE at(l) == CHOOSE i \in DOMAIN added : added[i] = l
  <2> SUFFICES ASSUME NEW i \in DOMAIN entries, NEW j \in DOMAIN entries, i < j
               PROVE  at(entries[i]) > at(entries[j])
    BY DEF NewestFirst
  <2>1. \A n \in DOMAIN entries : at(entries[n]) \in DOMAIN added /\ added[at(entries[n])] = entries[n]
    BY LettersAre DEF EntriesWereAdded
  <2> HIDE DEF at
  <2>2. at(entries[j]) < at(entries[i]) BY <2>1, LettersAre DEF LaterFirst
  <2>3. at(entries[j]) \in Nat /\ at(entries[i]) \in Nat BY <2>1, LettersAre
  <2> QED BY <2>2, <2>3
<1> QED BY <1>1 DEF LettersInv, LettersAreSound

LEMMA LettersAlways == LettersSpec => []LettersInv
<1>1. LettersInv /\ [LettersNext]_letterVars => LettersInv' BY LettersStep
<1> QED BY <1>1, LettersStart, PTL DEF LettersSpec

\* Whichever replays, clearings, failures and restarts overlap, the buffer lists each failure
\* once and newest first, and shows "retrying" only while that entry is being replayed.
THEOREM LettersSound == LettersSpec => [](LettersTypeOK /\ LettersAreSound)
<1>1. LettersInv => LettersTypeOK /\ LettersAreSound BY LettersImply
<1> QED BY <1>1, LettersAlways, PTL

\* An entry leaves the buffer only because a replay delivered it, the buffer was emptied, or
\* it was the oldest of a full one when another failure came.
THEOREM LettersLeave == LettersSpec => LeavesForAReason
<1>1. LettersInv /\ [LettersNext]_letterVars =>
        [\A l \in Elems(entries) \ Elems(entries') :
           \/ l \in delivered'
           \/ entries' = <<>>
           \/ Len(entries) = MaxEntries /\ l = entries[MaxEntries] /\ added' # added]_letterVars
  BY LettersStep DEF Leaves
<1> QED BY <1>1, LettersAlways, PTL DEF LettersSpec, LeavesForAReason
=============================================================================
