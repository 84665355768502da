--------------------------- MODULE TurnRowsProofs ---------------------------
(***************************************************************************)
(* Lemmas about the queries and row updates of TurnRows: what they return, *)
(* that they keep the row type, and what one of them may do to a row.      *)
(***************************************************************************)
EXTENDS TurnRows, FiniteSetTheorems, WellFoundedInduction, TLAPS

-----------------------------------------------------------------------------
(* Choosing turns.                                                         *)

(* There are MaxTurns identifiers of turns. *)
LEMMA TurnsFinite == IsFiniteSet(Turns) /\ Cardinality(Turns) = MaxTurns
<1>1. MaxTurns \in Nat
  BY RowConstants
<1>. QED
  BY <1>1, FS_Interval DEF Turns

(* A set of numbers that is not empty has a least element.                 *)
LEMMA LeastIn ==
  ASSUME NEW S, S \subseteq Nat, S # {}
  PROVE  Least(S) \in S /\ \A u \in S : Least(S) <= u
<1>. DEFINE R == {ss \in Nat \X Nat : ss[1] < ss[2]}
<1>1. IsWellFoundedOn(R, Nat)
  BY NatLessThanWellFounded DEF OpToRel
<1>. HIDE DEF R
<1>2. \E t \in S : \A u \in S : ~(<<u, t>> \in R)
  BY <1>1, WFMin
<1>3. \A t \in S : \A u \in S : ~(<<u, t>> \in R) => t <= u
  BY DEF R
<1>4. \E t \in S : \A u \in S : t <= u
  BY <1>2, <1>3
<1>. QED
  BY <1>4 DEF Least

(* A set of turns that is not empty has a greatest element.                *)
LEMMA GreatestIn ==
  ASSUME NEW S \in SUBSET Turns, S # {}
  PROVE  Greatest(S) \in S
<1>. DEFINE D == {MaxTurns - t : t \in S}
<1>1. MaxTurns \in Nat /\ \A t \in S : t \in Nat /\ t <= MaxTurns
  BY RowConstants DEF Turns
<1>2. D \subseteq Nat /\ D # {}
  BY <1>1
<1>. DEFINE d == Least(D)
<1>3. d \in D /\ \A u \in D : d <= u
  BY <1>2, LeastIn
<1>. HIDE DEF d
<1>4. PICK t \in S : d = MaxTurns - t
  BY <1>3
<1>5. \A u \in S : u <= t
  <2>. SUFFICES ASSUME NEW u \in S PROVE u <= t
    OBVIOUS
  <2>1. MaxTurns - t <= MaxTurns - u
    BY <1>3, <1>4
  <2>. QED
    BY <1>1, <2>1
<1>. QED
  BY <1>5 DEF Greatest

-----------------------------------------------------------------------------
(* Row types.                                                              *)

(* The missing row is a row. *)
LEMMA NoRowType == NoRow \in Row
<1>1. <<"own", 0, Nobody>> \in Keys
  BY DEF Keys, KeyKinds
<1>2. 0 \in Episodes
  BY RowConstants DEF Episodes
<1>. QED
  BY <1>1, <1>2 DEF NoRow, Row, Columns, Statuses, Leases, Outcomes, Causes

(* A new turn is queued, unleased and never attempted. *)
LEMMA NewTurnFields ==
  ASSUME NEW a, NEW c, NEW b, NEW k, NEW e, NEW key
  PROVE  /\ NewTurn(a, c, b, k, e, key).key = key
         /\ NewTurn(a, c, b, k, e, key).status = "queued"
         /\ NewTurn(a, c, b, k, e, key).lease = "none"
         /\ NewTurn(a, c, b, k, e, key).attempt = 0
BY DEF NewTurn, NoRow

(* A new turn is a row. *)
LEMMA NewTurnType ==
  ASSUME NEW a \in Agents \cup {Nobody}, NEW c \in Causes, NEW b \in Agents \cup {Nobody},
         NEW k \in {0} \cup AskIds, NEW e \in Episodes, NEW key \in Keys,
         c = "ask" => k # 0
  PROVE  NewTurn(a, c, b, k, e, key) \in Row
BY NoRowType DEF NewTurn, Row, Columns, Statuses

(* An insert leaves rows rows. *)
LEMMA InsertType ==
  ASSUME NEW r \in [Turns -> Row], NEW x \in Row
  PROVE  Insert(r, x) \in [Turns -> Row]
BY DEF Insert

(* The episode an agent acts in is a message of the conversation.          *)
LEMMA RequesterEpisodeType ==
  ASSUME NEW r \in [Turns -> Row], NEW a, NEW latest \in Episodes
  PROVE  RequesterEpisode(r, a, latest) \in Episodes
<1>. DEFINE mine(S) == {t \in With(r, S) : r[t].agent = a}
            last == IF mine({"running"}) # {} THEN mine({"running"}) ELSE mine({"done"})
<1>1. last \in SUBSET Turns
  BY DEF With
<1>2. last # {} => r[Greatest(last)].episode \in Episodes
  BY <1>1, GreatestIn DEF Row, Columns
<1>. QED
  BY <1>2 DEF RequesterEpisode

-----------------------------------------------------------------------------
(* What one step may do to a row.  x: the row before, y: the row after.    *)

Keeps(x, y) ==
  /\ y.status = x.status /\ y.attempt = x.attempt /\ y.key = x.key
  /\ y.lease = "none" <=> x.lease = "none"

Adds(x, y) ==
  /\ x.status = "absent"
  /\ y.status = "queued" /\ y.lease = "none" /\ y.attempt = 0

Ends(x, y) ==
  /\ x.status # "absent"
  /\ y.status \in Over /\ y.lease = "none"
  /\ y.attempt = x.attempt /\ y.key = x.key

Lapses(x, y) ==
  /\ x.status = "running" /\ x.attempt < MaxAttempts
  /\ y.status = "queued" /\ y.lease = "none"
  /\ y.attempt = x.attempt /\ y.key = x.key

HandsBack(x, y) ==
  /\ x.status = "running"
  /\ y.status = "queued" /\ y.lease = "none"
  /\ y.attempt = (IF x.attempt = 0 THEN 0 ELSE x.attempt - 1) /\ y.key = x.key

Begins(x, y) ==
  /\ x.status \in {"absent", "queued"}
  /\ y.status = "running" /\ y.lease # "none"
  /\ y.attempt = x.attempt + 1

Refuses(x, y) ==
  /\ x.status = "queued"
  /\ y.status = "failed" /\ y.lease = "none"
  /\ y.attempt = x.attempt + 1 /\ y.key = x.key

Quiet(x, y) == Keeps(x, y) \/ Adds(x, y) \/ Ends(x, y) \/ Lapses(x, y)

(* s, n: how often the turn was started and handed back; s1, n1: after.    *)
RowStep(x, y, s, s1, n, n1) ==
  \/ Quiet(x, y) /\ s1 = s /\ n1 = n
  \/ HandsBack(x, y) /\ s1 = s /\ n1 = n + 1
  \/ (Begins(x, y) \/ Refuses(x, y)) /\ s1 = s + 1 /\ n1 = n

(* The part of the invariant that speaks of one row: running means leased, *)
(* and the attempt column counts the starts less the hand-backs.           *)
RowOK(x, s, n) ==
  /\ x.status = "running" <=> x.lease # "none"
  /\ s = x.attempt + n
  /\ x.attempt <= MaxAttempts
  /\ x.status = "queued" => x.attempt < MaxAttempts
  /\ x.status = "running" => x.attempt # 0
  /\ x.status = "absent" => x.attempt = 0

(* A row that is good stays good through any step a row may take. *)
LEMMA RowStepOK ==
  ASSUME NEW x \in Row, NEW y \in Row, NEW s \in Nat, NEW s1 \in Nat,
         NEW n \in Nat, NEW n1 \in Nat,
         RowOK(x, s, n), RowStep(x, y, s, s1, n, n1)
  PROVE  RowOK(y, s1, n1)
<1>1. MaxAttempts \in Nat \ {0} /\ x.attempt \in Nat /\ y.attempt \in Nat
  BY RowConstants DEF Row, Columns
<1>2. CASE Quiet(x, y) /\ s1 = s /\ n1 = n
  BY <1>1, <1>2 DEF RowOK, Quiet, Keeps, Adds, Ends, Lapses, Over
<1>3. CASE HandsBack(x, y) /\ s1 = s /\ n1 = n + 1
  BY <1>1, <1>3 DEF RowOK, HandsBack
<1>4. CASE (Begins(x, y) \/ Refuses(x, y)) /\ s1 = s + 1 /\ n1 = n
  BY <1>1, <1>4 DEF RowOK, Begins, Refuses
<1>. QED
  BY <1>2, <1>3, <1>4 DEF RowStep

(* Two quiet changes of one step, the second an INSERT.                    *)
LEMMA QuietTwice ==
  ASSUME NEW x \in Row, NEW y \in Row, NEW z \in Row,
         Quiet(x, y), Keeps(y, z) \/ Adds(y, z)
  PROVE  Quiet(x, z)
BY DEF Quiet, Keeps, Adds, Ends, Lapses, Over

-----------------------------------------------------------------------------
(* The update operators.                                                   *)

(* An ended row is a row, over, with its cause. *)
LEMMA EndedIs ==
  ASSUME NEW x \in Row, NEW s \in Over, NEW o \in Outcomes
  PROVE  /\ Ended(x, s, o) \in Row
         /\ x.status # "absent" => Ends(x, Ended(x, s, o))
         /\ Ended(x, s, o).cause = x.cause
<1>1. s \in Statuses /\ "none" \in Leases
  BY DEF Over, Statuses, Leases
<1>. QED
  BY <1>1 DEF Ended, Ends, Row, Columns

(* A claim begins a waiting row and counts one attempt. *)
LEMMA ClaimedIs ==
  ASSUME NEW x \in Row
  PROVE  /\ Claimed(x) \in Row
         /\ x.status \in {"absent", "queued"} => Begins(x, Claimed(x))
         /\ Claimed(x).key = x.key
         /\ Claimed(x).attempt = x.attempt + 1
         /\ Claimed(x).status = "running" /\ Claimed(x).lease = "live"
<1>1. "running" \in Statuses /\ "live" \in Leases /\ x.attempt + 1 \in Nat
  BY DEF Statuses, Leases, Row, Columns
<1>. QED
  BY <1>1 DEF Claimed, Begins, Row, Columns

(* A requeue leaves a row waiting, with the attempts it is given. *)
LEMMA RequeuedIs ==
  ASSUME NEW x \in Row, NEW n \in Nat
  PROVE  /\ Requeued(x, n) \in Row
         /\ Requeued(x, n).status = "queued" /\ Requeued(x, n).lease = "none"
         /\ Requeued(x, n).attempt = n /\ Requeued(x, n).key = x.key
         /\ Requeued(x, n).cause # "inline"
<1>1. "queued" \in Statuses /\ "none" \in Leases /\ "" \in Outcomes /\ "human" \in Causes
  BY DEF Statuses, Leases, Outcomes, Causes
<1>. QED
  BY <1>1 DEF Requeued, Row, Columns

-----------------------------------------------------------------------------
(* INSERT.                                                                 *)

(* While rows are left, the next one is a turn that is not used.           *)
LEMMA NextTurnFree ==
  ASSUME NEW r, Used(r) # Turns
  PROVE  NextTurn(r) \in Turns \ Used(r)
<1>1. Turns \ Used(r) # {} /\ Turns \ Used(r) \subseteq Nat
  BY DEF Used, Turns
<1>. QED
  BY <1>1, LeastIn DEF NextTurn

(* An insert adds one row, or none when its key is taken. *)
LEMMA InsertIs ==
  ASSUME NEW r \in [Turns -> Row], NEW x \in Row, Used(r) # Turns,
         x.status = "queued", x.lease = "none", x.attempt = 0
  PROVE  \A t \in Turns : Keeps(r[t], Insert(r, x)[t]) \/ Adds(r[t], Insert(r, x)[t])
<1>1. NextTurn(r) \in Turns /\ r[NextTurn(r)].status = "absent"
  BY NextTurnFree DEF Used
<1>. QED
  BY <1>1 DEF Insert, Keeps, Adds

(* Rows are used up one at a time.                                         *)
LEMMA InsertUses ==
  ASSUME NEW r \in [Turns -> Row], NEW x \in Row
  PROVE  /\ IsFiniteSet(Used(r))
         /\ Cardinality(Used(r)) \in Nat
         /\ Cardinality(Used(Insert(r, x))) <= Cardinality(Used(r)) + 1
<1>1. IsFiniteSet(Used(r)) /\ IsFiniteSet(Used(Insert(r, x)))
  BY TurnsFinite, FS_Subset DEF Used
<1>2. Used(Insert(r, x)) \subseteq Used(r) \cup {NextTurn(r)}
  BY DEF Used, Insert
<1>. DEFINE U == Used(r) \cup {NextTurn(r)}
<1>3. /\ IsFiniteSet(U)
      /\ Cardinality(U) = IF NextTurn(r) \in Used(r) THEN Cardinality(Used(r))
                          ELSE Cardinality(Used(r)) + 1
  <2>. HIDE DEF Used, NextTurn
  <2>. QED
    BY <1>1, FS_AddElement
<1>4. Cardinality(Used(Insert(r, x))) <= Cardinality(U)
  BY <1>2, <1>3, FS_Subset
<1>5. Cardinality(U) \in Nat /\ Cardinality(Used(Insert(r, x))) \in Nat
       /\ Cardinality(Used(r)) \in Nat
  BY <1>1, <1>3, FS_CardinalityType
<1>. QED
  BY <1>1, <1>3, <1>4, <1>5

(* A row is free while fewer than MaxTurns are used. *)
LEMMA RowsLeft ==
  ASSUME NEW r, Cardinality(Used(r)) < MaxTurns
  PROVE  Used(r) # Turns
BY TurnsFinite, RowConstants

-----------------------------------------------------------------------------
(* Idempotency keys.                                                       *)

KeysOK(r) ==
  /\ \A t, u \in Used(r) : r[t].key = r[u].key => t = u
  /\ \A t \in Used(r), u \in Turns : r[t].key = <<"own", u, Nobody>> => t = u

(* Keys stay unique when no row is added and no key changes. *)
LEMMA KeysKept ==
  ASSUME NEW r \in [Turns -> Row], NEW s \in [Turns -> Row], KeysOK(r),
         \A t \in Turns : s[t].status # "absent"
                          => s[t].key = r[t].key /\ r[t].status # "absent"
  PROVE  KeysOK(s)
BY DEF KeysOK, Used

(* An INSERT of a row whose key is its own, or names what it is for.       *)
LEMMA KeysInsert ==
  ASSUME NEW r \in [Turns -> Row], NEW x \in Row, KeysOK(r), Used(r) # Turns,
         x.key = OwnKey(r) \/ x.key[1] # "own"
  PROVE  KeysOK(Insert(r, x))
<1>. DEFINE n == NextTurn(r)
<1>1. n \in Turns \ Used(r)
  BY NextTurnFree
<1>2. CASE HasKey(r, x.key)
  BY <1>2 DEF Insert
<1>3. CASE ~HasKey(r, x.key)
  <2>. DEFINE s == [r EXCEPT ![n] = x]
  <2>1. Insert(r, x) = s
    BY <1>3 DEF Insert
  <2>2. s[n] = x /\ \A t \in Turns : t # n => s[t] = r[t]
    BY <1>1
  <2>3. Used(s) \subseteq Used(r) \cup {n}
    BY <2>2 DEF Used
  <2>4. \A t \in Used(r) : r[t].key # x.key
    BY <1>3 DEF HasKey
  <2>5. \A u \in Turns : x.key = <<"own", u, Nobody>> => u = n
    BY DEF OwnKey
  <2>6. Used(r) \subseteq Turns
    BY DEF Used
  <2>. HIDE DEF n, s
  <2>. QED
    BY <2>1, <2>2, <2>3, <2>4, <2>5, <2>6, <1>1 DEF KeysOK
<1>. QED
  BY <1>2, <1>3
=============================================================================
