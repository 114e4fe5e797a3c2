---------------------------- MODULE Dedupe_proofs ----------------------------
(***************************************************************************)
(* Every step of either dedupe index is a step that DedupePromise allows,  *)
(* or none: for every number of workers, every window and every way alerts *)
(* map to fingerprints.  Feeds_proofs has the theorem about behaviours.    *)
(***************************************************************************)
EXTENDS Dedupe, TLAPS

KeptRows == [alert: Alerts, age: Nat, occurrences: Nat \ {0}]

DedupeInv == entries \in [Scopes -> [Prints -> KeptRows \cup {NoRow}]]

\* What the promise sees of the entries.
Claims == [k \in Scopes |-> [f \in Prints |-> Live(entries[k][f])]]

LEMMA NoRowIsNone == NoRow \notin KeptRows
BY DedupeAssumption DEF KeptRows

LEMMA DedupeInitPromised ==
    ASSUME NEW b, DedupeInit(b)
    PROVE  DedupeInv /\ Promise!Init
<1>1. entries = [k \in Scopes |-> [f \in Prints |-> NoRow]] /\ told = NothingTold
  BY DEF DedupeInit
<1>2. Live(NoRow) = NoRow
  BY DEF Live
<1>3. Claims = [k \in Scopes |-> [f \in Prints |-> NoRow]]
  BY <1>1, <1>2 DEF Claims
<1> QED
  BY <1>1, <1>3 DEF DedupeInv, Promise!Init, Promise!Prints, Prints, Promise!NothingTold,
                    NothingTold, Claims

\* An index is asked: for the promise one claim changes.
Replaces(k, f, row) ==
    \A j \in Scopes, g \in Prints :
        Live(entries'[j][g]) = IF j = k /\ g = f THEN row ELSE Live(entries[j][g])

LEMMA ClaimReplaced ==
    ASSUME NEW k \in Scopes, NEW f \in Prints, NEW row, Replaces(k, f, row)
    PROVE  /\ Claims[k][f] = Live(entries[k][f])
           /\ \A claims : claims = [Claims EXCEPT ![k][f] = row] => Claims' = claims
<1>1. /\ Claims \in [Scopes -> [Prints -> {Live(entries[j][g]) : j \in Scopes, g \in Prints}]]
      /\ \A j \in Scopes, g \in Prints : Claims[j][g] = Live(entries[j][g])
  BY DEF Claims
<1>2. Claims' = [j \in Scopes |-> [g \in Prints |-> Live(entries'[j][g])]]
  BY DEF Claims, Live, Stale
<1>3. Claims' = [j \in Scopes |-> [g \in Prints |->
                     IF j = k /\ g = f THEN row ELSE Claims[j][g]]]
  <2>1. \A j \in Scopes, g \in Prints :
           Live(entries'[j][g]) = IF j = k /\ g = f THEN row ELSE Claims[j][g]
    <3>1. \A j \in Scopes, g \in Prints : Claims[j][g] = Live(entries[j][g])
      BY <1>1
    <3>2. \A j \in Scopes, g \in Prints :
             Live(entries'[j][g]) = IF j = k /\ g = f THEN row ELSE Live(entries[j][g])
      BY DEF Replaces
    <3> QED
      BY <3>1, <3>2
  <2> QED
    BY <1>2, <2>1
<1> DEFINE V == {Live(entries[j][g]) : j \in Scopes, g \in Prints}
<1>4. Claims \in [Scopes -> [Prints -> V]]
  BY <1>1
<1> HIDE DEF V
<1>5. [j \in Scopes |-> [g \in Prints |-> IF j = k /\ g = f THEN row ELSE Claims[j][g]]]
          = [Claims EXCEPT ![k][f] = row]
  <2> DEFINE c == [g \in Prints |-> IF g = f THEN row ELSE Claims[k][g]]
  <2>1. c = [Claims[k] EXCEPT ![f] = row]
    BY <1>4
  <2>2. \A j \in Scopes : [g \in Prints |-> IF j = k /\ g = f THEN row ELSE Claims[j][g]]
                              = IF j = k THEN c ELSE Claims[j]
    BY <1>4
  <2> HIDE DEF c
  <2>3. [Claims EXCEPT ![k] = c] = [j \in Scopes |-> IF j = k THEN c ELSE Claims[j]]
    BY <1>4
  <2> QED
    BY <2>1, <2>2, <2>3
<1>6. ASSUME NEW claims, claims = [Claims EXCEPT ![k][f] = row]
      PROVE  Claims' = claims
  BY <1>3, <1>5, <1>6
<1>7. Claims[k][f] = Live(entries[k][f])
  BY <1>1
<1> QED
  BY <1>6, <1>7

LEMMA FirstAnswered ==
    ASSUME NEW k \in Scopes, NEW a \in Alerts, Live(entries[k][fingerprintOf[a]]) = NoRow,
           Replaces(k, fingerprintOf[a], NewRow(a)), TellsFirst(k, a)
    PROVE  Promise!Next
<1> DEFINE f == fingerprintOf[a]
<1>1. f \in Prints
  BY DEF Prints
<1>2. Claims[k][f] = NoRow /\ Claims' = [Claims EXCEPT ![k][f] = NewRow(a)]
  <2> SUFFICES ASSUME NEW claims, claims = [Claims EXCEPT ![k][f] = NewRow(a)]
               PROVE  Claims[k][f] = NoRow /\ Claims' = claims
    OBVIOUS
  <2>1. Replaces(k, f, NewRow(a)) /\ Live(entries[k][f]) = NoRow
    OBVIOUS
  <2> HIDE DEF f
  <2> QED
    BY <1>1, <2>1, ClaimReplaced
<1>3. Promise!First(k, a)
  BY <1>2 DEF Promise!First, TellsFirst, Claims, NewRow
<1> QED
  BY <1>3 DEF Promise!Next

LEMMA RepeatAnswered ==
    ASSUME NEW k \in Scopes, NEW a \in Alerts, NEW c \in KeptRows, NEW hit \in KeptRows,
           Live(entries[k][fingerprintOf[a]]) = c, hit = [c EXCEPT !.occurrences = @ + 1],
           Replaces(k, fingerprintOf[a], hit), TellsOf(k, a, hit)
    PROVE  Promise!Next
<1> DEFINE f == fingerprintOf[a]
<1>1. f \in Prints
  BY DEF Prints
<1>2. hit.alert = c.alert /\ hit.occurrences = c.occurrences + 1
  BY DEF KeptRows
<1>3. Claims[k][f] = c /\ c # NoRow /\ Claims' = [Claims EXCEPT ![k][f] = hit]
  <2> SUFFICES ASSUME NEW claims, claims = [Claims EXCEPT ![k][f] = hit]
               PROVE  Claims[k][f] = c /\ c # NoRow /\ Claims' = claims
    OBVIOUS
  <2>1. Replaces(k, f, hit) /\ Live(entries[k][f]) = c
    OBVIOUS
  <2> HIDE DEF f
  <2>2. Claims[k][f] = c /\ Claims' = claims
    BY <1>1, <2>1, ClaimReplaced
  <2>3. c # NoRow
    BY NoRowIsNone
  <2> QED
    BY <2>2, <2>3
<1>4. Claims' = [Claims EXCEPT ![k][f].occurrences = @ + 1]
  BY <1>3
<1>5. told' = [scope |-> k, alert |-> a, original |-> c.alert,
               occurrences |-> c.occurrences + 1]
  BY <1>2 DEF TellsOf
<1>6. told'.scope = k
  BY <1>5
<1>7. Promise!Repeated(k, a)
  BY <1>3, <1>4, <1>5, <1>6 DEF Promise!Repeated, Claims
<1> QED
  BY <1>7 DEF Promise!Next

\* What either check does, given what its rows are once it has dropped some.
LEMMA CheckPromised ==
    ASSUME DedupeInv, NEW k \in Scopes, NEW a \in Alerts,
           NEW rows \in [Prints -> KeptRows \cup {NoRow}],
           \A g \in Prints : Live(rows[g]) = Live(entries[k][g]), NEW row, NEW new,
           new = [rows EXCEPT ![fingerprintOf[a]] = row],
           entries' = [entries EXCEPT ![k] = new],
           \/ /\ Live(rows[fingerprintOf[a]]) = NoRow /\ row = NewRow(a)
              /\ TellsFirst(k, a)
           \/ \E c \in KeptRows : /\ c = Live(rows[fingerprintOf[a]]) /\ c.age <= Window
                              /\ row = [c EXCEPT !.occurrences = @ + 1]
                              /\ TellsOf(k, a, row)
    PROVE  DedupeInv' /\ Promise!Next
<1> DEFINE f == fingerprintOf[a]
<1>1. f \in Prints
  BY DEF Prints
<1>2. row \in KeptRows /\ row.age <= Window
  BY DedupeAssumption DEF NewRow, KeptRows
<1>3. /\ new \in [Prints -> KeptRows \cup {NoRow}] /\ new[f] = row
      /\ \A g \in Prints : g # f => new[g] = rows[g]
  BY <1>1, <1>2
<1>4. \A g \in Prints : g # f => Live(new[g]) = Live(entries[k][g])
  BY <1>3
<1> HIDE DEF f
<1>5. DedupeInv' /\ Replaces(k, f, row)
  <2>1. entries'[k] = new /\ \A j \in Scopes : j # k => entries'[j] = entries[j]
    BY DEF DedupeInv
  <2>2. Live(row) = row
    <3>1. row.age \in Int /\ ~(row.age > Window)
      BY <1>2, DedupeAssumption DEF KeptRows
    <3> QED
      BY <3>1 DEF Live, Stale
  <2>3. DedupeInv'
    BY <1>3 DEF DedupeInv
  <2>4. Replaces(k, f, row)
    <3>1. ASSUME NEW j \in Scopes, NEW g \in Prints, j # k
          PROVE  Live(entries'[j][g]) = Live(entries[j][g])
      BY <2>1, <3>1
    <3>2. ASSUME NEW g \in Prints, g # f
          PROVE  Live(entries'[k][g]) = Live(entries[k][g])
      BY <1>4, <2>1, <3>2
    <3>3. Live(entries'[k][f]) = row
      BY <1>3, <2>1, <2>2
    <3> QED
      BY <3>1, <3>2, <3>3 DEF Replaces
  <2> QED
    BY <2>3, <2>4
<1>6. Live(entries[k][f]) = Live(rows[f])
  BY <1>1
<1> QED
  BY <1>2, <1>5, <1>6, FirstAnswered, RepeatAnswered DEF f

LEMMA MemoryAnswers ==
    ASSUME DedupeInv, NEW w \in Workers, NEW a \in Alerts, CheckInMemory(w, a)
    PROVE  DedupeInv' /\ Promise!Next
<1> DEFINE rows == Purged(entries[w])
           f == fingerprintOf[a]
           hit == [rows[f] EXCEPT !.occurrences = @ + 1]
<1>1. w \in Scopes /\ f \in Prints /\ entries[w] \in [Prints -> KeptRows \cup {NoRow}]
  BY DEF Scopes, Prints, DedupeInv
<1>2. /\ rows \in [Prints -> KeptRows \cup {NoRow}]
      /\ \A g \in Prints : rows[g] = Live(entries[w][g])
      /\ \A g \in Prints : Live(rows[g]) = Live(entries[w][g])
  BY <1>1 DEF Purged, Live, Stale
<1>3. rows[f] # NoRow => rows[f] \in KeptRows /\ rows[f].age <= Window
  <2> SUFFICES ASSUME rows[f] # NoRow PROVE rows[f] \in KeptRows /\ rows[f].age <= Window
    OBVIOUS
  <2>1. rows[f] \in KeptRows /\ ~Stale(rows[f])
    BY <1>1, <1>2 DEF Live, Stale
  <2> QED
    BY <2>1, DedupeAssumption DEF Stale, KeptRows
<1>4. Live(rows[f]) = rows[f]
  BY <1>1, <1>2
<1>5. CASE /\ rows[f] # NoRow /\ TellsOf(w, a, hit)
           /\ entries' = [entries EXCEPT ![w] = [rows EXCEPT ![f] = hit]]
  <2> DEFINE new == [rows EXCEPT ![f] = hit]
  <2>1. entries' = [entries EXCEPT ![w] = new]
    BY <1>5
  <2>2. \E c \in KeptRows : /\ c = Live(rows[f]) /\ c.age <= Window
                       /\ hit = [c EXCEPT !.occurrences = @ + 1] /\ TellsOf(w, a, hit)
    BY <1>3, <1>4, <1>5
  <2> HIDE DEF rows, hit
  <2>3. new = [rows EXCEPT ![fingerprintOf[a]] = hit]
    OBVIOUS
  <2> HIDE DEF new
  <2> QED
    BY <1>1, <1>2, <2>1, <2>2, <2>3, CheckPromised
<1>6. CASE /\ rows[f] = NoRow /\ TellsFirst(w, a)
           /\ entries' = [entries EXCEPT ![w] = [rows EXCEPT ![f] = NewRow(a)]]
  <2> HIDE DEF rows
  <2> QED
    BY <1>1, <1>2, <1>4, <1>6, CheckPromised
<1> QED
  BY <1>5, <1>6 DEF CheckInMemory

LEMMA TableAnswers ==
    ASSUME DedupeInv, NEW a \in Alerts, CheckInPostgres(a)
    PROVE  DedupeInv' /\ Promise!Next
<1> DEFINE f == fingerprintOf[a]
           rows == entries[Table]
           e == rows[f]
           hit == [e EXCEPT !.occurrences = @ + 1]
<1>1. Table \in Scopes /\ f \in Prints /\ rows \in [Prints -> KeptRows \cup {NoRow}]
  BY DEF Scopes, Prints, DedupeInv
<1>2. CASE e = NoRow \/ Stale(e)
  <2>1. Upserted(e, a) = NewRow(a) /\ NewRow(a).occurrences = 1
    BY <1>2 DEF Upserted, NewRow
  <2> DEFINE new == [rows EXCEPT ![f] = NewRow(a)]
  <2>2. entries' = [entries EXCEPT ![Table] = new] /\ TellsFirst(Table, a)
    BY <2>1 DEF CheckInPostgres
  <2>3. Live(rows[f]) = NoRow
    BY <1>2 DEF Live
  <2> QED
    BY <1>1, <2>2, <2>3, CheckPromised
<1>3. CASE ~(e = NoRow \/ Stale(e))
  <2>1. Upserted(e, a) = hit
    BY <1>3 DEF Upserted
  <2>2. e \in KeptRows /\ Live(rows[f]) = e
    BY <1>1, <1>3 DEF Live
  <2>3. e.age <= Window
    BY <1>3, <2>2, DedupeAssumption DEF Stale, KeptRows
  <2>4. hit.occurrences # 1
    BY <2>2 DEF KeptRows
  <2> DEFINE new == [rows EXCEPT ![f] = hit]
  <2>5. entries' = [entries EXCEPT ![Table] = new] /\ TellsOf(Table, a, hit)
    BY <2>1, <2>4 DEF CheckInPostgres
  <2> QED
    BY <1>1, <2>2, <2>3, <2>5, CheckPromised
<1> QED
  BY <1>2, <1>3

LEMMA RestartForgets ==
    ASSUME DedupeInv, NEW w \in Workers, WorkerRestarts(w)
    PROVE  DedupeInv' /\ Promise!Next
<1> DEFINE empty == [f \in Prints |-> NoRow]
<1>1. w \in Scopes /\ empty \in [Prints -> KeptRows \cup {NoRow}]
      /\ entries' = [entries EXCEPT ![w] = empty] /\ told' = NothingTold
  BY DEF Scopes, WorkerRestarts
<1>2. Live(NoRow) = NoRow
  BY DEF Live
<1>3. DedupeInv'
  BY <1>1 DEF DedupeInv
<1>4. Claims' = [k \in Scopes |-> IF k = w THEN empty ELSE Claims[k]]
  <2>1. \A k \in Scopes : entries'[k] = IF k = w THEN empty ELSE entries[k]
    BY <1>1 DEF DedupeInv
  <2>2. Claims' = [k \in Scopes |-> [f \in Prints |-> Live(entries'[k][f])]]
    BY DEF Claims, Live, Stale
  <2>3. \A k \in Scopes : [f \in Prints |-> Live(entries'[k][f])]
                              = IF k = w THEN empty ELSE Claims[k]
    BY <1>2, <2>1 DEF Claims
  <2> QED
    BY <2>2, <2>3
<1>5. Claims' = [Claims EXCEPT ![w] = empty]
  BY <1>4 DEF Claims
<1>6. Promise!Forget(w)
  BY <1>1, <1>5, DedupeAssumption
  DEF Table, Promise!Forget, Promise!Prints, Prints, Promise!NothingTold, NothingTold, Claims
<1> QED
  BY <1>1, <1>3, <1>6 DEF Promise!Next

LEMMA TimeExpires ==
    ASSUME DedupeInv, TimePasses
    PROVE  DedupeInv' /\ Promise!Next
<1> DEFINE older(e) == IF e = NoRow \/ Stale(e) THEN e ELSE [e EXCEPT !.age = e.age + 1]
           aged(c) == IF c = NoRow \/ Promise!Expires(c) THEN NoRow
                      ELSE [c EXCEPT !.age = c.age + 1]
<1>1. /\ entries' = [k \in Scopes |-> [f \in Prints |-> older(entries[k][f])]]
      /\ told' = NothingTold
  BY DEF TimePasses
<1>2. ASSUME NEW e \in KeptRows \cup {NoRow}
      PROVE  older(e) \in KeptRows \cup {NoRow} /\ Live(older(e)) = aged(Live(e))
  <2>1. CASE e = NoRow
    BY <2>1 DEF Live, Stale
  <2>2. CASE e # NoRow /\ Stale(e)
    BY <2>2 DEF Live
  <2>3. CASE e # NoRow /\ ~Stale(e)
    <3> DEFINE n == [e EXCEPT !.age = e.age + 1]
    <3>1. e \in KeptRows /\ e.age \in Nat /\ e.age <= Window /\ Live(e) = e
      BY <2>3, DedupeAssumption DEF Live, Stale, KeptRows
    <3>2. n \in KeptRows /\ n # NoRow /\ n.age = e.age + 1 /\ older(e) = n
      BY <2>3, <3>1, NoRowIsNone DEF KeptRows
    <3>3. Stale(n) <=> e.age = Window
      BY <3>1, <3>2, DedupeAssumption DEF Stale
    <3>4. Promise!Expires(e) <=> e.age = Window
      BY <2>3 DEF Promise!Expires
    <3> QED
      BY <2>3, <3>1, <3>2, <3>3, <3>4 DEF Live
  <2> QED
    BY <1>2, <2>1, <2>2, <2>3
<1> HIDE DEF older, aged
<1>3. \A k \in Scopes, f \in Prints : entries[k][f] \in KeptRows \cup {NoRow}
  BY DEF DedupeInv
<1>4. DedupeInv'
  BY <1>1, <1>2, <1>3 DEF DedupeInv
<1>5. Claims' = [k \in Scopes |-> [f \in Prints |-> aged(Claims[k][f])]]
  <2>1. Claims' = [k \in Scopes |-> [f \in Prints |-> Live(entries'[k][f])]]
    BY DEF Claims, Live, Stale
  <2>2. \A k \in Scopes, f \in Prints : Live(entries'[k][f]) = aged(Claims[k][f])
    BY <1>1, <1>2, <1>3 DEF Claims
  <2> QED
    BY <2>1, <2>2
<1>6. Promise!Pass
  BY <1>1, <1>5 DEF Promise!Pass, Promise!Prints, Prints, Promise!NothingTold, NothingTold,
                    Claims, aged
<1> QED
  BY <1>4, <1>6 DEF Promise!Next

\* What a step of the indexes is to the promise.
LEMMA StepPromised ==
    ASSUME DedupeInv, DedupeNext \/ UNCHANGED dedupeVars
    PROVE  DedupeInv' /\ (Promise!Next \/ UNCHANGED <<Claims, told>>)
<1>1. CASE \E w \in Workers, a \in Alerts : Checks(w, a)
  BY <1>1, MemoryAnswers, TableAnswers DEF Checks
<1>2. CASE \E w \in Workers : WorkerRestarts(w)
  BY <1>2, RestartForgets
<1>3. CASE TimePasses
  BY <1>3, TimeExpires
<1>4. CASE UNCHANGED dedupeVars
  BY <1>4 DEF dedupeVars, DedupeInv, Claims, Live, Stale
<1> QED
  BY <1>1, <1>2, <1>3, <1>4 DEF DedupeNext


-----------------------------------------------------------------------------
(* The type of the indexes.                                                *)

LEMMA NewRowTyped == \A a \in Alerts : NewRow(a) \in Rows /\ NewRow(a).occurrences = 1
BY DedupeAssumption DEF NewRow, Rows

\* An answer about a row.
LEMMA AnswerTyped ==
    ASSUME NEW k \in Scopes, NEW a \in Alerts, NEW e \in Rows, TellsFirst(k, a) \/ TellsOf(k, a, e)
    PROVE  told' \in [scope: Scopes \cup {NoRow}, alert: Alerts \cup {NoRow},
                      original: Alerts \cup {NoRow}, occurrences: 0..MaxOccurrences]
BY DedupeAssumption DEF TellsFirst, TellsOf, Rows

LEMMA HitTyped ==
    ASSUME NEW e \in Rows, e.occurrences < MaxOccurrences, NEW hit,
           hit = [e EXCEPT !.occurrences = e.occurrences + 1]
    PROVE  hit \in Rows
BY DedupeAssumption DEF Rows

LEMMA CheckTyped ==
    ASSUME DedupeTypeOK, NEW w \in Workers, NEW a \in Alerts, Checks(w, a)
    PROVE  DedupeTypeOK'
<1> DEFINE f == fingerprintOf[a]
<1>1. f \in Prints /\ w \in Scopes /\ Table \in Scopes /\ backend' = backend
  BY DEF Prints, Scopes, Checks
<1>2. ASSUME NEW k \in Scopes, NEW rows \in [Prints -> Rows \cup {NoRow}], NEW row \in Rows,
             entries' = [entries EXCEPT ![k] = [rows EXCEPT ![f] = row]],
             TellsFirst(k, a) \/ TellsOf(k, a, row)
      PROVE  DedupeTypeOK'
  <2> HIDE DEF f
  <2>1. [rows EXCEPT ![f] = row] \in [Prints -> Rows \cup {NoRow}]
    BY <1>1
  <2>2. entries' \in [Scopes -> [Prints -> Rows \cup {NoRow}]]
    BY <1>2, <2>1 DEF DedupeTypeOK
  <2> QED
    BY <1>1, <1>2, <2>2, AnswerTyped DEF DedupeTypeOK
<1>3. CASE CheckInMemory(w, a)
  <2> DEFINE rows == Purged(entries[w])
             hit == [rows[f] EXCEPT !.occurrences = rows[f].occurrences + 1]
  <2>1. rows \in [Prints -> Rows \cup {NoRow}]
    BY <1>1 DEF DedupeTypeOK, Purged
  <2>2. CASE /\ rows[f] # NoRow /\ rows[f].occurrences < MaxOccurrences
             /\ entries' = [entries EXCEPT ![w] = [rows EXCEPT ![f] = hit]]
             /\ TellsOf(w, a, hit)
    <3> HIDE DEF rows, f
    <3>1. hit \in Rows
      BY <1>1, <2>1, <2>2, HitTyped
    <3> HIDE DEF hit
    <3> QED
      BY <1>1, <1>2, <2>1, <2>2, <3>1
  <2>3. CASE /\ rows[f] = NoRow
             /\ entries' = [entries EXCEPT ![w] = [rows EXCEPT ![f] = NewRow(a)]]
             /\ TellsFirst(w, a)
    <3> HIDE DEF rows, f
    <3> QED
      BY <1>1, <1>2, <2>1, <2>3, NewRowTyped
  <2> QED
    BY <1>3, <2>2, <2>3 DEF CheckInMemory
<1>4. CASE CheckInPostgres(a)
  <2> DEFINE rows == entries[Table]
             e == rows[f]
             row == Upserted(e, a)
  <2>1. rows \in [Prints -> Rows \cup {NoRow}] /\ e \in Rows \cup {NoRow}
    BY <1>1 DEF DedupeTypeOK
  <2>2. /\ row.occurrences <= MaxOccurrences
        /\ entries' = [entries EXCEPT ![Table] = [rows EXCEPT ![f] = row]]
        /\ TellsFirst(Table, a) \/ TellsOf(Table, a, row)
    BY <1>4 DEF CheckInPostgres
  <2>3. row \in Rows
    <3>1. CASE e = NoRow \/ Stale(e)
      BY <3>1, NewRowTyped DEF Upserted
    <3>2. CASE ~(e = NoRow \/ Stale(e))
      <4>1. e \in Rows /\ row = [e EXCEPT !.occurrences = e.occurrences + 1]
        BY <2>1, <3>2 DEF Upserted
      <4> HIDE DEF e, row
      <4>2. e.occurrences \in Nat /\ row.occurrences = e.occurrences + 1
        BY <4>1, DedupeAssumption DEF Rows
      <4>3. e.occurrences < MaxOccurrences
        BY <2>2, <4>2, DedupeAssumption
      <4> QED
        BY <4>1, <4>3, HitTyped
    <3> QED
      BY <3>1, <3>2
  <2> HIDE DEF rows, row, f
  <2> QED
    BY <1>1, <1>2, <2>1, <2>2, <2>3
<1> QED
  BY <1>3, <1>4 DEF Checks

LEMMA OlderTyped ==
    ASSUME NEW e \in Rows \cup {NoRow}
    PROVE  (IF e = NoRow \/ Stale(e) THEN e ELSE [e EXCEPT !.age = @ + 1]) \in Rows \cup {NoRow}
<1>1. CASE e = NoRow \/ Stale(e)
  BY <1>1
<1>2. CASE ~(e = NoRow \/ Stale(e))
  <2>1. e \in Rows /\ ~(e.age > Window)
    BY <1>2 DEF Stale
  <2>2. e.age + 1 \in 0..(Window + 1)
    BY <2>1, DedupeAssumption DEF Rows
  <2> QED
    BY <1>2, <2>1, <2>2 DEF Rows
<1> QED
  BY <1>1, <1>2

LEMMA DedupeStepTyped ==
    ASSUME DedupeTypeOK, DedupeNext \/ UNCHANGED dedupeVars
    PROVE  DedupeTypeOK'
<1>1. NothingTold \in [scope: Scopes \cup {NoRow}, alert: Alerts \cup {NoRow},
                       original: Alerts \cup {NoRow}, occurrences: 0..MaxOccurrences]
  BY DedupeAssumption DEF NothingTold
<1>2. CASE \E w \in Workers : WorkerRestarts(w)
  <2>1. [f \in Prints |-> NoRow] \in [Prints -> Rows \cup {NoRow}]
    OBVIOUS
  <2> QED
    BY <1>1, <1>2, <2>1 DEF WorkerRestarts, DedupeTypeOK, Scopes
<1>3. CASE TimePasses
  <2>1. \A k \in Scopes, f \in Prints : entries[k][f] \in Rows \cup {NoRow}
    BY DEF DedupeTypeOK
  <2>2. entries' \in [Scopes -> [Prints -> Rows \cup {NoRow}]]
    BY <1>3, <2>1, OlderTyped DEF TimePasses
  <2> QED
    BY <1>1, <1>3, <2>2 DEF TimePasses, DedupeTypeOK
<1>4. CASE UNCHANGED dedupeVars
  BY <1>4 DEF dedupeVars, DedupeTypeOK
<1> QED
  BY <1>2, <1>3, <1>4, CheckTyped DEF DedupeNext

=============================================================================
