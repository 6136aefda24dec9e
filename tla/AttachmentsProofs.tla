------------------------- MODULE AttachmentsProofs -------------------------
(***************************************************************************)
(* The safety of Attachments for any turns, contents and retries.          *)
(*                                                                         *)
(* Whoever counts the references of an object, deletes it or commits a     *)
(* checked row of it holds the lock of its hash (Holding), so that what    *)
(* was counted is still true at the delete (Unreferred), but for the rows  *)
(* a replay inserts without it.  A row is only written after its capture   *)
(* was told that the object is there, and that was true at some time       *)
(* (Told) unless it is noted in unput; a replay is told so of all its      *)
(* attachments before it writes the turn (Prepared).                       *)
(***************************************************************************)
EXTENDS Attachments, FiniteSetTheorems, TLAPS

Trying == {"put", "rename", "insert", "probed", "locked"}
Removing == {"unrefer", "count", "delete"}
Active == Trying \cup Removing \cup {"letter"}

\* Position and attempts of a capture; the loop starts with fresh ones.
Counted(t) ==
    /\ pc[t] = "turn" \/ (t \in replayed /\ pc[t] \in {"put", "rename"}) =>
            tries[t] = 0 /\ ~put[t] /\ ~seen[t]
    /\ pc[t] = "turn" => at[t] = 1
    /\ pc[t] \in Active => at[t] \in 1 .. Len(BlobsOf[t])
    /\ pc[t] \in Trying => tries[t] < MaxRetries

\* Only what has bytes is put, checked or removed, and nothing of a replay is
\* checked or removed.
Sized(t) ==
    /\ pc[t] \in {"rename", "probed", "locked"} \cup Removing => Here(t) \in Blob
    /\ pc[t] \in Active /\ put[t] => Here(t) \in Blob
    /\ pc[t] \in {"probed", "locked"} => backend = "postgres"
    /\ pc[t] \in {"probed", "locked", "letter"} \cup Removing => t \notin replayed

Holding(t) == pc[t] \in {"locked", "count", "delete"} => holder[LockOf(Here(t))] = t

Unreferred(t) == pc[t] = "delete" => \A r \in References(Here(t)) : Unchecked(r)

\* The object of an attachment was there, or its put noted that it was not.
Has(r) == BlobsOf[r[1]][r[2]] \in stored \cup {UrlOnly} \/ r \in unput

Told(t) ==
    /\ pc[t] \in {"insert", "probed", "locked"} => Has(Row(t))
    /\ pc[t] \in {"probed", "locked"} /\ seen[t] => Here(t) \in stored

Prepared(t) ==
    t \in replayed /\ pc[t] \in {"put", "rename", "turn", "insert"} =>
        \A i \in 1 .. Len(BlobsOf[t]) :
            (pc[t] \in {"put", "rename"} => i < at[t]) => Has(<< t, i >>)

Fine(t) ==
    Counted(t) /\ Sized(t) /\ Holding(t) /\ Unreferred(t) /\ Told(t) /\ Prepared(t)

IInv ==
    /\ TypeOK
    /\ objects \subseteq stored
    /\ RowsHadTheirObject
    /\ \A t \in Turn : Fine(t)

USE AttachmentAssumption

-----------------------------------------------------------------------------

\* The hash at a position of a turn is one of the blobs or UrlOnly.
LEMMA Hashes ==
    ASSUME NEW t \in Turn, NEW i \in 1 .. Len(BlobsOf[t])
    PROVE  /\ BlobsOf[t] \in Seq(Blob \cup {UrlOnly})
           /\ BlobsOf[t][i] \in Blob \cup {UrlOnly}
           /\ Len(BlobsOf[t]) \in Nat
OBVIOUS

\* The initial states satisfy the invariant.
LEMMA InitInv == Init => IInv
<1> SUFFICES ASSUME Init PROVE IInv
  OBVIOUS
<1>1. TypeOK
  BY DEF Init, TypeOK, Step, Lock
<1>2. ASSUME NEW t \in Turn PROVE Fine(t)
  <2>1. /\ pc[t] = IF t \in replayed /\ BlobsOf[t] # << >> THEN "put" ELSE "turn"
        /\ at[t] = 1 /\ tries[t] = 0 /\ put[t] = FALSE /\ seen[t] = FALSE
    BY DEF Init
  <2>2. BlobsOf[t] # << >> => 1 \in 1 .. Len(BlobsOf[t])
    OBVIOUS
  <2>3. Counted(t)
    BY <2>1, <2>2 DEF Counted, Active, Trying, Removing
  <2>4. Sized(t) /\ Holding(t) /\ Unreferred(t) /\ Told(t)
    BY <2>1 DEF Sized, Holding, Unreferred, Told, Active, Trying, Removing
  <2>5. Prepared(t)
    BY <2>1 DEF Prepared
  <2>6. QED
    BY <2>3, <2>4, <2>5 DEF Fine
<1>3. QED
  BY <1>1, <1>2 DEF IInv, Init, RowsHadTheirObject

\* A step that goes on moves its own capture only.
LEMMA GoneTo ==
    ASSUME TypeOK, NEW t \in Turn, NEW k \in Step, Goto(t, k)
    PROVE  /\ pc' \in [Turn -> Step] /\ pc'[t] = k
           /\ \A u \in Turn \ {t} : pc'[u] = pc[u]
BY DEF Goto, TypeOK

\* A capture is not disturbed by a step that leaves its variables and locks
\* alone and writes no row of the object it deletes.
LEMMA Others ==
    ASSUME IInv, NEW u \in Turn,
           pc'[u] = pc[u], at'[u] = at[u], tries'[u] = tries[u],
           put'[u] = put[u], seen'[u] = seen[u],
           UNCHANGED config, stored \subseteq stored', unput \subseteq unput',
           \A l \in Lock : holder[l] = u => holder'[l] = u,
           pc[u] = "delete" =>
              \A r \in rows' : r \in rows \/ BlobsOf[r[1]][r[2]] # Here(u) \/ Unchecked(r)
    PROVE  Fine(u)'
<1> USE DEF IInv, Fine, config
<1>1. Here(u)' = Here(u)
  BY DEF Here
<1>2. Counted(u)'
  BY DEF Counted
<1>3. Sized(u)'
  BY <1>1 DEF Sized
<1>4. Holding(u)'
  <2> SUFFICES ASSUME pc[u] \in {"locked", "count", "delete"}
               PROVE  holder'[LockOf(Here(u))] = u
    BY <1>1 DEF Holding, LockOf
  <2>1. LockOf(Here(u)) \in Lock
    BY DEF Sized, LockOf, Lock, Removing
  <2>2. QED
    BY <2>1 DEF Holding
<1>5. Unreferred(u)'
  BY <1>1 DEF Unreferred, References, Unchecked
<1>6. \A r : Has(r) => Has(r)'
  BY DEF Has
<1>7. Told(u)'
  <2>1. Has(Row(u)) => Has(Row(u))'
    BY DEF Has, Row
  <2>2. QED
    BY <1>1, <2>1 DEF Told
<1>8. Prepared(u)'
  BY <1>6 DEF Prepared
<1>9. QED
  BY <1>2, <1>3, <1>4, <1>5, <1>7, <1>8

\* The next attachment starts with a fresh state.
LEMMA ReturnedFine ==
    ASSUME IInv, NEW t \in Turn, pc[t] \in Active \ {"put", "rename"}, NEW k \in {0, 1},
           Returned(t, k), UNCHANGED config, stored \subseteq stored', unput \subseteq unput'
    PROVE  /\ pc' \in [Turn -> Step] /\ at' \in [Turn -> Nat]
           /\ tries' \in [Turn -> 0 .. MaxRetries]
           /\ put' \in [Turn -> BOOLEAN] /\ seen' \in [Turn -> BOOLEAN]
           /\ persisted' \in [Turn -> Nat]
           /\ Fine(t)'
<1> USE DEF IInv, TypeOK
<1>1. at[t] \in 1 .. Len(BlobsOf[t])
  BY DEF Fine, Counted
<1>2. persisted' \in [Turn -> Nat] /\ tries' \in [Turn -> 0 .. MaxRetries]
      /\ put' \in [Turn -> BOOLEAN] /\ seen' \in [Turn -> BOOLEAN]
      /\ tries'[t] = 0 /\ put'[t] = FALSE
  BY DEF Returned, Reset
<1>3. CASE at[t] < Len(BlobsOf[t])
  <2>1. PICK i \in 1 .. Len(BlobsOf[t]) : i = at[t] + 1
    BY <1>1, <1>3, Hashes
  <2>2. pc' = [pc EXCEPT ![t] = First(t)] /\ at' = [at EXCEPT ![t] = i]
    BY <1>3, <2>1 DEF Returned, Goto
  <2>3. at'[t] = i /\ at' \in [Turn -> Nat] /\ Here(t)' = BlobsOf[t][i] /\ Row(t)' = << t, i >>
    BY <1>1, <2>1, <2>2 DEF Here, Row
  <2>4. /\ pc' \in [Turn -> Step]
        /\ pc'[t] = IF t \in replayed THEN "insert" ELSE "put"
    BY <2>2 DEF First, Step
  <2>5. t \in replayed => \A j \in 1 .. Len(BlobsOf[t]) : Has(<< t, j >>)'
    <3>1. t \in replayed => pc[t] = "insert"
      BY DEF Fine, Sized, Active, Trying
    <3>2. t \in replayed => \A j \in 1 .. Len(BlobsOf[t]) : Has(<< t, j >>)
      BY <3>1 DEF Fine, Prepared
    <3>3. QED
      BY <3>2 DEF Has
  <2>6. Counted(t)'
    BY <1>2, <2>1, <2>3, <2>4 DEF Counted, Active, Trying, Removing, config
  <2>7. Sized(t)' /\ Holding(t)' /\ Unreferred(t)'
    BY <1>2, <2>4 DEF Sized, Holding, Unreferred, Removing
  <2>8. Told(t)'
    <3>1. pc'[t] = "insert" => Has(<< t, i >>)'
      BY <2>1, <2>4, <2>5
    <3>2. Has(<< t, i >>)' => Has(Row(t))'
      BY <2>3 DEF Has, Row
    <3>3. QED
      BY <2>4, <3>1, <3>2 DEF Told
  <2>9. Prepared(t)'
    BY <2>4, <2>5 DEF Prepared, config
  <2>10. QED
    BY <1>2, <2>3, <2>4, <2>6, <2>7, <2>8, <2>9 DEF Fine
<1>4. CASE ~(at[t] < Len(BlobsOf[t]))
  <2>1. pc' \in [Turn -> Step] /\ pc'[t] \in {"done", "reconcile"} /\ at' \in [Turn -> Nat]
    BY <1>4 DEF Returned, Goto, After, Step
  <2>2. Fine(t)'
    BY <2>1 DEF Fine, Counted, Sized, Holding, Unreferred, Told, Prepared, Active, Trying, Removing
  <2>3. QED
    BY <1>2, <2>1, <2>2
<1>5. QED
  BY <1>3, <1>4

\* A failed attempt gives the locks back and starts again, or gives up.
LEMMA AttemptFine ==
    ASSUME IInv, NEW t \in Turn, pc[t] \in {"insert", "probed", "locked"},
           AttemptFails(t), UNCHANGED config, stored \subseteq stored', unput \subseteq unput'
    PROVE  /\ pc' \in [Turn -> Step] /\ at' \in [Turn -> Nat]
           /\ tries' \in [Turn -> 0 .. MaxRetries]
           /\ put' \in [Turn -> BOOLEAN] /\ seen' \in [Turn -> BOOLEAN]
           /\ persisted' \in [Turn -> Nat]
           /\ Fine(t)'
<1> USE DEF IInv, TypeOK
<1>1. CASE t \in replayed
  <2>1. Returned(t, 0) /\ pc[t] \in Active \ {"put", "rename"}
    BY <1>1 DEF AttemptFails, Active, Trying
  <2>2. QED
    BY <2>1, ReturnedFine
<1>2. CASE t \notin replayed
  <2>1. tries[t] < MaxRetries /\ at[t] \in 1 .. Len(BlobsOf[t])
    BY DEF Fine, Counted, Active, Trying
  <2>2. tries' = [tries EXCEPT ![t] = @ + 1] /\ UNCHANGED << at, put, seen, persisted >>
    BY <1>2 DEF AttemptFails
  <2>3. tries' \in [Turn -> 0 .. MaxRetries] /\ tries'[t] = tries[t] + 1
    BY <2>1, <2>2
  <2>4. pc' \in [Turn -> Step] /\ pc'[t] \in {"letter", "insert"}
        /\ (pc'[t] = "insert" => tries[t] + 1 < MaxRetries)
    <3>1. PICK k \in {"letter", "insert"} : /\ Goto(t, k)
                                            /\ k = "insert" => tries[t] + 1 < MaxRetries
      BY <1>2 DEF AttemptFails
    <3>2. k \in Step
      BY DEF Step
    <3>3. QED
      BY <3>1, <3>2, GoneTo
  <2>5. Here(t)' = Here(t)
    BY <2>2 DEF Here
  <2>6. Counted(t)'
    BY <2>1, <2>2, <2>3, <2>4 DEF Counted, Active, Trying, Removing
  <2>7. Sized(t)'
    BY <1>2, <2>2, <2>4, <2>5 DEF Fine, Sized, Active, Trying, Removing, config
  <2>8. Told(t)'
    <3>1. Has(Row(t))
      BY DEF Fine, Told
    <3>2. Has(Row(t))'
      BY <2>2, <3>1 DEF Has, Row
    <3>3. QED
      BY <2>4, <3>2 DEF Told
  <2>9. Holding(t)' /\ Unreferred(t)' /\ Prepared(t)'
    BY <1>2, <2>4 DEF Holding, Unreferred, Prepared, config
  <2>10. QED
    BY <2>2, <2>3, <2>4, <2>6, <2>7, <2>8, <2>9 DEF Fine
<1>3. QED
  BY <1>1, <1>2

\* Release keeps the type of the locks and the locks of others.
LEMMA ReleaseKeeps ==
    ASSUME TypeOK, NEW t \in Turn, Release(t)
    PROVE  /\ holder' \in [Lock -> Turn \cup {Free}]
           /\ \A l \in Lock, u \in Turn \ {t} : holder[l] = u => holder'[l] = u
BY DEF Release, TypeOK

\* The turn row is written, or not.
LEMMA TurnInv ==
    ASSUME IInv, NEW t \in Turn, WriteTurn(t) \/ WriteTurnFails(t)
    PROVE  IInv'
<1> USE DEF IInv, TypeOK
<1>1. /\ Fine(t) /\ pc[t] = "turn"
      /\ UNCHANGED << config, disk, rows, letters, holder, local >>
  BY DEF WriteTurn, WriteTurnFails
<1>2. count' \in [Turn -> Nat] /\ drifted' \subseteq Turn
  <2>1. /\ count \in [Turn -> Nat] /\ drifted \subseteq Turn
        /\ [count EXCEPT ![t] = Len(BlobsOf[t])] \in [Turn -> Nat]
    OBVIOUS
  <2>2. /\ count' \in {count, [count EXCEPT ![t] = Len(BlobsOf[t])]}
        /\ drifted' \in {drifted, drifted \cup {t}}
    BY DEF WriteTurn, WriteTurnFails
  <2>3. QED
    BY <2>1, <2>2
<1>3. /\ pc' \in [Turn -> Step]
      /\ \A u \in Turn \ {t} : pc'[u] = pc[u]
      /\ pc'[t] \in {"done", First(t)}
      /\ BlobsOf[t] = << >> => pc'[t] = "done"
  <2>1. PICK k \in {"done", First(t)} : /\ Goto(t, k)
                                        /\ BlobsOf[t] = << >> => k = "done"
    BY DEF WriteTurn, WriteTurnFails
  <2>2. k \in Step
    BY DEF First, Step
  <2>3. QED
    BY <2>1, <2>2, GoneTo
<1>4. Fine(t)'
  <2>1. CASE pc'[t] = "done"
    BY <2>1 DEF Fine, Counted, Sized, Holding, Unreferred, Told, Prepared, Active, Trying,
                Removing
  <2>2. CASE pc'[t] # "done"
    <3>1. /\ pc'[t] = IF t \in replayed THEN "insert" ELSE "put"
          /\ 1 \in 1 .. Len(BlobsOf[t])
      BY <1>3, <2>2 DEF First
    <3>2. /\ at[t] = 1 /\ tries[t] = 0 /\ ~put[t] /\ ~seen[t]
          /\ at'[t] = 1 /\ tries'[t] = 0 /\ ~put'[t] /\ Row(t)' = << t, 1 >>
      <4>1. at[t] = 1 /\ tries[t] = 0 /\ ~put[t] /\ ~seen[t]
        BY <1>1 DEF Fine, Counted
      <4>2. UNCHANGED << at, tries, put, seen >>
        BY <1>1 DEF local
      <4>3. QED
        BY <4>1, <4>2 DEF Row
    <3>3. t \in replayed => \A i \in 1 .. Len(BlobsOf[t]) : Has(<< t, i >>)'
      BY <1>1 DEF Fine, Prepared, Has, disk
    <3>4. Counted(t)' /\ Sized(t)' /\ Holding(t)' /\ Unreferred(t)'
      BY <1>1, <3>1, <3>2
      DEF Counted, Sized, Holding, Unreferred, Active, Trying, Removing, config
    <3>5. Told(t)'
      <4>1. pc'[t] = "insert" => Has(<< t, 1 >>)'
        BY <3>1, <3>3
      <4>2. Has(<< t, 1 >>)' => Has(Row(t))'
        BY <3>2 DEF Has, Row
      <4>3. QED
        BY <3>1, <4>1, <4>2 DEF Told
    <3>6. Prepared(t)'
      BY <1>1, <3>1, <3>3 DEF Prepared, config
    <3>7. QED
      BY <3>4, <3>5, <3>6 DEF Fine
  <2>3. QED
    BY <2>1, <2>2
<1>5. \A u \in Turn \ {t} : Fine(u)'
  BY <1>1, <1>3, Others DEF local, disk
<1>6. RowsHadTheirObject'
  BY <1>1 DEF RowsHadTheirObject, config, disk
<1>7. QED
  BY <1>1, <1>2, <1>3, <1>4, <1>5, <1>6 DEF config, disk, local

\* A replay is through with the put of an attachment, whose object was there or
\* is noted.
LEMMA NextPutFine ==
    ASSUME IInv, NEW t \in Turn, t \in replayed, pc[t] \in {"put", "rename"}, NextPut(t),
           NEW j \in Nat, at[t] = j, Has(<< t, j >>)',
           UNCHANGED config, stored \subseteq stored', unput \subseteq unput'
    PROVE  /\ pc' \in [Turn -> Step] /\ at' \in [Turn -> Nat]
           /\ UNCHANGED << tries, put, seen, persisted >>
           /\ \A u \in Turn \ {t} : pc'[u] = pc[u] /\ at'[u] = at[u]
           /\ Fine(t)'
<1> USE DEF IInv, TypeOK
<1> DEFINE n == Len(BlobsOf[t])
<1>1. /\ Fine(t) /\ j \in 1 .. n /\ n \in Nat
      /\ tries[t] = 0 /\ ~put[t] /\ ~seen[t] /\ tries[t] < MaxRetries
  BY Hashes DEF Fine, Counted, Active, Trying
<1>2. UNCHANGED << tries, put, seen, persisted >>
  BY DEF NextPut
<1>3. \A i \in 1 .. n : i <= j => Has(<< t, i >>)'
  <2>1. \A i \in 1 .. n : i < j => Has(<< t, i >>)
    BY DEF Fine, Prepared
  <2>2. \A i \in 1 .. n : i < j => Has(<< t, i >>)'
    BY <2>1 DEF Has
  <2>3. \A i \in 1 .. n : i <= j => i < j \/ i = j
    BY <1>1
  <2>4. QED
    BY <2>2, <2>3
<1>4. CASE j < n
  <2>1. at' = [at EXCEPT ![t] = j + 1] /\ pc' = [pc EXCEPT ![t] = "put"]
    BY <1>4 DEF NextPut, Goto
  <2>2. at'[t] = j + 1 /\ pc'[t] = "put" /\ j + 1 \in 1 .. n /\ j + 1 \in Nat
    BY <1>1, <1>4, <2>1
  <2>3. Prepared(t)'
    <3>1. \A i \in 1 .. n : i < j + 1 => i <= j
      BY <1>1
    <3>2. QED
      BY <1>3, <2>2, <3>1 DEF Prepared
  <2>4. Counted(t)'
    BY <1>1, <1>2, <2>2 DEF Counted, Active, Trying, Removing, config
  <2>5. Sized(t)' /\ Holding(t)' /\ Unreferred(t)' /\ Told(t)'
    BY <1>1, <1>2, <2>2 DEF Sized, Holding, Unreferred, Told, Removing
  <2>6. QED
    BY <1>2, <2>1, <2>2, <2>3, <2>4, <2>5 DEF Fine, Step
<1>5. CASE ~(j < n)
  <2>1. at' = [at EXCEPT ![t] = 1] /\ pc' = [pc EXCEPT ![t] = "turn"]
    BY <1>5 DEF NextPut, Goto
  <2>2. at'[t] = 1 /\ pc'[t] = "turn"
    BY <2>1
  <2>3. Prepared(t)'
    <3>1. \A i \in 1 .. n : i <= j
      BY <1>1, <1>5
    <3>2. QED
      BY <1>3, <2>2, <3>1 DEF Prepared
  <2>4. Counted(t)'
    BY <1>1, <1>2, <2>2 DEF Counted, Active, Trying, Removing
  <2>5. Sized(t)' /\ Holding(t)' /\ Unreferred(t)' /\ Told(t)'
    BY <2>2 DEF Sized, Holding, Unreferred, Told, Active, Trying, Removing
  <2>6. QED
    BY <1>2, <2>1, <2>2, <2>3, <2>4, <2>5 DEF Fine, Step
<1>6. QED
  BY <1>4, <1>5

\* A capture is through with it and goes on to the insert.
LEMMA StoredFine ==
    ASSUME IInv, NEW t \in Turn, t \notin replayed, pc[t] \in {"put", "rename"},
           UNCHANGED << config, at, seen, persisted >>,
           pc' = [pc EXCEPT ![t] = "insert"],
           tries' \in {tries, [tries EXCEPT ![t] = 0]},
           put' = put \/ (put' = [put EXCEPT ![t] = TRUE] /\ Here(t) \in Blob),
           NEW j \in Nat, at[t] = j, Has(<< t, j >>)'
    PROVE  /\ pc' \in [Turn -> Step] /\ tries' \in [Turn -> 0 .. MaxRetries]
           /\ put' \in [Turn -> BOOLEAN]
           /\ \A u \in Turn \ {t} : pc'[u] = pc[u] /\ tries'[u] = tries[u] /\ put'[u] = put[u]
           /\ Fine(t)'
<1> USE DEF IInv, TypeOK
<1>1. Fine(t) /\ Here(t)' = Here(t) /\ pc'[t] = "insert"
  BY DEF Here
<1>2. /\ pc' \in [Turn -> Step] /\ put' \in [Turn -> BOOLEAN]
      /\ tries' \in [Turn -> 0 .. MaxRetries]
      /\ tries'[t] \in {0, tries[t]}
      /\ put'[t] => put[t] \/ Here(t) \in Blob
      /\ \A u \in Turn \ {t} : pc'[u] = pc[u] /\ tries'[u] = tries[u] /\ put'[u] = put[u]
  <2>1. pc' \in [Turn -> Step] /\ \A u \in Turn \ {t} : pc'[u] = pc[u]
    BY DEF Step
  <2>2. 0 \in 0 .. MaxRetries
    OBVIOUS
  <2>3. /\ tries' \in [Turn -> 0 .. MaxRetries] /\ tries'[t] \in {0, tries[t]}
        /\ \A u \in Turn \ {t} : tries'[u] = tries[u]
    <3>1. CASE tries' = tries
      BY <3>1
    <3>2. CASE tries' = [tries EXCEPT ![t] = 0]
      BY <2>2, <3>2
    <3>3. QED
      BY <3>1, <3>2
  <2>4. /\ put' \in [Turn -> BOOLEAN] /\ (put'[t] => put[t] \/ Here(t) \in Blob)
        /\ \A u \in Turn \ {t} : put'[u] = put[u]
    OBVIOUS
  <2>5. QED
    BY <2>1, <2>3, <2>4
<1>3. Counted(t)'
  <2>1. at[t] \in 1 .. Len(BlobsOf[t]) /\ tries[t] < MaxRetries /\ tries'[t] < MaxRetries
    BY <1>1, <1>2 DEF Fine, Counted, Active, Trying
  <2>2. QED
    BY <1>1, <2>1 DEF Counted, Active, Trying, Removing, config
<1>4. Sized(t)'
  BY <1>1, <1>2 DEF Fine, Sized, Active, Trying, Removing
<1>5. Told(t)'
  <2>1. Has(Row(t))'
    BY DEF Has, Row
  <2>2. QED
    BY <1>1, <2>1 DEF Told
<1>6. Holding(t)' /\ Unreferred(t)' /\ Prepared(t)'
  BY <1>1 DEF Holding, Unreferred, Prepared, config
<1>7. QED
  BY <1>2, <1>3, <1>4, <1>5, <1>6 DEF Fine

\* The steps of a put keep the invariant.
LEMMA PutInv ==
    ASSUME IInv, NEW t \in Turn,
           \/ PutNothing(t) \/ PutFinds(t) \/ PutCreates(t) \/ PutRenames(t)
           \/ PutUploads(t) \/ PutFails(t)
    PROVE  IInv'
<1> USE DEF IInv, TypeOK
<1>1. PICK j \in Nat : at[t] = j
  OBVIOUS
<1>2. /\ Fine(t) /\ pc[t] \in {"put", "rename"}
      /\ j \in 1 .. Len(BlobsOf[t]) /\ tries[t] < MaxRetries
      /\ BlobsOf[t][j] = Here(t) /\ Here(t) \in Blob \cup {UrlOnly}
      /\ Row(t) = << t, j >>
  <2>1. Fine(t) /\ pc[t] \in {"put", "rename"}
    BY DEF PutNothing, PutFinds, PutCreates, PutRenames, PutUploads, PutFails
  <2>2. j \in 1 .. Len(BlobsOf[t]) /\ tries[t] < MaxRetries
    BY <1>1, <2>1 DEF Fine, Counted, Active, Trying
  <2>3. QED
    BY <1>1, <2>1, <2>2, Hashes DEF Here, Row
<1>3. ~PutNothing(t) => Here(t) \in Blob
  BY <1>2 DEF PutFinds, PutCreates, PutRenames, PutUploads, PutFails, HasBytes, Fine, Sized
<1>4. UNCHANGED << config, tables, holder, seen, persisted >>
  BY DEF PutNothing, PutFinds, PutCreates, PutRenames, PutUploads, PutFails, Stored, NextPut,
         local
<1>5. /\ objects' \subseteq stored' /\ stored \subseteq stored' /\ stored' \subseteq Blob
      /\ tmp' \in [Blob -> Turn \cup {Free}]
      /\ unput \subseteq unput' /\ unput' \subseteq Turn \X Nat
  <2>1. CASE PutNothing(t)
    BY <2>1 DEF PutNothing, disk
  <2>2. CASE PutFinds(t)
    <3>1. /\ UNCHANGED << objects, stored, tmp >>
          /\ unput' \in {unput, unput \cup {<< t, j >>}}
      BY <1>2, <2>2 DEF PutFinds
    <3>2. /\ objects \subseteq stored /\ stored \subseteq Blob
          /\ tmp \in [Blob -> Turn \cup {Free}] /\ unput \subseteq Turn \X Nat
      BY DEF IInv, TypeOK
    <3>3. QED
      BY <3>1, <3>2
  <2>3. CASE PutCreates(t)
    BY <1>3, <2>3 DEF PutCreates, PutNothing, HasBytes
  <2>4. CASE PutRenames(t) \/ PutUploads(t)
    <3>1. Here(t) \in Blob
      BY <1>2, <2>4 DEF PutRenames, PutUploads, HasBytes, Fine, Sized
    <3>2. Store(Here(t)) /\ UNCHANGED unput /\ tmp' \in {tmp, [tmp EXCEPT ![Here(t)] = Free]}
      BY <2>4 DEF PutRenames, PutUploads
    <3>3. QED
      BY <3>1, <3>2 DEF Store
  <2>5. CASE PutFails(t)
    BY <1>2, <2>5 DEF PutFails
  <2>6. QED
    BY <2>1, <2>2, <2>3, <2>4, <2>5
<1>6. /\ pc' \in [Turn -> Step] /\ at' \in [Turn -> Nat]
      /\ tries' \in [Turn -> 0 .. MaxRetries] /\ put' \in [Turn -> BOOLEAN]
      /\ \A u \in Turn \ {t} : /\ pc'[u] = pc[u] /\ at'[u] = at[u]
                               /\ tries'[u] = tries[u] /\ put'[u] = put[u]
      /\ Fine(t)'
  <2>1. CASE t \in replayed /\ NextPut(t) /\ Has(<< t, j >>)'
    BY <1>1, <1>2, <1>4, <1>5, <2>1, NextPutFine
  <2>2. CASE Stored(t) /\ Here(t) \in Blob /\ Has(<< t, j >>)'
    <3>1. CASE t \in replayed
      BY <2>1, <2>2, <3>1 DEF Stored
    <3>2. CASE t \notin replayed
      <4>1. /\ put' = [put EXCEPT ![t] = TRUE] /\ tries' = [tries EXCEPT ![t] = 0]
            /\ pc' = [pc EXCEPT ![t] = "insert"] /\ UNCHANGED << at, seen, persisted >>
        BY <2>2, <3>2 DEF Stored, Goto
      <4>2. QED
        <5>1. /\ pc' \in [Turn -> Step] /\ tries' \in [Turn -> 0 .. MaxRetries]
              /\ put' \in [Turn -> BOOLEAN] /\ Fine(t)'
              /\ \A u \in Turn \ {t} :
                    pc'[u] = pc[u] /\ tries'[u] = tries[u] /\ put'[u] = put[u]
          BY <1>1, <1>2, <1>4, <2>2, <3>2, <4>1, StoredFine
        <5>2. QED
          BY <4>1, <5>1
    <3>3. QED
      BY <3>1, <3>2
  <2>3. CASE PutNothing(t)
    <3>1. Has(<< t, j >>)'
      BY <1>2, <2>3 DEF PutNothing, Has
    <3>2. CASE t \in replayed
      BY <2>1, <2>3, <3>1, <3>2 DEF PutNothing
    <3>3. CASE t \notin replayed
      <4>1. pc' = [pc EXCEPT ![t] = "insert"] /\ UNCHANGED << at, tries, put, seen, persisted >>
        BY <2>3, <3>3 DEF PutNothing, Goto, local
      <4>2. QED
        BY <1>1, <1>2, <1>4, <3>1, <3>3, <4>1, StoredFine
    <3>4. QED
      BY <3>2, <3>3
  <2>4. CASE PutFinds(t) \/ PutRenames(t) \/ PutUploads(t)
    <3>1. Has(<< t, j >>)'
      <4>1. Here(t) \in stored' \/ << t, j >> \in unput'
        BY <1>2, <2>4 DEF PutFinds, PutRenames, PutUploads, Store
      <4>2. QED
        BY <1>2, <4>1 DEF Has
    <3>2. Stored(t) /\ Here(t) \in Blob
      BY <1>2, <2>4 DEF PutFinds, PutRenames, PutUploads, HasBytes, Fine, Sized
    <3>3. QED
      BY <2>2, <3>1, <3>2
  <2>5. CASE PutCreates(t)
    <3>1. pc' = [pc EXCEPT ![t] = "rename"] /\ pc[t] = "put" /\ UNCHANGED local
          /\ UNCHANGED << stored, unput >>
      BY <2>5 DEF PutCreates, Goto
    <3>2. Here(t)' = Here(t) /\ Here(t) \in Blob /\ pc'[t] = "rename"
          /\ UNCHANGED << at, tries, put, seen, persisted >>
      BY <1>2, <2>5, <3>1 DEF PutCreates, HasBytes, Here, local
    <3>3. Counted(t)'
      BY <1>2, <1>4, <3>1, <3>2 DEF Fine, Counted, Active, Trying, Removing, config
    <3>4. Sized(t)' /\ Holding(t)' /\ Unreferred(t)' /\ Told(t)'
      BY <1>2, <1>4, <3>1, <3>2
      DEF Fine, Sized, Holding, Unreferred, Told, Active, Trying, Removing, config
    <3>5. Prepared(t)'
      BY <1>2, <1>4, <3>1, <3>2 DEF Fine, Prepared, Has, config
    <3>6. QED
      BY <3>1, <3>2, <3>3, <3>4, <3>5 DEF Fine, Step
  <2>6. CASE PutFails(t)
    <3>1. CASE t \in replayed
      <4>1. NextPut(t) /\ << t, j >> \in unput'
        BY <1>2, <2>6, <3>1 DEF PutFails
      <4>2. QED
        BY <2>1, <3>1, <4>1 DEF Has
    <3>2. CASE t \notin replayed
      <4>1. /\ tries' = [tries EXCEPT ![t] = @ + 1]
            /\ UNCHANGED << at, put, seen, persisted >>
            /\ pc' = [pc EXCEPT ![t] = IF tries[t] + 1 < MaxRetries THEN "put" ELSE "letter"]
        BY <2>6, <3>2 DEF PutFails, Goto
      <4>2. /\ tries' \in [Turn -> 0 .. MaxRetries] /\ tries'[t] = tries[t] + 1
            /\ pc' \in [Turn -> Step] /\ pc'[t] \in {"put", "letter"}
            /\ pc'[t] = "put" => tries'[t] < MaxRetries
            /\ Here(t)' = Here(t)
        BY <1>2, <4>1 DEF Step, Here
      <4>3. Counted(t)'
        BY <1>1, <1>2, <1>4, <3>2, <4>1, <4>2 DEF Counted, Active, Trying, Removing, config
      <4>4. Sized(t)'
        BY <1>2, <1>4, <3>2, <4>1, <4>2 DEF Fine, Sized, Active, Trying, Removing, config
      <4>5. Holding(t)' /\ Unreferred(t)' /\ Told(t)' /\ Prepared(t)'
        BY <1>4, <3>2, <4>2 DEF Holding, Unreferred, Told, Prepared, config
      <4>6. \A u \in Turn \ {t} : pc'[u] = pc[u] /\ tries'[u] = tries[u]
        BY <4>1
      <4>7. QED
        BY <4>1, <4>2, <4>3, <4>4, <4>5, <4>6 DEF Fine
    <3>3. QED
      BY <3>1, <3>2
  <2>7. QED
    BY <2>3, <2>4, <2>5, <2>6
<1>7. \A u \in Turn \ {t} : Fine(u)'
  BY <1>4, <1>5, <1>6, Others DEF tables
<1>8. RowsHadTheirObject'
  BY <1>4, <1>5 DEF RowsHadTheirObject, config, tables
<1>9. QED
  BY <1>4, <1>5, <1>6, <1>7, <1>8 DEF config, tables

\* A new row of a hash whose lock its writer holds, or that has no bytes, or
\* on SQLite without the lock being held, is not one of an object somebody is
\* about to delete; a replay does not look on PostgreSQL.
LEMMA RowIsSafe ==
    ASSUME IInv, NEW t \in Turn, NEW u \in Turn \ {t}, pc[u] = "delete",
           \/ pc[t] = "locked"
           \/ pc[t] = "insert" /\ Plain(t) /\ Waits(t)
    PROVE  Here(t) # Here(u) \/ Unchecked(Row(t))
<1> SUFFICES ASSUME Here(t) = Here(u), ~(backend = "postgres" /\ t \in replayed) PROVE FALSE
  BY DEF Unchecked, Row
<1>1. Here(u) \in Blob /\ holder[LockOf(Here(u))] = u
  BY DEF IInv, Fine, Sized, Holding, Removing
<1>2. CASE pc[t] = "locked"
  BY <1>1, <1>2 DEF IInv, Fine, Holding
<1>3. CASE pc[t] = "insert" /\ Plain(t) /\ Waits(t)
  <2>1. backend = "sqlite"
    BY <1>1, <1>3 DEF Plain, IInv, TypeOK
  <2>2. QED
    BY <1>1, <1>3, <2>1 DEF Waits, LockOf
<1>4. QED
  BY <1>2, <1>3

\* The steps that write a row keep the invariant.
LEMMA RowInv ==
    ASSUME IInv, NEW t \in Turn,
           InsertPlain(t) \/ CommitRow(t) \/ CommitUnanswered(t)
    PROVE  IInv'
<1> USE DEF IInv, TypeOK
<1>1. /\ rows' = rows \cup {Row(t)}
      /\ UNCHANGED << config, disk, letters, count, drifted >>
      /\ \/ pc[t] = "locked" /\ Present(t)
         \/ pc[t] = "insert" /\ Plain(t) /\ Waits(t)
      /\ UNCHANGED holder \/ Release(t)
  BY DEF InsertPlain, CommitRow, CommitUnanswered, AttemptFails, Waits
<1>2. at[t] \in Nat /\ Row(t) \in Turn \X Nat /\ BlobsOf[Row(t)[1]][Row(t)[2]] = Here(t)
  BY DEF Row, Here
<1>3. /\ pc' \in [Turn -> Step] /\ at' \in [Turn -> Nat]
      /\ tries' \in [Turn -> 0 .. MaxRetries]
      /\ put' \in [Turn -> BOOLEAN] /\ seen' \in [Turn -> BOOLEAN]
      /\ persisted' \in [Turn -> Nat]
      /\ Fine(t)'
  <2>1. CASE CommitUnanswered(t)
    <3>1. AttemptFails(t) /\ pc[t] \in {"locked", "insert"}
      BY <2>1 DEF CommitUnanswered
    <3>2. QED
      BY <1>1, <3>1, AttemptFine DEF disk
  <2>2. CASE InsertPlain(t) \/ CommitRow(t)
    <3>1. Returned(t, 1) /\ pc[t] \in Active \ {"put", "rename"}
      BY <2>2 DEF InsertPlain, CommitRow, Active, Trying
    <3>2. QED
      BY <1>1, <3>1, ReturnedFine DEF disk
  <2>3. QED
    BY <2>1, <2>2
<1>4. \A u \in Turn \ {t} : /\ pc'[u] = pc[u] /\ at'[u] = at[u] /\ tries'[u] = tries[u]
                             /\ put'[u] = put[u] /\ seen'[u] = seen[u]
  BY DEF InsertPlain, CommitRow, CommitUnanswered, AttemptFails, Returned, Reset, Goto
<1>5. /\ holder' \in [Lock -> Turn \cup {Free}]
      /\ \A l \in Lock, u \in Turn \ {t} : holder[l] = u => holder'[l] = u
  BY <1>1, ReleaseKeeps
<1>6. \A u \in Turn \ {t} : Fine(u)'
  <2> SUFFICES ASSUME NEW u \in Turn \ {t} PROVE Fine(u)'
    OBVIOUS
  <2>1. pc[u] = "delete" => Here(t) # Here(u) \/ Unchecked(Row(t))
    BY <1>1, RowIsSafe
  <2>2. pc[u] = "delete" =>
            \A r \in rows' : r \in rows \/ BlobsOf[r[1]][r[2]] # Here(u) \/ Unchecked(r)
    BY <1>1, <1>2, <2>1
  <2>3. QED
    BY <1>1, <1>4, <1>5, <2>2, Others DEF disk
<1>7. RowsHadTheirObject'
  <2>1. /\ Here(t) \in stored \cup {UrlOnly} \/ Row(t) \in unput
        /\ backend # "sqlite" /\ t \notin replayed => Here(t) \in stored \cup {UrlOnly}
    BY <1>1, <1>2 DEF Fine, Told, Has, Present, Plain
  <2>2. \/ BlobsOf[Row(t)[1]][Row(t)[2]] \in stored \cup {UrlOnly}
        \/ Row(t) \in unput /\ (Row(t)[1] \in replayed \/ backend = "sqlite")
    BY <1>2, <2>1 DEF Row
  <2>3. QED
    BY <1>1, <2>2 DEF RowsHadTheirObject, config, disk
<1>8. TypeOK' /\ objects' \subseteq stored'
  <2>1. rows' \subseteq Turn \X Nat
    BY <1>1, <1>2
  <2>2. UNCHANGED << backend, store, replayed, objects, stored, tmp, unput, letters, count,
                     drifted >>
    BY <1>1 DEF config, disk
  <2>3. QED
    BY <1>3, <1>5, <2>1, <2>2
<1>9. QED
  BY <1>3, <1>6, <1>7, <1>8

\* The other steps of the insert, which write no row, keep the invariant.
LEMMA InsertInv ==
    ASSUME IInv, NEW t \in Turn, Probe(t) \/ LockBlob(t) \/ InsertFails(t)
    PROVE  IInv'
<1> USE DEF IInv, TypeOK
<1>1. UNCHANGED << config, disk, tables >>
      /\ (~InsertFails(t) => UNCHANGED << at, put, persisted >>)
  BY DEF Probe, LockBlob, InsertFails, local
<1>2. /\ pc' \in [Turn -> Step] /\ at' \in [Turn -> Nat]
      /\ tries' \in [Turn -> 0 .. MaxRetries] /\ put' \in [Turn -> BOOLEAN]
      /\ seen' \in [Turn -> BOOLEAN] /\ persisted' \in [Turn -> Nat]
      /\ holder' \in [Lock -> Turn \cup {Free}]
      /\ \A l \in Lock, u \in Turn \ {t} : holder[l] = u => holder'[l] = u
      /\ Fine(t)'
  <2>1. ~InsertFails(t) => Here(t)' = Here(t) /\ Row(t)' = Row(t)
    BY <1>1 DEF Here, Row
  <2>2. CASE Probe(t)
    <3>1. Here(t) \in Blob /\ backend = "postgres"
      <4>1. at[t] \in 1 .. Len(BlobsOf[t])
        BY <2>2 DEF Probe, Fine, Counted, Active, Trying
      <4>2. QED
        BY <2>2, <4>1, Hashes DEF Probe, Plain, Here
    <3>2. pc' = [pc EXCEPT ![t] = "probed"] /\ seen' = [seen EXCEPT ![t] = Here(t) \in objects]
          /\ UNCHANGED << at, put, persisted, tries, holder >> /\ pc[t] = "insert"
          /\ t \notin replayed /\ Here(t)' = Here(t) /\ Row(t)' = Row(t)
      BY <2>2 DEF Probe, Goto, Plain, Here, Row
    <3>3. pc' \in [Turn -> Step] /\ seen' \in [Turn -> BOOLEAN] /\ pc'[t] = "probed"
          /\ (seen'[t] => Here(t) \in objects)
      <4>1. pc' \in [Turn -> Step] /\ pc'[t] = "probed"
        BY <3>2 DEF Step
      <4>2. seen' \in [Turn -> BOOLEAN]
        <5>1. CASE Here(t) \in objects
          <6>1. (Here(t) \in objects) = TRUE
            BY <5>1
          <6>2. seen' = [seen EXCEPT ![t] = TRUE]
            BY <3>2, <6>1, Zenon
          <6>3. QED
            BY <6>2
        <5>2. CASE Here(t) \notin objects
          <6>1. (Here(t) \in objects) = FALSE
            BY <5>2
          <6>2. seen' = [seen EXCEPT ![t] = FALSE]
            BY <3>2, <6>1, Zenon
          <6>3. QED
            BY <6>2
        <5>3. QED
          BY <5>1, <5>2
      <4>3. seen'[t] = (Here(t) \in objects)
        BY <3>2, Zenon
      <4>4. QED
        BY <4>1, <4>2, <4>3
    <3>4. Counted(t)'
      BY <1>1, <3>2, <3>3 DEF Fine, Counted, Active, Trying, Removing
    <3>5. Told(t)'
      BY <1>1, <3>2, <3>3 DEF Fine, Told, Has, config, disk
    <3>6. Sized(t)' /\ Holding(t)' /\ Unreferred(t)' /\ Prepared(t)'
      BY <1>1, <3>1, <3>2, <3>3 DEF Sized, Holding, Unreferred, Prepared, Removing, config
    <3>7. QED
      BY <3>2, <3>3, <3>4, <3>5, <3>6 DEF Fine
  <2>3. CASE LockBlob(t)
    <3>1. /\ UNCHANGED << at, put, persisted, tries, seen >>
          /\ Here(t)' = Here(t) /\ Row(t)' = Row(t) /\ Here(t) \in Blob /\ t \notin replayed
          /\ LockOf(Here(t)) \in Lock /\ LockOf(Here(t))' = LockOf(Here(t))
      BY <1>1, <2>3 DEF LockBlob, Fine, Sized, LockOf, Lock, Here, Row, config, local
    <3>2. pc' = [pc EXCEPT ![t] = "locked"] /\ pc[t] = "probed"
          /\ holder[LockOf(Here(t))] = Free /\ holder' = [holder EXCEPT ![LockOf(Here(t))] = t]
      BY <2>3 DEF LockBlob, Goto, Acquire
    <3>3. Counted(t)' /\ Sized(t)' /\ Holding(t)' /\ Unreferred(t)'
      BY <1>1, <3>1, <3>2
      DEF Step, Fine, Counted, Sized, Holding, Unreferred, Active, Trying, Removing, config
    <3>4. Told(t)' /\ Prepared(t)'
      BY <1>1, <3>1, <3>2 DEF Fine, Told, Has, Prepared, config, disk
    <3>5. QED
      BY <3>1, <3>2, <3>3, <3>4 DEF Fine, Step
  <2>4. CASE InsertFails(t)
    <3>1. pc[t] \in {"insert", "probed", "locked"} /\ AttemptFails(t) /\ Release(t)
      BY <2>4 DEF InsertFails, AttemptFails
    <3>2. QED
      BY <1>1, <3>1, AttemptFine, ReleaseKeeps DEF disk
  <2>5. QED
    BY <2>2, <2>3, <2>4
<1>3. \A u \in Turn \ {t} : /\ pc'[u] = pc[u] /\ at'[u] = at[u] /\ tries'[u] = tries[u]
                             /\ put'[u] = put[u] /\ seen'[u] = seen[u]
  BY DEF Probe, LockBlob, InsertFails, AttemptFails, Returned, Reset, Goto, local
<1>4. \A u \in Turn \ {t} : Fine(u)'
  BY <1>1, <1>2, <1>3, Others DEF disk, tables
<1>5. RowsHadTheirObject'
  BY <1>1 DEF RowsHadTheirObject, config, disk, tables
<1>6. QED
  BY <1>1, <1>2, <1>4, <1>5 DEF config, disk, tables

\* So do those of the dead letter and of the clean-up.
LEMMA CleanInv ==
    ASSUME IInv, NEW t \in Turn,
           \/ DeadLetter(t) \/ DeadLetterFails(t)
           \/ LockForDelete(t) \/ CountReferences(t) \/ DeleteObject(t) \/ DeleteFails(t)
    PROVE  IInv'
<1> USE DEF IInv, TypeOK
<1>1. /\ UNCHANGED << config, stored, tmp, unput, rows, count, drifted >>
      /\ objects' \subseteq objects
      /\ letters' \subseteq Turn \X Nat
      /\ pc[t] \in Removing \cup {"letter"}
  BY DEF DeadLetter, DeadLetterFails, LockForDelete, CountReferences, DeleteObject, DeleteFails,
         Row, disk, tables, Removing
<1>2. /\ at[t] \in 1 .. Len(BlobsOf[t]) /\ (pc[t] \in Removing => Here(t) \in Blob)
      /\ t \notin replayed
  BY <1>1 DEF Fine, Counted, Sized, Active
<1>3. /\ pc' \in [Turn -> Step] /\ at' \in [Turn -> Nat]
      /\ tries' \in [Turn -> 0 .. MaxRetries]
      /\ put' \in [Turn -> BOOLEAN] /\ seen' \in [Turn -> BOOLEAN]
      /\ persisted' \in [Turn -> Nat]
      /\ holder' \in [Lock -> Turn \cup {Free}]
      /\ \A l \in Lock, u \in Turn \ {t} : holder[l] = u => holder'[l] = u
      /\ Fine(t)'
  <2>1. CASE Returned(t, 0) /\ (UNCHANGED holder \/ Release(t))
    <3>1. pc[t] \in Active \ {"put", "rename"}
      BY <1>1 DEF Active, Removing
    <3>2. QED
      BY <1>1, <2>1, <3>1, ReturnedFine, ReleaseKeeps
  <2>2. CASE DeadLetterFails(t) /\ put[t]
    <3>1. pc' = [pc EXCEPT ![t] = "unrefer"] /\ UNCHANGED << local, holder >> /\ pc[t] = "letter"
      BY <2>2 DEF DeadLetterFails, Goto
    <3>2. Here(t) \in Blob /\ Here(t)' = Here(t)
      BY <2>2, <3>1 DEF Fine, Sized, Active, Here, local
    <3>3. QED
      BY <1>1, <1>2, <3>1, <3>2
      DEF Step, Fine, Counted, Sized, Holding, Unreferred, Told, Prepared, Active, Trying, Removing,
          local, config
  <2>3. CASE LockForDelete(t)
    <3>1. Here(t)' = Here(t) /\ LockOf(Here(t)) \in Lock /\ LockOf(Here(t))' = LockOf(Here(t))
      BY <1>1, <1>2, <2>3 DEF LockForDelete, Removing, Here, LockOf, Lock, local, config
    <3>2. pc' = [pc EXCEPT ![t] = "count"] /\ UNCHANGED local /\ pc[t] = "unrefer"
          /\ holder[LockOf(Here(t))] = Free /\ holder' = [holder EXCEPT ![LockOf(Here(t))] = t]
      BY <2>3 DEF LockForDelete, Goto, Acquire
    <3>3. QED
      BY <1>1, <1>2, <3>1, <3>2
      DEF Step, Fine, Counted, Sized, Holding, Unreferred, Told, Prepared, Active, Trying, Removing,
          local, config
  <2>4. CASE CountReferences(t) /\ Unreferenced(Here(t))
    <3>1. pc' = [pc EXCEPT ![t] = "delete"] /\ UNCHANGED << holder, local, rows >>
          /\ pc[t] = "count" /\ References(Here(t)) = {}
      BY <2>4 DEF CountReferences, Goto, Unreferenced, tables
    <3>2. Here(t)' = Here(t) /\ LockOf(Here(t))' = LockOf(Here(t))
          /\ References(Here(t))' = {}
      BY <1>1, <3>1 DEF Here, References, LockOf, local, config
    <3>3. QED
      BY <1>1, <1>2, <3>1, <3>2
      DEF Step, Fine, Counted, Sized, Holding, Unreferred, Told, Prepared, Active, Trying, Removing,
          local, config
  <2>5. QED
    BY <2>1, <2>2, <2>3, <2>4
    DEF DeadLetter, DeadLetterFails, CountReferences, DeleteObject, DeleteFails
<1>4. \A u \in Turn \ {t} : /\ pc'[u] = pc[u] /\ at'[u] = at[u] /\ tries'[u] = tries[u]
                             /\ put'[u] = put[u] /\ seen'[u] = seen[u]
  BY DEF DeadLetter, DeadLetterFails, LockForDelete, CountReferences, DeleteObject, DeleteFails,
         Returned, Reset, Goto, local
<1>5. \A u \in Turn \ {t} : Fine(u)'
  BY <1>1, <1>3, <1>4, Others
<1>6. RowsHadTheirObject'
  BY <1>1 DEF RowsHadTheirObject, config
<1>7. TypeOK' /\ objects' \subseteq stored'
  BY <1>1, <1>3 DEF config
<1>8. QED
  BY <1>3, <1>5, <1>6, <1>7

\* And the steps with which a capture ends.
LEMMA EndInv ==
    ASSUME IInv, NEW t \in Turn, Reconcile(t) \/ ReconcileFails(t) \/ Crash(t)
    PROVE  IInv'
<1> USE DEF IInv, TypeOK
<1>1. /\ UNCHANGED << config, disk, rows, letters, local >>
      /\ pc' \in [Turn -> Step] /\ pc'[t] \in Ended
      /\ \A u \in Turn \ {t} : pc'[u] = pc[u]
      /\ UNCHANGED holder \/ Release(t)
      /\ count' \in [Turn -> Nat] /\ drifted' \subseteq Turn
  <2>1. CASE Reconcile(t)
    BY <2>1 DEF Reconcile, Goto, Ended, Step, tables
  <2>2. CASE ReconcileFails(t)
    BY <2>2 DEF ReconcileFails, Goto, Ended, Step, tables
  <2>3. CASE Crash(t)
    BY <2>3 DEF Crash, Goto, Ended, Step, tables
  <2>4. QED
    BY <2>1, <2>2, <2>3
<1>2. /\ holder' \in [Lock -> Turn \cup {Free}]
      /\ \A l \in Lock, u \in Turn \ {t} : holder[l] = u => holder'[l] = u
  BY <1>1, ReleaseKeeps
<1>3. Fine(t)'
  BY <1>1 DEF Ended, Fine, Counted, Sized, Holding, Unreferred, Told, Prepared, Active, Trying,
              Removing
<1>4. \A u \in Turn \ {t} : Fine(u)'
  BY <1>1, <1>2, Others DEF local, disk
<1>5. RowsHadTheirObject'
  BY <1>1 DEF RowsHadTheirObject, config, disk
<1>6. TypeOK' /\ objects' \subseteq stored'
  BY <1>1, <1>2 DEF config, disk, local
<1>7. QED
  BY <1>3, <1>4, <1>5, <1>6

\* Every step keeps the invariant.
LEMMA StepInv == IInv /\ [Next]_vars => IInv'
<1> SUFFICES ASSUME IInv, [Next]_vars PROVE IInv'
  OBVIOUS
<1>1. CASE UNCHANGED vars
  <2>1. \A t \in Turn : Fine(t)'
    BY <1>1, Others DEF vars, config, disk, tables, local
  <2>2. QED
    BY <1>1, <2>1 DEF IInv, TypeOK, RowsHadTheirObject, vars, config, disk, tables, local
<1>2. ASSUME NEW t \in Turn, Progress(t) \/ Crash(t) PROVE IInv'
  BY <1>2, TurnInv, PutInv, RowInv, InsertInv, CleanInv, EndInv DEF Progress
<1>3. QED
  BY <1>1, <1>2 DEF Next

\* The invariant holds in every reachable state.
LEMMA Invariant == Spec => []IInv
BY InitInv, StepInv, PTL DEF Spec

-----------------------------------------------------------------------------

\* The types of Attachments.tla.
THEOREM TypeCorrect == Spec => []TypeOK
BY Invariant, PTL DEF IInv

\* No row is committed whose object was never in the store, but those of a
\* replay that put none and, on SQLite, of a put that took the temporary file
\* of another writer for it (write_attachment_with_blob_check, replay_one_orphan).
THEOREM RowsHadObjects == Spec => []RowsHadTheirObject
BY Invariant, PTL DEF IInv

\* No object that a row refers to is ever deleted, unless only rows that a
\* replay wrote on PostgreSQL do (with_sha256_orphan_delete_lock).
THEOREM ReferencedKept == Spec => ReferencedObjectsKept
<1>1. IInv /\ [Next]_vars =>
        [\A b \in objects \ objects' : \A r \in References(b) : Unchecked(r)]_vars
  <2> SUFFICES ASSUME IInv, Next, NEW b \in objects \ objects'
               PROVE  \A r \in References(b) : Unchecked(r)
    OBVIOUS
  <2>1. PICK t \in Turn : Progress(t) \/ Crash(t)
    BY DEF Next
  <2>2. DeleteObject(t)
    BY <2>1 DEF Progress, Crash, WriteTurn, WriteTurnFails, PutNothing, PutFinds, PutCreates,
                PutRenames, PutUploads, PutFails, InsertPlain, Probe, LockBlob, CommitRow, CommitUnanswered,
                InsertFails, DeadLetter, DeadLetterFails, LockForDelete, CountReferences,
                DeleteFails, Reconcile, ReconcileFails, Store, disk
  <2>3. b = Here(t) /\ pc[t] = "delete"
    BY <2>2 DEF DeleteObject
  <2>4. QED
    BY <2>3 DEF IInv, Fine, Unreferred
<1>2. QED
  BY <1>1, Invariant, PTL DEF Spec, ReferencedObjectsKept
-----------------------------------------------------------------------------
(* The number of the rows of a turn.                                       *)

\* The rows of the attachments a capture is through with.
Before(t) == {r \in RowsOf(t) : r[2] < at[t]}

\* A replay that still puts objects has not written the turn.
Preparing(t) == t \in replayed /\ pc[t] \in {"put", "rename"}

\* What a capture was told is never more than what is there, and on SQLite,
\* where no answer is lost and only there the count is corrected, the same.
Truthful(t) ==
    /\ RowsOf(t) \subseteq {t} \X (1 .. Len(BlobsOf[t]))
    /\ Cardinality(RowsOf(t)) <= count[t]
    /\ pc[t] = "turn" \/ Preparing(t) => RowsOf(t) = {} /\ persisted[t] = 0
    /\ pc[t] \in Active /\ ~Preparing(t) =>
        /\ count[t] = Len(BlobsOf[t])
        /\ RowsOf(t) \subseteq {t} \X (1 .. at[t])
        /\ persisted[t] <= Cardinality(Before(t))
        /\ backend = "sqlite" => persisted[t] = Cardinality(Before(t)) /\ Row(t) \notin rows
    /\ pc[t] = "reconcile" /\ backend = "sqlite" => persisted[t] = Cardinality(RowsOf(t))
    /\ pc[t] = "done" /\ t \notin drifted => count[t] = Cardinality(RowsOf(t))

CountInv == IInv /\ \A t \in Turn : Truthful(t)

\* A turn has no more rows than positions.
LEMMA RowsBounded ==
    ASSUME NEW t, NEW n \in Nat, NEW R \in SUBSET ({t} \X (1 .. n))
    PROVE  IsFiniteSet(R) /\ Cardinality(R) \in Nat /\ Cardinality(R) <= n
<1> DEFINE P == {r[2] : r \in R}
<1>1. P \in SUBSET (1 .. n) /\ IsFiniteSet(1 .. n) /\ Cardinality(1 .. n) = n
  BY FS_Interval
<1>2. IsFiniteSet(P) /\ Cardinality(P) <= n
  BY <1>1, FS_Subset
<1> DEFINE f == [i \in P |-> << t, i >>]
<1>3. f \in Surjection(P, R)
  <2>1. f \in [P -> R]
    OBVIOUS
  <2>2. \A r \in R : \E i \in P : f[i] = r
    <3> TAKE r \in R
    <3>1. r[2] \in P /\ f[r[2]] = r
      OBVIOUS
    <3>2. QED
      BY <3>1
  <2>3. QED
    BY <2>1, <2>2 DEF Surjection
<1>4. IsFiniteSet(R) /\ Cardinality(R) <= Cardinality(P)
  BY <1>2, <1>3, FS_Surjection
<1>5. Cardinality(R) \in Nat /\ Cardinality(P) \in Nat
  BY <1>2, <1>4, FS_CardinalityType
<1>6. QED
  BY <1>2, <1>4, <1>5

\* The sets of rows of a capture at work.
LEMMA RowSets ==
    ASSUME CountInv, NEW t \in Turn, pc[t] \in Active, ~Preparing(t)
    PROVE  /\ at[t] \in 1 .. Len(BlobsOf[t]) /\ Len(BlobsOf[t]) \in Nat
           /\ count[t] \in Nat /\ persisted[t] \in Nat
           /\ Before(t) \subseteq {t} \X (1 .. at[t] - 1)
           /\ IsFiniteSet(Before(t)) /\ Cardinality(Before(t)) \in 0 .. at[t] - 1
           /\ Row(t) \notin Before(t)
           /\ RowsOf(t) = Before(t) \/ RowsOf(t) = Before(t) \cup {Row(t)}
           /\ Row(t) \in rows <=> RowsOf(t) = Before(t) \cup {Row(t)}
<1>1. at[t] \in 1 .. Len(BlobsOf[t]) /\ Len(BlobsOf[t]) \in Nat
  BY DEF CountInv, IInv, Fine, Counted
<1>2. count[t] \in Nat /\ persisted[t] \in Nat /\ RowsOf(t) \subseteq {t} \X (1 .. at[t])
  BY DEF CountInv, IInv, TypeOK, Truthful
<1>3. Before(t) \subseteq {t} \X (1 .. at[t] - 1)
  <2> SUFFICES ASSUME NEW r \in Before(t) PROVE r \in {t} \X (1 .. at[t] - 1)
    OBVIOUS
  <2>1. r \in {t} \X (1 .. at[t]) /\ r[2] < at[t]
    BY <1>2 DEF Before
  <2>2. r[2] \in 1 .. at[t] - 1
    BY <1>1, <2>1
  <2>3. QED
    BY <2>1, <2>2
<1>4. IsFiniteSet(Before(t)) /\ Cardinality(Before(t)) \in 0 .. at[t] - 1
  <2>1. at[t] - 1 \in Nat
    BY <1>1
  <2>2. /\ IsFiniteSet(Before(t))
        /\ Cardinality(Before(t)) \in Nat /\ Cardinality(Before(t)) <= at[t] - 1
    BY <1>3, <2>1, RowsBounded
  <2>3. QED
    BY <2>1, <2>2
<1>5. \A r \in RowsOf(t) : r \in Before(t) \/ r = Row(t)
  <2> TAKE r \in RowsOf(t)
  <2>1. r \in {t} \X (1 .. at[t])
    BY <1>2
  <2>2. r[2] < at[t] \/ r[2] = at[t]
    BY <1>1, <2>1
  <2>3. QED
    BY <2>1, <2>2 DEF Before, Row
<1>6. Row(t)[1] = t /\ Row(t)[2] = at[t] /\ ~(at[t] < at[t])
  BY <1>1 DEF Row
<1>7. Before(t) \subseteq RowsOf(t) /\ Row(t) \notin Before(t)
      /\ (Row(t) \in rows <=> Row(t) \in RowsOf(t))
  BY <1>6 DEF Before, RowsOf
<1>8. QED
  BY <1>1, <1>2, <1>3, <1>4, <1>5, <1>7

\* write_attachment returned.
LEMMA ReturnedCounts ==
    ASSUME CountInv, IInv', NEW t \in Turn, pc[t] \in Active \ {"put", "rename"},
           NEW k \in {0, 1}, Returned(t, k), UNCHANGED << config, count, drifted >>,
           k = 0 => rows' = rows \/ (backend = "postgres" /\ rows' = rows \cup {Row(t)}),
           k = 1 => rows' = rows \cup {Row(t)}
    PROVE  Truthful(t)'
<1> DEFINE n == Len(BlobsOf[t])
           Old == Before(t)
           New == RowsOf(t)'
<1>1. /\ at[t] \in 1 .. n /\ n \in Nat /\ count[t] = n /\ persisted[t] \in Nat
      /\ IsFiniteSet(Old) /\ Cardinality(Old) \in 0 .. at[t] - 1 /\ Row(t) \notin Old
      /\ Old \subseteq {t} \X (1 .. at[t] - 1)
      /\ persisted[t] <= Cardinality(Old)
      /\ backend = "sqlite" => persisted[t] = Cardinality(Old) /\ Row(t) \notin rows
  <2>1. ~Preparing(t)
    BY DEF Preparing
  <2>2. QED
    BY <2>1, RowSets DEF CountInv, Truthful
<1>2. /\ New = Old \/ New = Old \cup {Row(t)}
      /\ k = 1 => New = Old \cup {Row(t)}
      /\ k = 0 /\ backend = "sqlite" => New = Old
  <2> USE DEF Preparing
  <2>1. RowsOf(t) = Old \/ RowsOf(t) = Old \cup {Row(t)}
    BY RowSets
  <2>2. CASE k = 0
    <3>1. CASE rows' = rows
      <4>1. New = RowsOf(t)
        BY <3>1 DEF RowsOf
      <4>2. backend = "sqlite" => RowsOf(t) = Old
        BY <1>1, <2>1, RowSets
      <4>3. QED
        BY <2>1, <2>2, <4>1, <4>2
    <3>2. CASE backend = "postgres" /\ rows' = rows \cup {Row(t)}
      <4>1. New = RowsOf(t) \cup {Row(t)}
        BY <3>2 DEF RowsOf, Row
      <4>2. QED
        BY <2>1, <2>2, <3>2, <4>1
    <3>3. QED
      BY <2>2, <3>1, <3>2
  <2>3. CASE k = 1
    <3>1. New = RowsOf(t) \cup {Row(t)}
      BY <2>3 DEF RowsOf, Row
    <3>2. QED
      BY <2>1, <2>3, <3>1
  <2>4. QED
    BY <2>2, <2>3
<1> HIDE DEF Old, New
<1>3. Row(t) \in {t} \X (1 .. at[t])
  BY <1>1 DEF Row
<1>4. New \subseteq {t} \X (1 .. at[t])
  <2>1. Old \subseteq {t} \X (1 .. at[t])
    BY <1>1
  <2>2. QED
    BY <1>2, <1>3, <2>1
<1>5. /\ persisted' = [persisted EXCEPT ![t] = @ + k]
      /\ persisted[t] + k <= Cardinality(New)
      /\ backend = "sqlite" => persisted[t] + k = Cardinality(New)
      /\ Cardinality(New) \in Nat /\ Cardinality(New) <= at[t]
  <2>1. Cardinality(Old \cup {Row(t)}) = Cardinality(Old) + 1
    BY <1>1, FS_AddElement
  <2>2. persisted' = [persisted EXCEPT ![t] = @ + k]
    BY DEF Returned
  <2>3. CASE k = 1
    <3>1. Cardinality(New) = Cardinality(Old) + 1
      BY <1>2, <2>1, <2>3
    <3>2. QED
      BY <1>1, <2>2, <2>3, <3>1
  <2>4. CASE k = 0
    <3>1. /\ Cardinality(New) \in {Cardinality(Old), Cardinality(Old) + 1}
          /\ backend = "sqlite" => Cardinality(New) = Cardinality(Old)
      BY <1>2, <2>1, <2>4
    <3>2. QED
      BY <1>1, <2>2, <2>4, <3>1
  <2>5. QED
    BY <2>3, <2>4
<1>6. persisted'[t] = persisted[t] + k /\ count'[t] = n /\ backend' = backend
  BY <1>1, <1>5 DEF CountInv, IInv, TypeOK, config
<1>7. New \subseteq {t} \X (1 .. n) /\ Cardinality(New) <= n
  BY <1>1, <1>4, <1>5
<1>8. CASE at[t] < n
  <2>1. /\ at'[t] = at[t] + 1 /\ pc'[t] \in {"put", "insert"} /\ ~Preparing(t)'
        /\ New \subseteq {t} \X (1 .. at'[t])
    <3>1. /\ at' = [at EXCEPT ![t] = @ + 1] /\ pc' = [pc EXCEPT ![t] = First(t)]
          /\ at \in [Turn -> Nat] /\ pc \in [Turn -> Step] /\ replayed' = replayed
      BY <1>8 DEF Returned, Goto, CountInv, IInv, TypeOK, config
    <3>2. at'[t] = at[t] + 1 /\ pc'[t] = First(t)
      BY <3>1
    <3>3. pc'[t] \in {"put", "insert"} /\ ~Preparing(t)'
      BY <3>1, <3>2 DEF First, Preparing
    <3>4. New \subseteq {t} \X (1 .. at'[t])
      BY <1>1, <1>4, <3>2
    <3>5. QED
      BY <3>2, <3>3, <3>4
  <2>2. Before(t)' = New
    <3>1. \A r \in New : r[2] < at'[t]
      BY <1>1, <1>4, <2>1
    <3>2. QED
      BY <3>1 DEF Before, New
  <2>3. Row(t)' \notin rows'
    <3>1. Row(t)'[1] = t /\ Row(t)'[2] = at[t] + 1
      BY <2>1 DEF Row
    <3>2. Row(t)' \notin New
      BY <1>1, <1>4, <3>1
    <3>3. QED
      BY <3>1, <3>2 DEF New, RowsOf
  <2>4. QED
    BY <1>5, <1>6, <1>7, <2>1, <2>2, <2>3 DEF Truthful, New, Active, Trying, Removing
<1>9. CASE ~(at[t] < n)
  <2>1. at[t] = n /\ pc'[t] = IF persisted[t] + k = n THEN "done" ELSE "reconcile"
    BY <1>1, <1>9 DEF Returned, Goto, After, CountInv, IInv, TypeOK
  <2>2. persisted[t] + k = n => Cardinality(New) = n
    BY <1>1, <1>5, <1>7
  <2>3. QED
    BY <1>5, <1>6, <1>7, <2>1, <2>2 DEF Truthful, New, Preparing, Active, Trying, Removing
<1>10. QED
  BY <1>8, <1>9

\* The count of a capture that a step leaves where it is.
LEMMA SameCounts ==
    ASSUME CountInv, NEW t \in Turn, UNCHANGED config, count'[t] = count[t],
           RowsOf(t)' = RowsOf(t), persisted'[t] = persisted[t], at'[t] = at[t],
           drifted \subseteq drifted',
           \/ pc'[t] = pc[t]
           \/ pc[t] \in Active /\ pc'[t] \in Active /\ (Preparing(t)' <=> Preparing(t))
           \/ pc'[t] \in {"crashed", "done"} /\ (pc'[t] = "done" => t \in drifted')
    PROVE  Truthful(t)'
<1>1. Before(t)' = Before(t) /\ (Row(t) \in rows)' = (Row(t) \in rows)
  <2>1. Row(t)' = Row(t) /\ Row(t)[1] = t
    BY DEF Row
  <2>2. (Row(t) \in rows <=> Row(t) \in RowsOf(t)) /\ (Row(t) \in rows <=> Row(t) \in RowsOf(t))'
    BY <2>1 DEF RowsOf
  <2>3. QED
    BY <2>1, <2>2 DEF Before
<1>2. pc'[t] = pc[t] => (Preparing(t)' <=> Preparing(t))
  BY DEF Preparing, config
<1>3. pc'[t] \in {"crashed", "done"} => ~Preparing(t)'
  BY DEF Preparing
<1>4. QED
  BY <1>1, <1>2, <1>3 DEF CountInv, Truthful, Active, Trying, Removing, config

LEMMA CountStep ==
    ASSUME CountInv, IInv', NEW t \in Turn, Progress(t) \/ Crash(t)
    PROVE  \A u \in Turn : Truthful(u)'
<1> USE DEF Goto
<1>1. TypeOK
  BY DEF CountInv, IInv
<1>2. UNCHANGED config
  BY DEF Progress, Crash, WriteTurn, WriteTurnFails, PutNothing, PutFinds, PutCreates, PutRenames,
     PutUploads, PutFails, InsertPlain, Probe, LockBlob, CommitRow, CommitUnanswered,
     InsertFails, DeadLetter, DeadLetterFails, LockForDelete, CountReferences,
     DeleteObject, DeleteFails, Reconcile, ReconcileFails
<1>3. ASSUME NEW u \in Turn, u # t PROVE Truthful(u)'
  <2>1. /\ rows' \in {rows, rows \cup {Row(t)}} /\ drifted \subseteq drifted'
        /\ pc'[u] = pc[u] /\ at'[u] = at[u] /\ persisted'[u] = persisted[u]
        /\ count'[u] = count[u]
    <3>1. rows' \in {rows, rows \cup {Row(t)}} /\ drifted \subseteq drifted'
      BY DEF Progress, Crash, WriteTurn, WriteTurnFails, PutNothing, PutFinds, PutCreates, PutRenames,
       PutUploads, PutFails, InsertPlain, Probe, LockBlob, CommitRow, CommitUnanswered,
       InsertFails, DeadLetter, DeadLetterFails, LockForDelete, CountReferences,
       DeleteObject, DeleteFails, Reconcile, ReconcileFails, Stored, NextPut, AttemptFails, Returned,
       tables, local
    <3>2. pc'[u] = pc[u] /\ count'[u] = count[u]
      BY <1>1, <1>3
      DEF Progress, Crash, WriteTurn, WriteTurnFails, PutNothing, PutFinds, PutCreates, PutRenames,
       PutUploads, PutFails, InsertPlain, Probe, LockBlob, CommitRow, CommitUnanswered,
       InsertFails, DeadLetter, DeadLetterFails, LockForDelete, CountReferences,
       DeleteObject, DeleteFails, Reconcile, ReconcileFails, Stored, NextPut, AttemptFails, Returned,
       tables, local, TypeOK
    <3>3. at'[u] = at[u] /\ persisted'[u] = persisted[u]
      BY <1>1, <1>3
      DEF Progress, Crash, WriteTurn, WriteTurnFails, PutNothing, PutFinds, PutCreates, PutRenames,
       PutUploads, PutFails, InsertPlain, Probe, LockBlob, CommitRow, CommitUnanswered,
       InsertFails, DeadLetter, DeadLetterFails, LockForDelete, CountReferences,
       DeleteObject, DeleteFails, Reconcile, ReconcileFails, Stored, NextPut, AttemptFails, Returned,
       tables, local, TypeOK
    <3>4. QED
      BY <3>1, <3>2, <3>3
  <2>2. RowsOf(u)' = RowsOf(u)
    BY <1>3, <2>1 DEF RowsOf, Row
  <2>3. QED
    BY <1>2, <2>1, <2>2, SameCounts
<1>4. ASSUME WriteTurn(t)
       PROVE  Truthful(t)'
  <2>1. /\ pc[t] = "turn" /\ count'[t] = Len(BlobsOf[t]) /\ UNCHANGED << rows, persisted, at >>
        /\ pc'[t] \in {"put", "insert", "done"} /\ ~Preparing(t)'
        /\ pc'[t] = "done" <=> BlobsOf[t] = << >>
    BY <1>1, <1>2, <1>4 DEF WriteTurn, First, Preparing, local, config, TypeOK
  <2>2. RowsOf(t) = {} /\ RowsOf(t)' = {} /\ Before(t)' = {} /\ persisted[t] = 0
    BY <2>1 DEF CountInv, Truthful, RowsOf, Before
  <2>3. Row(t)' \notin rows'
    BY <2>2 DEF Row, RowsOf
  <2>4. Cardinality({}) = 0 /\ Len(BlobsOf[t]) \in Nat /\ (BlobsOf[t] = << >> <=> Len(BlobsOf[t]) = 0)
    BY FS_EmptySet
  <2>5. QED
    BY <2>1, <2>2, <2>3, <2>4 DEF Truthful, Active, Trying, Removing
<1>5. ASSUME WriteTurnFails(t)
       PROVE  Truthful(t)'
  <2>1. /\ pc[t] = "turn" /\ UNCHANGED << rows, persisted, at >>
        /\ pc'[t] = "done" /\ t \in drifted'
    BY <1>1, <1>5 DEF WriteTurnFails, local, TypeOK
  <2>2. RowsOf(t)' = {}
    BY <2>1 DEF CountInv, Truthful, RowsOf
  <2>3. Cardinality({}) = 0 /\ count'[t] \in Nat
    BY FS_EmptySet DEF IInv, TypeOK
  <2>4. QED
    BY <2>1, <2>2, <2>3 DEF Truthful, Preparing, Active, Trying, Removing
<1>6. ASSUME PutNothing(t) \/ PutFinds(t) \/ PutCreates(t) \/ PutRenames(t) \/ PutUploads(t)
             \/ PutFails(t) \/ Probe(t) \/ LockBlob(t) \/ InsertFails(t) \/ LockForDelete(t)
       PROVE  Truthful(t)'
  <2>1. UNCHANGED << rows, count, drifted >> /\ RowsOf(t)' = RowsOf(t) /\ pc[t] \in Active
    BY <1>6 DEF PutNothing, PutFinds, PutCreates, PutRenames, PutUploads, PutFails, Probe,
       LockBlob, InsertFails, LockForDelete, tables, RowsOf, Active, Trying, Removing
  <2>2. CASE t \notin replayed
    <3>1. pc'[t] \in Active /\ UNCHANGED << at, persisted >>
      BY <1>1, <1>6, <2>2 DEF PutNothing, PutFinds, PutCreates, PutRenames, PutUploads, PutFails,
         Probe, LockBlob, InsertFails, LockForDelete, Stored, AttemptFails, Active, Trying,
         Removing, TypeOK, local
    <3>2. ~Preparing(t) /\ ~Preparing(t)'
      BY <1>2, <2>2 DEF Preparing, config
    <3>3. QED
      BY <1>2, <2>1, <3>1, <3>2, SameCounts
  <2>3. CASE t \in replayed /\ pc[t] \in {"put", "rename"}
    <3>1. pc'[t] \in {"put", "rename", "turn"} /\ UNCHANGED persisted
      BY <1>1, <1>6, <2>3 DEF PutNothing, PutFinds, PutCreates, PutRenames, PutUploads, PutFails,
         Probe, LockBlob, InsertFails, LockForDelete, Stored, NextPut, TypeOK, local
    <3>2. RowsOf(t)' = {} /\ persisted'[t] = 0
      BY <2>1, <2>3, <3>1 DEF CountInv, Truthful, Preparing
    <3>3. pc'[t] = "turn" \/ Preparing(t)'
      BY <1>2, <2>3, <3>1 DEF Preparing, config
    <3>4. Cardinality({}) = 0 /\ count'[t] \in Nat
      BY FS_EmptySet DEF IInv, TypeOK
    <3>5. QED
      BY <3>1, <3>2, <3>3, <3>4 DEF Truthful, Active, Trying, Removing
  <2>4. CASE t \in replayed /\ pc[t] \notin {"put", "rename"}
    <3>1. InsertFails(t)
      BY <1>6, <2>4 DEF PutNothing, PutFinds, PutCreates, PutRenames, PutUploads, PutFails,
         Probe, Plain, LockBlob, LockForDelete, CountInv, IInv, Fine, Sized, Removing
    <3>2. Returned(t, 0)
      BY <2>4, <3>1 DEF InsertFails, AttemptFails
    <3>3. QED
      BY <1>2, <2>1, <2>4, <3>2, ReturnedCounts
  <2>5. QED
    BY <2>2, <2>3, <2>4
<1>7. ASSUME InsertPlain(t) \/ CommitRow(t)
       PROVE  Truthful(t)'
  <2>1. /\ pc[t] \in Active \ {"put", "rename"} /\ Returned(t, 1)
        /\ rows' = rows \cup {Row(t)} /\ UNCHANGED << count, drifted >>
    BY <1>7 DEF InsertPlain, CommitRow, Active, Trying
  <2>2. QED
    BY <1>2, <2>1, ReturnedCounts
<1>8. ASSUME CommitUnanswered(t)
       PROVE  Truthful(t)'
  <2>1. CASE t \in replayed
    <3>1. /\ backend = "postgres" /\ rows' = rows \cup {Row(t)} /\ Returned(t, 0)
          /\ UNCHANGED << count, drifted >> /\ pc[t] \in Active \ {"put", "rename"}
      BY <1>8, <2>1 DEF CommitUnanswered, AttemptFails, Active, Trying
    <3>2. QED
      BY <1>2, <3>1, ReturnedCounts
  <2>2. CASE t \notin replayed
    <3>1. /\ backend = "postgres" /\ rows' = rows \cup {Row(t)}
          /\ UNCHANGED << count, drifted, at, persisted >>
          /\ pc[t] \in {"locked", "insert"} /\ pc'[t] \in {"letter", "insert"}
      BY <1>1, <1>8, <2>2 DEF CommitUnanswered, AttemptFails, TypeOK
    <3>2. pc[t] \in Active /\ pc'[t] \in Active /\ ~Preparing(t) /\ ~Preparing(t)'
      BY <1>2, <2>2, <3>1 DEF Active, Trying, Preparing, config
    <3>3. RowsOf(t)' = Before(t) \cup {Row(t)}
      <4>1. RowsOf(t)' = RowsOf(t) \cup {Row(t)}
        BY <3>1 DEF RowsOf, Row
      <4>2. QED
        BY <3>2, <4>1, RowSets
    <3>4. Before(t)' = Before(t)
      <4>1. Row(t)[2] = at[t] /\ at[t] \in Nat /\ ~(at[t] < at[t])
        BY <1>1 DEF Row, TypeOK
      <4>2. Before(t)' = {r \in Before(t) \cup {Row(t)} : r[2] < at[t]}
        BY <3>1, <3>3 DEF Before
      <4>3. \A r \in Before(t) : r[2] < at[t]
        BY DEF Before
      <4>4. QED
        BY <4>1, <4>2, <4>3
    <3>5. /\ Before(t) \cup {Row(t)} \subseteq {t} \X (1 .. at[t])
          /\ at[t] <= Len(BlobsOf[t]) /\ at[t] \in Nat /\ Len(BlobsOf[t]) \in Nat
      <4>1. at[t] \in 1 .. Len(BlobsOf[t]) /\ Before(t) \subseteq {t} \X (1 .. at[t] - 1)
        BY <3>2, RowSets
      <4>2. QED
        BY <4>1, Hashes DEF Row
    <3>6. /\ Before(t) \cup {Row(t)} \subseteq {t} \X (1 .. Len(BlobsOf[t]))
          /\ Cardinality(Before(t) \cup {Row(t)}) <= Len(BlobsOf[t])
      <4>1. 1 .. at[t] \subseteq 1 .. Len(BlobsOf[t])
        BY <3>5
      <4>2. Before(t) \cup {Row(t)} \subseteq {t} \X (1 .. Len(BlobsOf[t]))
        BY <3>5, <4>1
      <4>3. QED
        BY <3>5, <4>2, RowsBounded
    <3>7. count[t] = Len(BlobsOf[t]) /\ persisted[t] <= Cardinality(Before(t))
      BY <3>2 DEF CountInv, Truthful
    <3>8. backend' = "postgres"
      BY <1>2, <3>1 DEF config
    <3>9. QED
      BY <3>1, <3>2, <3>3, <3>4, <3>5, <3>6, <3>7, <3>8 DEF Truthful, Active, Trying, Removing
  <2>3. QED
    BY <2>1, <2>2
<1>9. ASSUME DeadLetter(t) \/ DeadLetterFails(t) \/ CountReferences(t) \/ DeleteObject(t)
             \/ DeleteFails(t)
       PROVE  Truthful(t)'
  <2>1. /\ pc[t] \in Active \ {"put", "rename"}
        /\ UNCHANGED << rows, count, drifted >>
    BY <1>9 DEF DeadLetter, DeadLetterFails, CountReferences, DeleteObject, DeleteFails,
       Active, Removing, tables
  <2>2. CASE Returned(t, 0)
    BY <1>2, <2>1, <2>2, ReturnedCounts
  <2>3. CASE UNCHANGED local /\ pc' \in {[pc EXCEPT ![t] = "unrefer"], [pc EXCEPT ![t] = "delete"]}
    <3>1. pc'[t] \in Active /\ UNCHANGED << at, persisted >> /\ ~Preparing(t) /\ ~Preparing(t)'
      BY <1>1, <2>1, <2>3 DEF Active, Removing, Preparing, local, TypeOK
    <3>2. RowsOf(t)' = RowsOf(t)
      BY <2>1 DEF RowsOf
    <3>3. QED
      BY <1>2, <2>1, <3>1, <3>2, SameCounts
  <2>4. QED
    BY <1>9, <2>2, <2>3 DEF DeadLetter, DeadLetterFails, CountReferences, DeleteObject,
       DeleteFails
<1>10. ASSUME Reconcile(t)
       PROVE  Truthful(t)'
  <2>1. /\ pc[t] = "reconcile" /\ pc'[t] = "done" /\ backend = "sqlite"
        /\ count'[t] = persisted[t] /\ UNCHANGED rows
    BY <1>1, <1>10 DEF Reconcile, Corrected, TypeOK
  <2>2. RowsOf(t)' = RowsOf(t) /\ persisted[t] = Cardinality(RowsOf(t)) /\ persisted[t] \in Nat
    BY <1>1, <2>1 DEF CountInv, Truthful, RowsOf, TypeOK
  <2>3. RowsOf(t) \subseteq {t} \X (1 .. Len(BlobsOf[t]))
    BY DEF CountInv, Truthful
  <2>4. QED
    BY <2>1, <2>2, <2>3 DEF Truthful, Preparing, Active, Trying, Removing
<1>11. ASSUME ReconcileFails(t) \/ Crash(t)
       PROVE  Truthful(t)'
  <2>1. /\ UNCHANGED << rows, count, at, persisted >> /\ drifted \subseteq drifted'
        /\ pc'[t] \in {"crashed", "done"} /\ (pc'[t] = "done" => t \in drifted')
    BY <1>1, <1>11 DEF ReconcileFails, Crash, tables, local, TypeOK
  <2>2. RowsOf(t)' = RowsOf(t)
    BY <2>1 DEF RowsOf
  <2>3. QED
    BY <1>2, <2>1, <2>2, SameCounts
<1>12. QED
  BY <1>3, <1>4, <1>5, <1>6, <1>7, <1>8, <1>9, <1>10, <1>11 DEF Progress

\* attachment_count is never below the number of rows of the turn and exact when
\* the capture is done and its correction did not fail, for any turns,
\* attachments, retries, crashes and lost answers (reconcile_turn_attachment_count).
THEOREM CountStaysTrue == Spec => []CountIsTrue
<1>1. Init => CountInv
  <2> SUFFICES ASSUME Init PROVE CountInv
    OBVIOUS
  <2>1. \A t \in Turn : /\ RowsOf(t) = {} /\ persisted[t] = 0 /\ count[t] = 0
                        /\ pc[t] = "turn" \/ (pc[t] = "put" /\ Preparing(t))
    BY DEF Init, RowsOf, Preparing
  <2>2. Cardinality({}) = 0
    BY FS_EmptySet
  <2>3. ASSUME NEW t \in Turn PROVE Truthful(t)
    <3>1. /\ RowsOf(t) = {} /\ Cardinality(RowsOf(t)) = 0
          /\ pc[t] = "turn" \/ (pc[t] = "put" /\ Preparing(t))
          /\ persisted[t] = 0 /\ count[t] = 0
      BY <2>1, <2>2
    <3>2. QED
      BY <3>1 DEF Truthful, Active, Trying, Removing
  <2>4. QED
    BY <2>3, InitInv DEF CountInv
<1>2. ASSUME CountInv, [Next]_vars PROVE CountInv'
  <2>1. IInv'
    BY <1>2, StepInv DEF CountInv
  <2>2. CASE UNCHANGED vars
    <3>1. \A t \in Turn : Truthful(t)'
      <4> TAKE t \in Turn
      <4>1. UNCHANGED << backend, store, replayed, rows, count, drifted, pc, at, persisted >>
        BY <2>2 DEF vars, config, tables, local
      <4>2. RowsOf(t)' = RowsOf(t)
        BY <4>1 DEF RowsOf
      <4>3. QED
        BY <1>2, <4>1, <4>2, SameCounts DEF config
    <3>2. QED
      BY <2>1, <3>1 DEF CountInv
  <2>3. CASE Next
    BY <1>2, <2>1, <2>3, CountStep DEF CountInv, Next
  <2>4. QED
    BY <1>2, <2>2, <2>3
<1>3. CountInv => CountIsTrue
  BY DEF CountInv, Truthful, CountIsTrue
<1>4. QED
  BY <1>1, <1>2, <1>3, PTL DEF Spec
=============================================================================
