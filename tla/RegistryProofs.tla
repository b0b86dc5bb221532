--------------------------- MODULE RegistryProofs ---------------------------
(***************************************************************************)
(* Proofs about RegistryHistory for any clients, instruments, names,       *)
(* default book and prune requests.                                        *)
(***************************************************************************)
EXTENDS RegistryHistory, TLAPS, SequenceTheorems

-----------------------------------------------------------------------------
(* The table: Insert and Delete keep its rows distinct and change the set  *)
(* of tracked instruments as their names say.                              *)

Distinct(s) == \A m, n \in DOMAIN s : s[m] = s[n] => m = n
Rows(s) == {s[n] : n \in DOMAIN s}
TableOK == rows \in Seq(Items) /\ Distinct(rows)

\* A sequence without its element at p.
LEMMA CutAt ==
    ASSUME NEW S, NEW q \in Seq(S), NEW p \in 1 .. Len(q),
           NEW s, s = SubSeq(q, 1, p - 1) \o SubSeq(q, p + 1, Len(q))
    PROVE  /\ s \in Seq(S)
           /\ DOMAIN s = 1 .. Len(q) - 1
           /\ \A n \in 1 .. p - 1 : s[n] = q[n]
           /\ \A n \in p .. Len(q) - 1 : s[n] = q[n + 1]
  <1> DEFINE a == SubSeq(q, 1, p - 1)
             b == SubSeq(q, p + 1, Len(q))
  <1>1. Len(q) \in Int /\ p \in Int /\ \A n \in 1 .. Len(q) : q[n] \in S
    OBVIOUS
  <1>2. /\ a \in Seq(S)
        /\ Len(a) = IF 1 <= p - 1 THEN p - 1 - 1 + 1 ELSE 0
        /\ \A n \in 1 .. p - 1 - 1 + 1 : a[n] = q[1 + n - 1]
    <2>1. p - 1 \in Int /\ \A n \in 1 .. p - 1 : q[n] \in S
      BY <1>1
    <2> QED
      BY <2>1, SubSeqProperties
  <1>3. /\ b \in Seq(S)
        /\ Len(b) = IF p + 1 <= Len(q) THEN Len(q) - (p + 1) + 1 ELSE 0
        /\ \A n \in 1 .. Len(q) - (p + 1) + 1 : b[n] = q[p + 1 + n - 1]
    <2>1. p + 1 \in Int /\ \A n \in p + 1 .. Len(q) : q[n] \in S
      BY <1>1
    <2> QED
      BY <1>1, <2>1, SubSeqProperties
  <1>4. s = a \o b
    OBVIOUS
  <1> HIDE DEF a, b
  <1>5. /\ s \in Seq(S)
        /\ Len(s) = Len(a) + Len(b)
        /\ \A n \in 1 .. Len(a) + Len(b) :
              s[n] = IF n <= Len(a) THEN a[n] ELSE b[n - Len(a)]
    BY ONLY <1>2, <1>3, <1>4, ConcatProperties
  <1>6. Len(a) = p - 1 /\ Len(b) = Len(q) - p
    BY <1>1, <1>2, <1>3
  <1>7. DOMAIN s = 1 .. Len(q) - 1
    <2>1. DOMAIN s = 1 .. Len(s) /\ Len(s) = Len(q) - 1
      BY ONLY <1>1, <1>5, <1>6
    <2> QED
      BY <2>1
  <1>8. ASSUME NEW n \in 1 .. p - 1 PROVE s[n] = q[n]
    <2>1. s[n] = a[n]
      BY ONLY n \in 1 .. p - 1, <1>1, <1>5, <1>6, p \in 1 .. Len(q)
    <2>2. 1 + n - 1 = n /\ n \in 1 .. p - 1 - 1 + 1
      BY <1>1
    <2> QED
      BY <1>2, <2>1, <2>2
  <1>9. ASSUME NEW n \in p .. Len(q) - 1 PROVE s[n] = q[n + 1]
    <2>1. s[n] = b[n - (p - 1)]
      <3>1. n \in 1 .. Len(a) + Len(b) /\ ~ n <= Len(a) /\ n - Len(a) = n - (p - 1)
        BY <1>1, <1>6
      <3> QED
        BY <1>5, <3>1
    <2>2. n - (p - 1) \in 1 .. Len(q) - (p + 1) + 1 /\ p + 1 + (n - (p - 1)) - 1 = n + 1
      BY <1>1
    <2> QED
      BY <1>3, <2>1, <2>2
  <1> QED
    BY <1>5, <1>7, <1>8, <1>9

LEMMA InsertTable ==
    ASSUME TableOK, NEW i \in Items
    PROVE  /\ Insert(i) \in Seq(Items)
           /\ Distinct(Insert(i))
           /\ Rows(Insert(i)) = Tracked \cup {i}
  <1>1. CASE i \in Tracked
    BY <1>1 DEF TableOK, Insert, Rows, Tracked, Distinct
  <1>2. CASE i \notin Tracked
    <2> DEFINE s == Append(rows, i)
    <2>1. Insert(i) = s
      BY <1>2 DEF Insert
    <2>2. /\ s \in Seq(Items)
          /\ Len(s) = Len(rows) + 1
          /\ \A n \in 1 .. Len(rows) : s[n] = rows[n]
          /\ s[Len(rows) + 1] = i
          /\ DOMAIN s = 1 .. Len(rows) + 1
          /\ DOMAIN rows = 1 .. Len(rows)
          /\ Len(rows) \in Nat
      BY DEF TableOK
    <2> HIDE DEF s
    <2>3. Rows(s) = Tracked \cup {i}
      <3>1. Rows(s) \subseteq Tracked \cup {i}
        BY <2>2 DEF Rows, Tracked
      <3>2. Tracked \subseteq Rows(s)
        <4> SUFFICES ASSUME NEW n \in DOMAIN rows PROVE rows[n] \in Rows(s)
          BY DEF Tracked
        <4>1. n \in DOMAIN s /\ s[n] = rows[n]
          BY <2>2
        <4> QED
          BY <4>1 DEF Rows
      <3>3. i \in Rows(s)
        BY <2>2 DEF Rows
      <3> QED
        BY <3>1, <3>2, <3>3
    <2>4. Distinct(s)
      <3> SUFFICES ASSUME NEW m \in DOMAIN s, NEW n \in DOMAIN s, s[m] = s[n] PROVE m = n
        BY DEF Distinct
      <3>1. \A k \in 1 .. Len(rows) : s[k] # i
        BY <1>2, <2>2 DEF Tracked
      <3> QED
        BY <2>2, <3>1 DEF TableOK, Distinct
    <2> QED
      BY <2>1, <2>2, <2>3, <2>4
  <1> QED
    BY <1>1, <1>2

LEMMA DeleteTable ==
    ASSUME TableOK, NEW i \in Items
    PROVE  /\ Delete(i) \in Seq(Items)
           /\ Distinct(Delete(i))
           /\ Rows(Delete(i)) = Tracked \ {i}
  <1>1. CASE i \notin Tracked
    BY <1>1 DEF TableOK, Delete, Rows, Tracked, Distinct
  <1>2. CASE i \in Tracked
    <2> DEFINE p == CHOOSE n \in DOMAIN rows : rows[n] = i
               s == SubSeq(rows, 1, p - 1) \o SubSeq(rows, p + 1, Len(rows))
    <2>1. Delete(i) = s
      BY <1>2 DEF Delete
    <2>2. p \in DOMAIN rows /\ rows[p] = i
      BY <1>2 DEF Tracked
    <2> HIDE DEF p
    <2>3. DOMAIN rows = 1 .. Len(rows) /\ Len(rows) \in Nat /\ p \in 1 .. Len(rows)
      BY <2>2 DEF TableOK
    <2>6. /\ s \in Seq(Items)
          /\ DOMAIN s = 1 .. Len(rows) - 1
          /\ \A n \in 1 .. p - 1 : s[n] = rows[n]
          /\ \A n \in p .. Len(rows) - 1 : s[n] = rows[n + 1]
      BY ZenonT(60), <2>3, CutAt DEF TableOK
    <2> HIDE DEF s
    <2>7. Distinct(s)
      <3> SUFFICES ASSUME NEW m \in DOMAIN s, NEW n \in DOMAIN s, s[m] = s[n] PROVE m = n
        BY DEF Distinct
      <3> DEFINE from(k) == IF k < p THEN k ELSE k + 1
      <3>1. \A k \in DOMAIN s : from(k) \in DOMAIN rows /\ s[k] = rows[from(k)]
        BY <2>3, <2>6
      <3>2. from(m) = from(n)
        BY <3>1 DEF TableOK, Distinct
      <3> QED
        BY <2>3, <2>6, <3>2
    <2>8. Rows(s) = Tracked \ {i}
      <3>1. ASSUME NEW n \in DOMAIN s PROVE s[n] \in Tracked \ {i}
        <4>1. CASE n \in 1 .. p - 1
          BY <4>1, <2>2, <2>3, <2>6 DEF Tracked, TableOK, Distinct
        <4>2. CASE n \in p .. Len(rows) - 1
          <5>1. n + 1 \in DOMAIN rows /\ n + 1 # p /\ s[n] = rows[n + 1]
            BY <4>2, <2>3, <2>6
          <5> QED
            BY <5>1, <2>2 DEF Tracked, TableOK, Distinct
        <4> QED
          BY <4>1, <4>2, <2>3, <2>6
      <3>2. ASSUME NEW n \in DOMAIN rows, rows[n] # i PROVE rows[n] \in Rows(s)
        <4>1. CASE n < p
          <5>1. n \in DOMAIN s /\ s[n] = rows[n]
            BY <4>1, <2>3, <2>6
          <5> QED
            BY <5>1 DEF Rows
        <4>2. CASE n > p
          <5>1. n - 1 \in DOMAIN s /\ s[n - 1] = rows[n]
            BY <4>2, <2>3, <2>6
          <5> QED
            BY <5>1 DEF Rows
        <4>3. n # p
          BY <3>2, <2>2
        <4> QED
          BY <4>1, <4>2, <4>3, <2>3
      <3> QED
        BY <3>1, <3>2 DEF Rows, Tracked
    <2> QED
      BY <2>1, <2>6, <2>7, <2>8
  <1> QED
    BY <1>1, <1>2

-----------------------------------------------------------------------------
(* What every step keeps.                                                  *)

\* ensure_default_book adds only what is in the book.
AddsFromBook == \A c \in Clients : pc[c] = "adding" => pos[c] \in DOMAIN Book

LEMMA BookFacts ==
    /\ DOMAIN Book = 1 .. Len(Book)
    /\ Len(Book) \in Nat
    /\ \A n \in DOMAIN Book : Book[n].item \in Items /\ Book[n].ref \in Refs
  <1>1. DOMAIN Book = 1 .. Len(Book) /\ Len(Book) \in Nat
    BY BookAssumption
  <1>2. ASSUME NEW n \in DOMAIN Book PROVE Book[n] \in [ref : Refs, item : Items]
    BY <1>1, BookAssumption, ElementOfSeq
  <1> QED
    BY <1>1, <1>2

LEMMA TableFromType == TypeOK => TableOK
  BY DEF TypeOK, TableOK, Distinct

LEMMA ReportedType ==
    ASSUME NEW i \in Items
    PROVE  Reported(i) \in Seq(Items)
  BY DEF Reported

LEMMA NoTargetType == NoTarget \in [Clients -> Items]
  BY NamesAssumption DEF NoTarget

LEMMA InitTypes == Init => TypeOK /\ AddsFromBook
  BY BookFacts, NoTargetType, MaxCrashesAssumption
  DEF Init, TypeOK, AddsFromBook, AllIdle, AtStart, Nothing, Resting, Working

LEMMA ServerTypes ==
    ASSUME TypeOK, AddsFromBook, Boot \/ SeedOne \/ SeedEnds \/ Crash
    PROVE  TypeOK' /\ AddsFromBook'
  <1>1. CASE Boot
    BY <1>1, BookFacts DEF Boot, TypeOK, AddsFromBook, local
  <1>2. CASE SeedOne
    <2>1. Book[seedAt].item \in Items /\ seedAt' \in 1 .. Len(Book) + 1
      <3>1. seedAt \in 1 .. Len(Book) /\ seedAt' = seedAt + 1
        BY <1>2, BookFacts DEF SeedOne, TypeOK
      <3> QED
        BY <3>1, BookFacts
    <2>2. rows' \in Seq(Items) /\ Distinct(rows')
      BY <1>2, <2>1, TableFromType, InsertTable DEF SeedOne
    <2> QED
      BY <1>2, <2>1, <2>2 DEF SeedOne, TypeOK, AddsFromBook, local, Distinct
  <1>3. CASE SeedEnds
    BY <1>3 DEF SeedEnds, TypeOK, AddsFromBook, local
  <1>4. CASE Crash
    BY <1>4, NoTargetType, MaxCrashesAssumption
    DEF Crash, TypeOK, AddsFromBook, AllIdle, AtStart, Nothing, Resting, Working
  <1> QED
    BY <1>1, <1>2, <1>3, <1>4

LEMMA RequestTypes ==
    ASSUME TypeOK, AddsFromBook, NEW c \in Clients, Request(c)
    PROVE  TypeOK' /\ AddsFromBook'
  <1> USE DEF Accept, Resting, Working
  <1>1. ASSUME NEW i \in Items, AddOne(c, i) PROVE TypeOK' /\ AddsFromBook'
    <2>1. rows' \in Seq(Items) /\ Distinct(rows')
      BY <1>1, TableFromType, InsertTable DEF AddOne
    <2> QED
      BY <1>1, <2>1 DEF AddOne, TypeOK, AddsFromBook, Distinct
  <1>2. ASSUME NEW i \in Items, RemoveOne(c, i) PROVE TypeOK' /\ AddsFromBook'
    <2>1. rows' \in Seq(Items) /\ Distinct(rows')
      BY <1>2, TableFromType, DeleteTable DEF RemoveOne
    <2> QED
      BY <1>2, <2>1, ReportedType DEF RemoveOne, TypeOK, AddsFromBook, Distinct
  <1>3. CASE Ensure(c)
    BY <1>3 DEF Ensure, TypeOK, AddsFromBook
  <1>4. ASSUME NEW rs \in Prunes, Prune(c, rs) PROVE TypeOK' /\ AddsFromBook'
    BY <1>4, PrunesAssumption DEF Prune, TypeOK, AddsFromBook
  <1> QED
    BY <1>1, <1>2, <1>3, <1>4 DEF Request

LEMMA EndTypes ==
    ASSUME TypeOK, AddsFromBook, NEW c \in Clients, NEW how \in Resting, End(c, how)
    PROVE  TypeOK' /\ AddsFromBook'
  <1>1. /\ pc' \in [Clients -> Resting \cup Working]
        /\ pos' \in [Clients -> Nat \ {0}]
        /\ refs' \in [Clients -> Seq(Refs)]
    BY DEF End, TypeOK
  <1>2. target' \in [Clients -> Items]
    BY NoTargetType DEF End, TypeOK
  <1>3. AddsFromBook'
    BY DEF End, TypeOK, AddsFromBook, Resting
  <1> QED
    BY <1>1, <1>2, <1>3 DEF End, TypeOK

LEMMA ProceedTypes ==
    ASSUME TypeOK, AddsFromBook, NEW c \in Clients, Proceed(c)
    PROVE  TypeOK' /\ AddsFromBook'
  <1>1. CASE EnsureCheck(c)
    <2>1. \/ pos' = [pos EXCEPT ![c] = pos[c] + 1] /\ pc' = pc
          \/ pos' = pos /\ pc' = [pc EXCEPT ![c] = "adding"]
      BY <1>1 DEF EnsureCheck
    <2>2. /\ pc' \in [Clients -> Resting \cup Working]
          /\ pos' \in [Clients -> Nat \ {0}]
      <3>1. pos[c] + 1 \in Nat \ {0}
        BY DEF TypeOK
      <3>2. pc' \in [Clients -> Resting \cup Working]
        BY <2>1 DEF TypeOK, Working
      <3>3. pos' \in [Clients -> Nat \ {0}]
        BY <2>1, <3>1 DEF TypeOK
      <3> QED
        BY <3>2, <3>3
    <2>3. AddsFromBook'
      <3>1. pc[c] = "checking" /\ pos[c] \in DOMAIN Book
        BY <1>1, BookFacts DEF EnsureCheck, TypeOK
      <3> QED
        BY <2>1, <3>1 DEF TypeOK, AddsFromBook
    <2> QED
      BY <1>1, <2>2, <2>3 DEF EnsureCheck, TypeOK
  <1>2. CASE EnsureAdd(c)
    <2>1. Book[pos[c]].item \in Items
      BY <1>2, BookFacts DEF EnsureAdd, AddsFromBook
    <2>2. rows' \in Seq(Items) /\ Distinct(rows')
      BY <1>2, <2>1, TableFromType, InsertTable DEF EnsureAdd
    <2>3. added' \in [Clients -> Seq(Items)]
      BY <1>2, <2>1 DEF EnsureAdd, TypeOK
    <2> QED
      BY <1>2, <2>2, <2>3 DEF EnsureAdd, TypeOK, AddsFromBook, Distinct, Resting, Working
  <1>3. CASE PruneGet(c)
    <2>1. pc' \in [Clients -> Resting \cup Working]
      BY <1>3 DEF PruneGet, TypeOK, Working
    <2>2. \A r : ById(r) \subseteq Items
      BY DEF ById, Tracked, TypeOK
    <2>3. target' \in [Clients -> Items]
      <3>1. target' = target \/ \E i \in Items : target' = [target EXCEPT ![c] = i]
        BY <1>3, <2>2 DEF PruneGet
      <3> QED
        BY ONLY <3>1, TypeOK DEF TypeOK
    <2>4. AddsFromBook'
      BY <1>3 DEF PruneGet, TypeOK, AddsFromBook
    <2> QED
      BY <1>3, <2>1, <2>3, <2>4 DEF PruneGet, TypeOK
  <1>4. CASE PruneMatch(c)
    <2>1. \A r : \A n \in Oldest(r) : rows[n] \in Items
      BY DEF Oldest, Matches, TypeOK
    <2>5. \/ /\ \E i \in Items : target' = [target EXCEPT ![c] = i]
             /\ pos' = pos /\ pc' = [pc EXCEPT ![c] = "deleting"]
          \/ /\ target' = target
             /\ pos' = [pos EXCEPT ![c] = pos[c] + 1]
             /\ pc' = [pc EXCEPT ![c] = "getting"]
      BY <1>4, <2>1 DEF PruneMatch
    <2>2. /\ pc' \in [Clients -> Resting \cup Working]
          /\ pos' \in [Clients -> Nat \ {0}]
      <3>1. pos[c] + 1 \in Nat \ {0}
        BY DEF TypeOK
      <3>2. pc' \in [Clients -> Resting \cup Working]
        BY <2>5 DEF TypeOK, Working
      <3>3. pos' \in [Clients -> Nat \ {0}]
        BY <2>5, <3>1 DEF TypeOK
      <3> QED
        BY <3>2, <3>3
    <2>3. target' \in [Clients -> Items]
      BY ONLY <2>5, TypeOK DEF TypeOK
    <2>4. AddsFromBook'
      BY <1>4 DEF PruneMatch, TypeOK, AddsFromBook
    <2> QED
      BY <1>4, <2>2, <2>3, <2>4 DEF PruneMatch, TypeOK
  <1>5. CASE PruneDelete(c)
    <2>1. target[c] \in Items
      BY DEF TypeOK
    <2>2. rows' \in Seq(Items) /\ Distinct(rows')
      BY <1>5, <2>1, TableFromType, DeleteTable DEF PruneDelete
    <2>3. removed' \in [Clients -> Seq(Items)]
      BY <1>5, <2>1, ReportedType DEF PruneDelete, TypeOK
    <2> QED
      BY <1>5, <2>2, <2>3, NoTargetType
      DEF PruneDelete, TypeOK, AddsFromBook, Distinct, Resting, Working
  <1>6. CASE EnsureReply(c) \/ PruneReply(c) \/ Fail(c)
    BY <1>6, EndTypes DEF EnsureReply, PruneReply, Fail, Resting
  <1> QED
    BY <1>1, <1>2, <1>3, <1>4, <1>5, <1>6 DEF Proceed

-----------------------------------------------------------------------------
(* Every step has its reply list as removed exactly what it deleted.       *)

LEMMA TrackedNext == Tracked' = Rows(rows')
  BY DEF Tracked, Rows

LEMMA InsertTracked ==
    ASSUME TypeOK, NEW i \in Items, rows' = Insert(i)
    PROVE  Tracked' = Tracked \cup {i}
  BY TableFromType, InsertTable, TrackedNext

LEMMA DeleteTracked ==
    ASSUME TypeOK, NEW i \in Items, rows' = Delete(i)
    PROVE  Tracked' = Tracked \ {i}
  BY TableFromType, DeleteTable, TrackedNext

LEMMA SameTracked == rows' = rows => Tracked' = Tracked
  BY DEF Tracked

LEMMA RequestClaims ==
    ASSUME TypeOK, NEW c \in Clients, Request(c)
    PROVE  SaidRemoved(c, TRUE) = Deleted
  <1>0. SaidRemoved(c, TRUE) = {removed'[c][n] : n \in 1 .. Len(removed'[c])}
    BY DEF SaidRemoved
  <1>1. ASSUME removed'[c] = <<>> PROVE SaidRemoved(c, TRUE) = {}
    <2>1. 1 .. Len(removed'[c]) = {}
      BY <1>1
    <2> QED
      BY ONLY <1>0, <2>1
  <1>2. ASSUME NEW i \in Items, AddOne(c, i) PROVE SaidRemoved(c, TRUE) = Deleted
    <2>1. removed'[c] = <<>>
      BY <1>2 DEF AddOne, TypeOK
    <2> QED
      BY <1>1, <1>2, <2>1, InsertTracked DEF AddOne, Deleted
  <1>3. ASSUME NEW i \in Items, RemoveOne(c, i) PROVE SaidRemoved(c, TRUE) = Deleted
    <2>1. removed'[c] = Reported(i)
      BY <1>3 DEF RemoveOne, TypeOK
    <2>2. Deleted = Tracked \cap {i}
      BY <1>3, DeleteTracked DEF RemoveOne, Deleted
    <2>3. CASE i \in Tracked
      <3>1. removed'[c] = <<i>>
        BY <2>1, <2>3 DEF Reported
      <3> QED
        <4>1. 1 .. Len(removed'[c]) = {1} /\ removed'[c][1] = i
          BY <3>1
        <4>2. SaidRemoved(c, TRUE) = {i}
          BY ONLY <1>0, <4>1
        <4> QED
          BY <2>2, <2>3, <4>2
    <2>4. CASE i \notin Tracked
      <3>1. removed'[c] = <<>>
        BY <2>1, <2>4 DEF Reported
      <3> QED
        BY <1>1, <2>2, <2>4, <3>1
    <2> QED
      BY <2>3, <2>4
  <1>4. ASSUME Ensure(c) \/ \E rs \in Prunes : Prune(c, rs)
        PROVE  SaidRemoved(c, TRUE) = Deleted
    <2>1. removed'[c] = <<>>
      BY <1>4 DEF Ensure, Prune, TypeOK
    <2>2. Deleted = {}
      BY <1>4, SameTracked DEF Ensure, Prune, Deleted
    <2> QED
      BY <1>1, <2>1, <2>2
  <1> QED
    BY <1>2, <1>3, <1>4 DEF Request

LEMMA ProceedClaims ==
    ASSUME TypeOK, AddsFromBook, NEW c \in Clients, Proceed(c)
    PROVE  SaidRemoved(c, FALSE) = Deleted
  <1>0. SaidRemoved(c, FALSE)
          = {removed'[c][n] : n \in Len(removed[c]) + 1 .. Len(removed'[c])}
    BY DEF SaidRemoved
  <1>1. removed[c] \in Seq(Items) /\ Len(removed[c]) \in Nat
    BY DEF TypeOK
  <1>2. ASSUME removed' = removed PROVE SaidRemoved(c, FALSE) = {}
    <2>1. Len(removed[c]) + 1 .. Len(removed'[c]) = {}
      BY <1>1, <1>2
    <2> QED
      BY ONLY <1>0, <2>1
  <1>3. CASE EnsureAdd(c)
    <2>1. Book[pos[c]].item \in Items
      BY <1>3, BookFacts DEF EnsureAdd, AddsFromBook
    <2> QED
      BY <1>2, <1>3, <2>1, InsertTracked DEF EnsureAdd, Deleted
  <1>4. CASE PruneDelete(c)
    <2>1. target[c] \in Items
      BY DEF TypeOK
    <2>2. Deleted = Tracked \cap {target[c]}
      BY <1>4, <2>1, DeleteTracked DEF PruneDelete, Deleted
    <2>3. removed'[c] = removed[c] \o Reported(target[c])
      BY <1>4 DEF PruneDelete, TypeOK
    <2>4. CASE target[c] \in Tracked
      <3>1. removed'[c] = removed[c] \o <<target[c]>>
        BY <2>3, <2>4 DEF Reported
      <3>2. <<target[c]>> \in Seq(Items) /\ Len(<<target[c]>>) = 1
        BY <2>1
      <3>3. /\ Len(removed'[c]) = Len(removed[c]) + 1
            /\ removed'[c][Len(removed[c]) + 1] = target[c]
        BY <1>1, <3>1, <3>2, ConcatProperties
      <3>4. Len(removed[c]) + 1 .. Len(removed'[c]) = {Len(removed[c]) + 1}
        BY <1>1, <3>3
      <3> QED
        BY <1>0, <2>2, <2>4, <3>3, <3>4
    <2>5. CASE target[c] \notin Tracked
      <3>1. removed'[c] = removed[c] \o <<>>
        BY <2>3, <2>5 DEF Reported
      <3>2. removed'[c] = removed[c]
        BY <1>1, <3>1, ConcatEmptySeq
      <3> QED
        <4>1. Len(removed[c]) + 1 .. Len(removed'[c]) = {}
          BY <1>1, <3>2
        <4>2. SaidRemoved(c, FALSE) = {}
          BY ONLY <1>0, <4>1
        <4> QED
          BY <2>2, <2>5, <4>2
    <2> QED
      BY <2>4, <2>5
  <1>5. ASSUME rows' = rows, removed' = removed PROVE SaidRemoved(c, FALSE) = Deleted
    BY <1>2, <1>5, SameTracked DEF Deleted
  <1>6. CASE EnsureCheck(c) \/ EnsureReply(c) \/ PruneGet(c) \/ PruneMatch(c)
             \/ PruneReply(c) \/ Fail(c)
    BY <1>5, <1>6 DEF EnsureCheck, EnsureReply, PruneGet, PruneMatch, PruneReply, Fail, End
  <1> QED
    BY <1>3, <1>4, <1>6 DEF Proceed

-----------------------------------------------------------------------------
(* The types and the balance.                                              *)

Balances == balance \in [Items -> Int] /\ RemovalsAddUp
CountInv == TypeOK /\ AddsFromBook /\ Balances

LEMMA RecordBalances ==
    ASSUME Balances, NEW c \in Clients, NEW begins \in BOOLEAN, Record(c, begins),
           SaidRemoved(c, begins) = Deleted
    PROVE  Balances'
  <1>1. balance' = [i \in Items |-> balance[i]
                      + (IF i \in Inserted THEN 1 ELSE 0)
                      - (IF i \in Deleted THEN 1 ELSE 0)]
    BY DEF Record
  <1>2. balance' \in [Items -> Int]
    BY <1>1 DEF Balances
  <1>3. ASSUME NEW i \in Items PROVE balance'[i] = IF i \in Tracked' THEN 1 ELSE 0
    <2>1. balance[i] = IF i \in Tracked THEN 1 ELSE 0
      BY DEF Balances, RemovalsAddUp
    <2> QED
      BY <1>1, <2>1 DEF Inserted, Deleted
  <1> QED
    BY <1>2, <1>3 DEF Balances, RemovalsAddUp

LEMMA InitCount == HistInit => CountInv
  <1> SUFFICES ASSUME HistInit PROVE CountInv
    OBVIOUS
  <1>1. Tracked = {}
    BY DEF HistInit, Init, Tracked
  <1>2. Balances
    BY <1>1 DEF HistInit, Balances, RemovalsAddUp
  <1> QED
    BY <1>2, InitTypes DEF HistInit, CountInv

LEMMA StepCount == CountInv /\ [HistNext]_histVars => CountInv'
  <1> SUFFICES ASSUME CountInv, [HistNext]_histVars PROVE CountInv'
    OBVIOUS
  <1> USE DEF CountInv
  <1>1. ASSUME NEW c \in Clients, Request(c), Record(c, TRUE) PROVE CountInv'
    BY <1>1, RequestTypes, RequestClaims, RecordBalances
  <1>2. ASSUME NEW c \in Clients, Proceed(c), Record(c, FALSE) PROVE CountInv'
    BY <1>2, ProceedTypes, ProceedClaims, RecordBalances
  <1>3. CASE HSeed
    <2>1. PICK i \in Items : rows' = Insert(i)
      <3>1. seedAt \in DOMAIN Book /\ rows' = Insert(Book[seedAt].item)
        BY <1>3, BookFacts DEF HSeed, SeedOne, TypeOK
      <3> QED
        BY <3>1, BookFacts
    <2>2. Tracked' = Tracked \cup {i}
      BY <2>1, InsertTracked
    <2>3. balance' = [j \in Items |-> balance[j] + (IF j \in Inserted THEN 1 ELSE 0)]
      BY <1>3 DEF HSeed
    <2>4. balance' \in [Items -> Int]
      BY <2>3 DEF Balances
    <2>5. ASSUME NEW j \in Items PROVE balance'[j] = IF j \in Tracked' THEN 1 ELSE 0
      <3>1. balance[j] = IF j \in Tracked THEN 1 ELSE 0
        BY DEF Balances, RemovalsAddUp
      <3> QED
        BY <2>2, <2>3, <3>1 DEF Inserted
    <2> QED
      BY <1>3, <2>4, <2>5, ServerTypes DEF HSeed, Balances, RemovalsAddUp
  <1>4. CASE HBoot \/ HSeedEnds \/ HCrash
    <2>1. rows' = rows /\ balance' = balance
      BY <1>4 DEF HBoot, HSeedEnds, HCrash, Boot, SeedEnds, Crash
    <2>2. Balances'
      BY <2>1, SameTracked DEF Balances, RemovalsAddUp
    <2> QED
      BY <1>4, <2>2, ServerTypes DEF HBoot, HSeedEnds, HCrash
  <1>5. CASE UNCHANGED histVars
    BY <1>5, SameTracked
    DEF histVars, vars, local, TypeOK, AddsFromBook, Balances, RemovalsAddUp
  <1> QED
    BY <1>1, <1>2, <1>3, <1>4, <1>5 DEF HistNext

LEMMA AlwaysCount == HistSpec => []CountInv
  BY InitCount, StepCount, PTL DEF HistSpec

\* The table never holds an instrument twice and every request stays in a state
\* of its kind, whatever requests, crashes and startups interleave.
THEOREM RegistryTypes == HistSpec => []TypeOK
  <1>1. CountInv => TypeOK
    BY DEF CountInv
  <1> QED
    BY <1>1, AlwaysCount, PTL

\* However removals race, the replies claim each deletion exactly once.
THEOREM RemovalsCounted == HistSpec => []RemovalsAddUp
  <1>1. CountInv => RemovalsAddUp
    BY DEF CountInv, Balances
  <1> QED
    BY <1>1, AlwaysCount, PTL

-----------------------------------------------------------------------------
(* The default book.                                                       *)

Stands(n) == StandsFor(n) \cap Tracked # {}

\* For every default that ensure_default_book has passed in its loop there is
\* a row.
Passed(c) ==
    ~ lost[c] =>
      /\ pc[c] \in {"checking", "adding"} => \A n \in DOMAIN Book : n < pos[c] => Stands(n)
      /\ pc[c] = "ensured" => \A n \in DOMAIN Book : Stands(n)

BookInv == CountInv /\ lost \in [Clients -> BOOLEAN] /\ \A c \in Clients : Passed(c)

\* A request that stays where it is, or is not ensuring, keeps what it passed.
LEMMA PassedElsewhere ==
    ASSUME BookInv, NEW c \in Clients, NEW begins \in BOOLEAN, Record(c, begins),
           NEW d \in Clients, d # c, pc'[d] = pc[d], pos'[d] = pos[d]
    PROVE  Passed(d)'
  <1>1. CASE ~ Ensuring(d)
    BY <1>1 DEF Ensuring, Passed
  <1>2. CASE Ensuring(d) /\ ~ lost'[d]
    <2>1. lost'[d] = (/\ Ensuring(d) /\ Ensuring(d)'
                      /\ ~ (d = c /\ begins)
                      /\ lost[d] \/ \E n \in DOMAIN Book : Deleted \cap StandsFor(n) # {})
      BY DEF Record
    <2>2. Ensuring(d)'
      BY <1>2 DEF Ensuring
    <2>3. ~ lost[d] /\ \A n \in DOMAIN Book : Deleted \cap StandsFor(n) = {}
      BY <1>2, <2>1, <2>2
    <2>4. \A n \in DOMAIN Book : Stands(n) => Stands(n)'
      BY <2>3 DEF Deleted, Stands, StandsFor, Answers
    <2>5. Passed(d)
      BY DEF BookInv
    <2> QED
      BY <2>3, <2>4, <2>5 DEF Passed
  <1>3. CASE lost'[d]
    BY <1>3 DEF Passed
  <1> QED
    BY <1>1, <1>2, <1>3

\* A request that goes on has lost nothing unless it had, or a step of its own
\* deleted a default.
LEMMA LostNext ==
    ASSUME NEW c \in Clients, NEW begins \in BOOLEAN, Record(c, begins), Deleted = {},
           Ensuring(c), Ensuring(c)', ~ begins, ~ lost'[c]
    PROVE  ~ lost[c]
  BY DEF Record

LEMMA RequestBook ==
    ASSUME BookInv, NEW c \in Clients, Request(c), Record(c, TRUE)
    PROVE  \A d \in Clients : Passed(d)'
  <1>1. /\ \A d \in Clients : d # c => pc'[d] = pc[d] /\ pos'[d] = pos[d]
        /\ pc'[c] = "checking" => pos'[c] = 1
        /\ pc'[c] \in {"checking", "replied", "getting"}
    BY DEF Request, AddOne, RemoveOne, Ensure, Prune, BookInv, CountInv, TypeOK
  <1>2. Passed(c)'
    <2>1. ASSUME NEW n \in DOMAIN Book PROVE ~ (n < 1)
      BY BookFacts
    <2> QED
      BY <1>1, <2>1 DEF Passed
  <1> QED
    BY <1>1, <1>2, PassedElsewhere

LEMMA ProceedBook ==
    ASSUME BookInv, NEW c \in Clients, Proceed(c), Record(c, FALSE)
    PROVE  \A d \in Clients : Passed(d)'
  <1> USE DEF BookInv, CountInv
  <1>1. \A d \in Clients : d # c => pc'[d] = pc[d] /\ pos'[d] = pos[d]
    BY DEF Proceed, EnsureCheck, EnsureAdd, EnsureReply, PruneGet, PruneMatch,
           PruneDelete, PruneReply, Fail, End, TypeOK
  <1>2. Passed(c)'
    <2>1. CASE EnsureCheck(c)
      <3>1. /\ pc[c] = "checking" /\ pos[c] \in DOMAIN Book
            /\ Tracked' = Tracked /\ Deleted = {}
            /\ pc'[c] \in {"checking", "adding"}
        BY <2>1, BookFacts, SameTracked DEF EnsureCheck, TypeOK, Deleted
      <3>6. \A n \in DOMAIN Book : Stands(n)' <=> Stands(n)
        BY <3>1 DEF Stands, StandsFor, Answers
      <3> SUFFICES ASSUME ~ lost'[c], NEW n \in DOMAIN Book, n < pos'[c]
                   PROVE  Stands(n)
        BY <3>1, <3>6 DEF Passed
      <3>2. ~ lost[c]
        BY <3>1, LostNext DEF Ensuring
      <3>3. CASE n < pos[c]
        BY <3>1, <3>2, <3>3 DEF Passed
      <3>4. CASE ~ (n < pos[c])
        <4>1. n = pos[c] /\ Matches(Book[n].ref) # {}
          <5>1. \/ Matches(Book[pos[c]].ref) # {} /\ pos' = [pos EXCEPT ![c] = pos[c] + 1]
                \/ pos' = pos
            BY <2>1 DEF EnsureCheck
          <5>2. n \in Nat /\ pos[c] \in Nat
            BY <3>1, BookFacts
          <5>3. Matches(Book[pos[c]].ref) # {} /\ pos'[c] = pos[c] + 1
            BY <3>4, <5>1 DEF TypeOK
          <5>4. n = pos[c]
            BY <3>4, <5>2, <5>3
          <5> QED
            BY <5>3, <5>4
        <4>2. PICK m \in DOMAIN rows : Answers(rows[m], Book[n].ref)
          BY <4>1 DEF Matches
        <4>3. rows[m] \in StandsFor(n) /\ rows[m] \in Tracked
          BY <4>2 DEF StandsFor, Tracked, TypeOK
        <4> QED
          BY <4>3 DEF Stands
      <3> QED
        BY <3>3, <3>4
    <2>2. CASE EnsureAdd(c)
      <3>1. pos[c] \in DOMAIN Book /\ Book[pos[c]].item \in Items
        BY <2>2, BookFacts DEF EnsureAdd, AddsFromBook
      <3>2. Tracked' = Tracked \cup {Book[pos[c]].item} /\ Deleted = {}
        BY <2>2, <3>1, InsertTracked DEF EnsureAdd, Deleted
      <3>3. pc[c] = "adding" /\ pc'[c] = "checking" /\ pos'[c] = pos[c] + 1
        BY <2>2 DEF EnsureAdd, TypeOK
      <3> SUFFICES ASSUME ~ lost'[c], NEW n \in DOMAIN Book, n < pos'[c]
                   PROVE  Stands(n)'
        BY <3>3 DEF Passed
      <3>4. ~ lost[c]
        BY <3>2, <3>3, LostNext DEF Ensuring
      <3>5. n < pos[c] \/ n = pos[c]
        BY <3>1, <3>3, BookFacts
      <3>6. CASE n < pos[c]
        <4>1. Stands(n)
          BY <3>3, <3>4, <3>6 DEF Passed
        <4> QED
          BY <3>2, <4>1 DEF Stands, StandsFor, Answers
      <3>7. CASE n = pos[c]
        <4>1. Book[n].item \in StandsFor(n)' /\ Book[n].item \in Tracked'
          BY <3>2, <3>7 DEF StandsFor
        <4> QED
          BY <4>1 DEF Stands
      <3> QED
        BY <3>5, <3>6, <3>7
    <2>3. CASE EnsureReply(c)
      <3>1. /\ pc[c] = "checking" /\ pos[c] > Len(Book) /\ pc'[c] = "ensured"
            /\ Tracked' = Tracked /\ Deleted = {}
        BY <2>3, SameTracked DEF EnsureReply, End, TypeOK, Deleted
      <3>4. \A n \in DOMAIN Book : Stands(n)' <=> Stands(n)
        BY <3>1 DEF Stands, StandsFor, Answers
      <3> SUFFICES ASSUME ~ lost'[c] PROVE \A n \in DOMAIN Book : Stands(n)
        BY <3>1, <3>4 DEF Passed
      <3>2. ~ lost[c]
        BY <3>1, LostNext DEF Ensuring
      <3>3. \A n \in DOMAIN Book : n < pos[c]
        BY <3>1, BookFacts DEF TypeOK
      <3> QED
        BY <3>1, <3>2, <3>3 DEF Passed
    <2>4. CASE PruneGet(c) \/ PruneMatch(c) \/ PruneDelete(c) \/ PruneReply(c) \/ Fail(c)
      <3>1. pc'[c] \in {"getting", "matching", "deleting", "pruned", "idle"}
        BY <2>4 DEF PruneGet, PruneMatch, PruneDelete, PruneReply, Fail, End, TypeOK
      <3> QED
        BY <3>1 DEF Passed
    <2> QED
      BY <2>1, <2>2, <2>3, <2>4 DEF Proceed
  <1> QED
    BY <1>1, <1>2, PassedElsewhere

LEMMA InitBook == HistInit => BookInv
  <1> SUFFICES ASSUME HistInit PROVE BookInv
    OBVIOUS
  <1>1. \A c \in Clients : pc[c] = "idle"
    BY DEF HistInit, Init, AllIdle
  <1> QED
    BY <1>1, InitCount DEF HistInit, BookInv, Passed

LEMMA StepBook == BookInv /\ [HistNext]_histVars => BookInv'
  <1> SUFFICES ASSUME BookInv, [HistNext]_histVars PROVE BookInv'
    OBVIOUS
  <1>1. CountInv'
    BY StepCount DEF BookInv
  <1>2. ASSUME NEW c \in Clients, NEW begins \in BOOLEAN, Record(c, begins)
        PROVE  lost' \in [Clients -> BOOLEAN]
    BY <1>2 DEF Record
  <1>3. ASSUME NEW c \in Clients, Request(c), Record(c, TRUE) PROVE BookInv'
    BY <1>1, <1>2, <1>3, RequestBook DEF BookInv
  <1>4. ASSUME NEW c \in Clients, Proceed(c), Record(c, FALSE) PROVE BookInv'
    BY <1>1, <1>2, <1>4, ProceedBook DEF BookInv
  <1>5. CASE HCrash
    <2>1. \A c \in Clients : pc'[c] = "idle"
      BY <1>5 DEF HCrash, Crash, AllIdle
    <2> QED
      BY <1>1, <1>5, <2>1 DEF BookInv, HCrash, Passed
  <1>6. CASE HBoot \/ HSeed \/ HSeedEnds \/ UNCHANGED histVars
    <2>1. pc' = pc /\ pos' = pos /\ lost' = lost
      BY <1>6 DEF HBoot, HSeed, HSeedEnds, Boot, SeedOne, SeedEnds, histVars, vars, local
    <2>2. Tracked \subseteq Tracked'
      <3>1. CASE HSeed
        <4>1. seedAt \in DOMAIN Book /\ rows' = Insert(Book[seedAt].item)
          BY <3>1, BookFacts DEF HSeed, SeedOne, BookInv, CountInv, TypeOK
        <4> QED
          BY <4>1, BookFacts, InsertTracked DEF BookInv, CountInv
      <3>2. CASE HBoot \/ HSeedEnds \/ UNCHANGED histVars
        BY <3>2, SameTracked DEF HBoot, HSeedEnds, Boot, SeedEnds, histVars, vars
      <3> QED
        BY <1>6, <3>1, <3>2
    <2>3. \A n \in DOMAIN Book : Stands(n) => Stands(n)'
      BY <2>2 DEF Stands, StandsFor, Answers
    <2>4. \A c \in Clients : Passed(c)'
      BY <2>1, <2>3 DEF BookInv, Passed
    <2> QED
      BY <1>1, <2>1, <2>4 DEF BookInv
  <1> QED
    BY <1>3, <1>4, <1>5, <1>6 DEF HistNext

\* Whatever requests, failures and crashes interleave, and over a registry with
\* any rows in it, a reply of ensure_default_book means that every default, or a
\* row that goes by its name, is tracked until someone removes such a row.
THEOREM BookGuaranteed == HistSpec => []EnsureGuaranteesBook
  <1>1. HistInit => BookInv
    BY InitBook
  <1>2. BookInv /\ [HistNext]_histVars => BookInv'
    BY StepBook
  <1>3. BookInv => EnsureGuaranteesBook
    BY DEF BookInv, Passed, Stands, EnsureGuaranteesBook
  <1> QED
    BY <1>1, <1>2, <1>3, PTL DEF HistSpec

\* Where no other instrument goes by the name of a default, that is the whole
\* book.
COROLLARY WholeBook ==
    ASSUME \A n \in DOMAIN Book, i \in Items :
               Answers(i, Book[n].ref) => i = Book[n].item
    PROVE  HistSpec => [](\A c \in Clients : pc[c] = "ensured" /\ ~ lost[c]
                                               => BookItems \subseteq Tracked)
  <1>1. \A n \in DOMAIN Book : StandsFor(n) \subseteq {Book[n].item}
    BY DEF StandsFor
  <1>2. EnsureGuaranteesBook
          => \A c \in Clients : pc[c] = "ensured" /\ ~ lost[c] => BookItems \subseteq Tracked
    BY <1>1 DEF EnsureGuaranteesBook, BookItems
  <1> QED
    BY <1>2, BookGuaranteed, PTL
=============================================================================
