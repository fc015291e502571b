------------------------- MODULE MovedRecord_proofs -------------------------
(***************************************************************************)
(* Proofs about the index of a record that was moved here, for any history *)
(* over there and an index that is any number of events behind.            *)
(*                                                                         *)
(* The move replays the whole history at once, so the invariant speaks of  *)
(* it before: while the record is still over there, it says what a replay  *)
(* of its history up to now would make of the database, with the right     *)
(* timestamps and with the wrong ones.  A call over there adds events to   *)
(* that replay; the move puts it in the log; and the index takes it off    *)
(* event by event without changing what it leads to.                       *)
(***************************************************************************)
EXTENDS MovedRecord, SequenceFacts

-----------------------------------------------------------------------------
(* What the events still in the log will make of the index. *)

\* What handling an entry of the log makes of a database.
Handled(d, x) == Index!HandleMigrationEvent(d, x[1])

Replays(S, d, L, later) ==
    /\ S[0] = d /\ S[Len(L)] = later
    /\ \A i \in 1..Len(L) : S[i] = Handled(S[i - 1], L[i])

\* The entries of the list make later out of d.
Leads(d, L, later) == IsList(L) /\ \E S : Replays(S, d, L, later)

LEMMA LeadsNothing ==
    ASSUME NEW d
    PROVE  Leads(d, << >>, d)
<1> DEFINE S == [i \in {0} |-> d]
<1>1. S[0] = d
  OBVIOUS
<1> HIDE DEF S
<1>2. Replays(S, d, << >>, d)
  BY <1>1 DEF Replays
<1>3. QED
  BY <1>2, ListFacts DEF Leads

LEMMA LeadsEmpty ==
    ASSUME NEW d, NEW later, Leads(d, << >>, later)
    PROVE  later = d
BY DEF Leads, Replays

LEMMA LeadsOnce ==
    ASSUME NEW d, NEW x
    PROVE  Leads(d, <<x>>, Handled(d, x))
<1> DEFINE S == [i \in 0..1 |-> IF i = 0 THEN d ELSE Handled(d, x)]
           L == <<x>>
<1>1. S[0] = d /\ S[1] = Handled(d, x)
  OBVIOUS
<1>2. L \in Seq({x}) /\ Len(L) = 1 /\ L[1] = x
  OBVIOUS
<1> HIDE DEF S, L
<1>3. \A i \in 1..1 : i = 1 /\ i - 1 = 0
  OBVIOUS
<1>4. Replays(S, d, L, Handled(d, x))
  BY <1>1, <1>2, <1>3 DEF Replays
<1>5. Leads(d, L, Handled(d, x))
  BY <1>2, <1>4 DEF Leads, IsList
<1>6. QED
  BY <1>5 DEF L

LEMMA LeadsMore ==
    ASSUME NEW d, NEW L, NEW mid, Leads(d, L, mid), NEW M, NEW later, Leads(mid, M, later)
    PROVE  Leads(d, L \o M, later)
<1>1. PICK S : Replays(S, d, L, mid)
  BY DEF Leads
<1>2. PICK R : Replays(R, mid, M, later)
  BY DEF Leads
<1> DEFINE n == Len(L)
           m == Len(M)
           N == L \o M
           U == [i \in 0..n + m |-> IF i \in 0..n THEN S[i] ELSE R[i - n]]
<1>3. n \in Nat /\ m \in Nat
  BY ListFacts DEF Leads
<1>4. /\ IsList(N) /\ Len(N) = n + m
      /\ \A i \in 1..n : N[i] = L[i]
      /\ \A i \in n + 1..n + m : N[i] = M[i - n]
  BY ConcatFacts DEF Leads
<1>5. S[n] = mid /\ R[0] = mid /\ R[m] = later /\ S[0] = d
  BY <1>1, <1>2 DEF Replays
<1>6. /\ \A i \in 0..n : U[i] = S[i]
      /\ \A i \in n..n + m : U[i] = R[i - n]
  <2>1. ASSUME NEW i \in 0..n PROVE U[i] = S[i]
    BY <1>3
  <2>2. ASSUME NEW i \in n..n + m PROVE U[i] = R[i - n]
    <3>1. CASE i = n
      BY <1>3, <1>5, <3>1
    <3>2. CASE i # n
      BY <1>3, <3>2
    <3>3. QED
      BY <3>1, <3>2
  <2>3. QED
    BY <2>1, <2>2
<1> HIDE DEF U, N
<1>7. U[0] = d /\ U[n + m] = later
  BY <1>3, <1>5, <1>6
<1>8. ASSUME NEW i \in 1..n + m
      PROVE  U[i] = Handled(U[i - 1], N[i])
  <2>1. CASE i \in 1..n
    <3>1. U[i - 1] = S[i - 1] /\ U[i] = S[i] /\ N[i] = L[i]
      BY <1>3, <1>4, <1>6, <2>1
    <3>2. QED
      BY <1>1, <2>1, <3>1 DEF Replays
  <2>2. CASE i \in n + 1..n + m
    <3>1. /\ i - n \in 1..m /\ i \in n..n + m /\ i - 1 \in n..n + m
          /\ (i - 1) - n = (i - n) - 1
      BY <1>3, <2>2
    <3>2. U[i - 1] = R[(i - n) - 1] /\ U[i] = R[i - n] /\ N[i] = M[i - n]
      BY <1>4, <1>6, <2>2, <3>1
    <3>3. R[i - n] = Handled(R[(i - n) - 1], M[i - n])
      BY <1>2, <3>1 DEF Replays
    <3>4. QED
      BY <3>2, <3>3
  <2>3. QED
    BY <1>3, <2>1, <2>2
<1>9. Replays(U, d, N, later)
  BY <1>4, <1>7, <1>8 DEF Replays
<1>10. QED
  BY <1>4, <1>9 DEF Leads, N

LEMMA LeadsLess ==
    ASSUME NEW d, NEW L, NEW later, Leads(d, L, later), L # << >>
    PROVE  Leads(Handled(d, L[1]), Tail(L), later)
<1>1. PICK S : Replays(S, d, L, later)
  BY DEF Leads
<1> DEFINE n == Len(L)
           M == Tail(L)
           U == [i \in 0..n - 1 |-> S[i + 1]]
<1>2. n \in Nat /\ n >= 1
  BY ListFacts DEF Leads
<1>3. /\ IsList(M) /\ Len(M) = n - 1 /\ \A i \in 1..n - 1 : M[i] = L[i + 1]
  BY ListFacts DEF Leads
<1>4. \A i \in 0..n - 1 : U[i] = S[i + 1]
  OBVIOUS
<1> HIDE DEF U, M
<1>5. U[0] = Handled(d, L[1]) /\ U[n - 1] = later
  <2>1. 1 \in 1..n /\ 1 - 1 = 0 /\ 0 \in 0..n - 1 /\ n - 1 \in 0..n - 1 /\ n - 1 + 1 = n
    BY <1>2
  <2>2. QED
    BY <1>1, <1>4, <2>1 DEF Replays
<1>6. ASSUME NEW i \in 1..n - 1
      PROVE  U[i] = Handled(U[i - 1], M[i])
  <2>1. i + 1 \in 1..n /\ i + 1 - 1 = i /\ i - 1 \in 0..n - 1 /\ i \in 0..n - 1 /\ i - 1 + 1 = i
    BY <1>2
  <2>2. U[i - 1] = S[i] /\ U[i] = S[i + 1] /\ M[i] = L[i + 1]
    BY <1>3, <1>4, <2>1
  <2>3. S[i + 1] = Handled(S[i], L[i + 1])
    BY <1>1, <2>1 DEF Replays
  <2>4. QED
    BY <2>2, <2>3
<1>7. Replays(U, Handled(d, L[1]), M, later)
  BY <1>3, <1>5, <1>6 DEF Replays
<1>8. QED
  BY <1>3, <1>7 DEF Leads, M

At(e) == <<e, time>>
Stamped(events) == [i \in 1..Len(events) |-> At(events[i])]

LEMMA StampedFacts ==
    ASSUME NEW s, IsList(s)
    PROVE  /\ IsList(Stamped(s)) /\ Len(Stamped(s)) = Len(s)
           /\ \A i \in 1..Len(s) : Stamped(s)[i] = At(s[i])
<1> DEFINE n == Len(s)
           U == [i \in 1..n |-> At(s[i])]
<1>1. n \in Nat
  BY ListFacts
<1> HIDE DEF n
<1>2. U \in Seq({At(s[i]) : i \in 1..n}) /\ Len(U) = n /\ \A i \in 1..n : U[i] = At(s[i])
  BY <1>1
<1>3. U = Stamped(s)
  BY DEF Stamped, n
<1> HIDE DEF U
<1>4. QED
  BY <1>2, <1>3 DEF IsList, n

LEMMA StampedConcat ==
    ASSUME NEW s, IsList(s), NEW u, IsList(u)
    PROVE  Stamped(s \o u) = Stamped(s) \o Stamped(u)
<1> DEFINE n == Len(s)
           m == Len(u)
           p == Stamped(s)
           q == Stamped(u)
           a == Stamped(s \o u)
           b == p \o q
<1>1. n \in Nat /\ m \in Nat
  BY ListFacts
<1>2. /\ IsList(s \o u) /\ Len(s \o u) = n + m
      /\ \A i \in 1..n : (s \o u)[i] = s[i]
      /\ \A i \in n + 1..n + m : (s \o u)[i] = u[i - n]
  BY ConcatFacts
<1>3. IsList(a) /\ Len(a) = n + m /\ \A i \in 1..n + m : a[i] = At((s \o u)[i])
  BY <1>2, StampedFacts
<1>4. /\ IsList(p) /\ Len(p) = n /\ \A i \in 1..n : p[i] = At(s[i])
      /\ IsList(q) /\ Len(q) = m /\ \A i \in 1..m : q[i] = At(u[i])
  BY StampedFacts
<1> HIDE DEF p, q, n, m
<1>5. /\ IsList(b) /\ Len(b) = n + m
      /\ \A i \in 1..n : b[i] = p[i]
      /\ \A i \in n + 1..n + m : b[i] = q[i - n]
  BY <1>4, ConcatFacts
<1> HIDE DEF a, b
<1>6. ASSUME NEW i \in 1..n + m
      PROVE  a[i] = b[i]
  <2>1. CASE i \in 1..n
    BY <1>2, <1>3, <1>4, <1>5, <2>1
  <2>2. CASE i \in n + 1..n + m
    <3>1. i - n \in 1..m
      BY <1>1, <2>2
    <3>2. QED
      BY <1>2, <1>3, <1>4, <1>5, <2>2, <3>1
  <2>3. QED
    BY <1>1, <2>1, <2>2
<1>7. PICK A : a \in Seq(A)
  BY <1>3 DEF IsList
<1>8. PICK B : b \in Seq(B)
  BY <1>5 DEF IsList
<1>9. a \in Seq(A \union B) /\ b \in Seq(A \union B)
  BY <1>7, <1>8, SeqMonotonic
<1>10. a = b
  BY <1>3, <1>5, <1>6, <1>9, SeqEqual
<1>11. QED
  BY <1>10 DEF a, b, p, q

\* The events make later out of d, once they are in the log and the index is there.
Makes(d, events, later) == IsList(events) /\ Leads(d, Stamped(events), later)

LEMMA MakesNothing ==
    ASSUME NEW d
    PROVE  Makes(d, << >>, d)
<1>1. Stamped(<< >>) = << >>
  BY DEF Stamped
<1>2. QED
  BY <1>1, LeadsNothing, ListFacts DEF Makes

LEMMA MakesOne ==
    ASSUME NEW d, NEW e
    PROVE  Makes(d, <<e>>, Handled(d, At(e)))
<1>1. Stamped(<<e>>) = <<At(e)>>
  BY DEF Stamped
<1>2. <<e>> \in Seq({e})
  OBVIOUS
<1>3. QED
  BY <1>1, <1>2, LeadsOnce DEF Makes, IsList

LEMMA MakesMore ==
    ASSUME NEW d, NEW s, NEW mid, Makes(d, s, mid), NEW u, NEW later, Makes(mid, u, later)
    PROVE  Makes(d, s \o u, later)
<1>1. IsList(s) /\ IsList(u) /\ Leads(d, Stamped(s), mid) /\ Leads(mid, Stamped(u), later)
  BY DEF Makes
<1>2. IsList(s \o u) /\ Stamped(s \o u) = Stamped(s) \o Stamped(u)
  BY <1>1, ConcatFacts, StampedConcat
<1>3. Leads(d, Stamped(s) \o Stamped(u), later)
  BY <1>1, LeadsMore
<1>4. QED
  BY <1>2, <1>3 DEF Makes

LEMMA MakesTwo ==
    ASSUME NEW d, NEW e, NEW mid, mid = Handled(d, At(e)),
           NEW f, NEW later, later = Handled(mid, At(f))
    PROVE  Makes(d, <<e, f>>, later)
<1>1. Makes(d, <<e>>, mid) /\ Makes(mid, <<f>>, later)
  BY MakesOne
<1>2. Makes(d, <<e>> \o <<f>>, later)
  BY <1>1, MakesMore
<1>3. <<e>> \o <<f>> = <<e, f>>
  BY PairConcat
<1>4. QED
  BY <1>2, <1>3

LEMMA EmitLeads ==
    ASSUME UNCHANGED db, NEW d, Leads(db, log, d), NEW events, Emit(events),
           NEW later, Makes(d, events, later)
    PROVE  Leads(db', log', later) /\ time' = time
<1>1. log' = log \o Stamped(events) /\ time' = time
  BY DEF Emit, Stamped, At
<1>2. Leads(db, log \o Stamped(events), later)
  BY LeadsMore DEF Makes
<1>3. QED
  BY <1>1, <1>2

-----------------------------------------------------------------------------
(* The replay of a history. *)

StampOf(entry, bad) ==
    IF bad /\ entry[1].event = "ProvenanceFromMigration" THEN BadTimestamp ELSE entry[2]

ReplayedEntry(entry, bad) == Replayed(entry[1], StampOf(entry, bad))

\* The events that a move with this history emits, but for the last.
ReplayOf(h, bad) == [i \in 1..Len(h) |-> ReplayedEntry(h[i], bad)]

LEMMA ReplayFacts ==
    ASSUME NEW h, IsList(h), NEW bad
    PROVE  /\ IsList(ReplayOf(h, bad)) /\ Len(ReplayOf(h, bad)) = Len(h)
           /\ \A i \in 1..Len(h) : ReplayOf(h, bad)[i] = ReplayedEntry(h[i], bad)
<1> DEFINE n == Len(h)
           R == [i \in 1..n |-> ReplayedEntry(h[i], bad)]
<1>1. n \in Nat
  BY ListFacts
<1> HIDE DEF n
<1>2. /\ R \in Seq({ReplayedEntry(h[i], bad) : i \in 1..n}) /\ Len(R) = n
      /\ \A i \in 1..n : R[i] = ReplayedEntry(h[i], bad)
  BY <1>1
<1>3. R = ReplayOf(h, bad)
  BY DEF ReplayOf, n
<1> HIDE DEF R
<1>4. QED
  BY <1>2, <1>3 DEF IsList, n

LEMMA ReplayConcat ==
    ASSUME NEW h, IsList(h), NEW k, IsList(k), NEW bad
    PROVE  ReplayOf(h \o k, bad) = ReplayOf(h, bad) \o ReplayOf(k, bad)
<1> DEFINE n == Len(h)
           m == Len(k)
           p == ReplayOf(h, bad)
           q == ReplayOf(k, bad)
           a == ReplayOf(h \o k, bad)
           b == p \o q
<1>1. n \in Nat /\ m \in Nat
  BY ListFacts
<1>2. /\ IsList(h \o k) /\ Len(h \o k) = n + m
      /\ \A i \in 1..n : (h \o k)[i] = h[i]
      /\ \A i \in n + 1..n + m : (h \o k)[i] = k[i - n]
  BY ConcatFacts
<1>3. IsList(a) /\ Len(a) = n + m
      /\ \A i \in 1..n + m : a[i] = ReplayedEntry((h \o k)[i], bad)
  BY <1>2, ReplayFacts
<1>4. /\ IsList(p) /\ Len(p) = n /\ \A i \in 1..n : p[i] = ReplayedEntry(h[i], bad)
      /\ IsList(q) /\ Len(q) = m /\ \A i \in 1..m : q[i] = ReplayedEntry(k[i], bad)
  BY ReplayFacts
<1> HIDE DEF p, q, n, m
<1>5. /\ IsList(b) /\ Len(b) = n + m
      /\ \A i \in 1..n : b[i] = p[i]
      /\ \A i \in n + 1..n + m : b[i] = q[i - n]
  BY <1>4, ConcatFacts
<1> HIDE DEF a, b
<1>6. ASSUME NEW i \in 1..n + m
      PROVE  a[i] = b[i]
  <2>1. CASE i \in 1..n
    BY <1>2, <1>3, <1>4, <1>5, <2>1
  <2>2. CASE i \in n + 1..n + m
    <3>1. i - n \in 1..m
      BY <1>1, <2>2
    <3>2. QED
      BY <1>2, <1>3, <1>4, <1>5, <2>2, <3>1
  <2>3. QED
    BY <1>1, <2>1, <2>2
<1>7. PICK A : a \in Seq(A)
  BY <1>3 DEF IsList
<1>8. PICK B : b \in Seq(B)
  BY <1>5 DEF IsList
<1>9. a \in Seq(A \union B) /\ b \in Seq(A \union B)
  BY <1>7, <1>8, SeqMonotonic
<1>10. a = b
  BY <1>3, <1>5, <1>6, <1>9, SeqEqual
<1>11. QED
  BY <1>10 DEF a, b, p, q

\* What a replayed event says.
LEMMA ReplayedSays ==
    ASSUME NEW e, NEW timestamp,
           DOMAIN e \cap {"address", "tokenId", "originTimestamp"} = {}
    PROVE  /\ \A f \in DOMAIN e : Replayed(e, timestamp)[f] = e[f]
           /\ Replayed(e, timestamp).address = RegistryAddress
           /\ Replayed(e, timestamp).tokenId = T
           /\ Replayed(e, timestamp).originTimestamp = timestamp
           /\ Index!idOf(Replayed(e, timestamp)) = Id
           /\ Index!originMillis(Replayed(e, timestamp)) = 1000 * timestamp
BY DEF Replayed, Index!idOf, Index!srrEntityId, Id, Index!originMillis, Index!secondsToMillis

-----------------------------------------------------------------------------
(* Saving. *)

SRRField == {"ownerAddress", "artistAddress", "artist", "issuer", "metadataDigest",
             "transferCommitment", "lockExternalTransfer", "royaltyReceiver",
             "royaltyBasisPoints", "collection", "originChain", "createdAt"}

IsSRR(srr) == DOMAIN srr = SRRField /\ srr.createdAt \in Nat

\* A database that the handlers can go on with.
DbOK(d) ==
    /\ DOMAIN d = Index!Tables \union {"stopped"}
    /\ DOMAIN d["LicensedUserWallet"] = LicensedUser
    /\ \A id \in DOMAIN d["SRR"] : IsSRR(d["SRR"][id])

\* What is shown of the record is srr; no provenance is touched.
Writes(d, later, srr) ==
    /\ DbOK(later) /\ later["SRRProvenance"] = d["SRRProvenance"]
    /\ Id \in DOMAIN later["SRR"] /\ later["SRR"][Id] = srr

Saved(d, type, id, entity, later) ==
    /\ DOMAIN later = DOMAIN d
    /\ \A table \in DOMAIN d : table # type => later[table] = d[table]
    /\ DOMAIN later[type] = DOMAIN d[type] \union {id}
    /\ later[type][id] = entity
    /\ \A other \in DOMAIN d[type] : other # id => later[type][other] = d[type][other]

LEMMA SaveSaves ==
    ASSUME NEW d, NEW type \in DOMAIN d, NEW id, NEW entity
    PROVE  Saved(d, type, id, entity, Index!Save(d, type, id, entity))
BY DEF Saved, Index!Save

LEMMA TablesOfDb ==
    ASSUME NEW d, DbOK(d)
    PROVE  \A table \in {"SRR", "SRRProvenance", "SRRTransferCommit", "SRRMetadataHistory",
                         "LicensedUserWallet"} : table \in DOMAIN d
BY DEF DbOK, Index!Tables, Index!LUW

\* A record that has the time of its creation is saved.
LEMMA SaveRecord ==
    ASSUME NEW d, DbOK(d), NEW srr, IsSRR(srr), NEW later,
           \/ later = Index!SaveSRR(d, Id, srr)
           \/ Id \in DOMAIN d["SRR"] /\ later = Index!UpdateSRR(d, Id, srr)
    PROVE  Writes(d, later, srr)
<1>1. srr.createdAt # Null
  BY MovedAssumption DEF IsSRR
<1>2. later = Index!Save(d, "SRR", Id, srr)
  BY <1>1 DEF Index!SaveSRR, Index!UpdateSRR, Index!IfKnown, Index!Has
<1>3. Saved(d, "SRR", Id, srr, later)
  BY <1>2, SaveSaves, TablesOfDb
<1>4. /\ DOMAIN later = DOMAIN d /\ later["SRR"][Id] = srr
      /\ later["LicensedUserWallet"] = d["LicensedUserWallet"]
      /\ later["SRRProvenance"] = d["SRRProvenance"]
      /\ DOMAIN later["SRR"] = DOMAIN d["SRR"] \union {Id}
      /\ \A other \in DOMAIN d["SRR"] : other # Id => later["SRR"][other] = d["SRR"][other]
  BY <1>3, TablesOfDb DEF Saved
<1>5. \A i \in DOMAIN later["SRR"] : IsSRR(later["SRR"][i])
  BY <1>4 DEF DbOK
<1>6. DbOK(later)
  BY <1>4, <1>5 DEF DbOK
<1>7. QED
  BY <1>4, <1>6 DEF Writes

\* An entity of a table that nothing here depends on.
LEMMA SaveBeside ==
    ASSUME NEW d, NEW mid, NEW srr, Writes(d, mid, srr), NEW id, NEW entity,
           NEW type \in {"SRRMetadataHistory", "SRRTransferCommit"},
           NEW later, later = mid \/ later = Index!Save(mid, type, id, entity)
    PROVE  Writes(d, later, srr)
<1>1. CASE later = mid
  BY <1>1
<1>2. CASE later = Index!Save(mid, type, id, entity)
  <2>1. DbOK(mid)
    BY DEF Writes
  <2>2. Saved(mid, type, id, entity, later)
    BY <1>2, <2>1, SaveSaves, TablesOfDb
  <2>3. /\ DOMAIN later = DOMAIN mid
        /\ \A table \in {"SRR", "SRRProvenance", "LicensedUserWallet"} : later[table] = mid[table]
    BY <2>1, <2>2, TablesOfDb DEF Saved
  <2>4. QED
    BY <2>1, <2>3 DEF Writes, DbOK
<1>3. QED
  BY <1>1, <1>2

-----------------------------------------------------------------------------
(* What is shown of the record. *)

Shows(shown, rec, millis) ==
    /\ shown.ownerAddress = rec.owner
    /\ shown.metadataDigest = rec.metadataDigest
    /\ rec.issuer \in LicensedUser => shown.issuer = rec.issuer
    /\ rec.artist \in LicensedUser => shown.artist = rec.artist
    /\ shown.createdAt = millis
    /\ shown.transferCommitment # Null => shown.transferCommitment = rec.commitment

\* The database shows the record like this.
Tells(d, rec, millis) ==
    DbOK(d) /\ Id \in DOMAIN d["SRR"] /\ Shows(d["SRR"][Id], rec, millis)

SameProvenance(d, later) == later["SRRProvenance"] = d["SRRProvenance"]

\* A replayed event that is about the record.
IsAbout(e) == Index!idOf(e) = Id

LEMMA KnownRecord ==
    ASSUME NEW d, NEW rec, NEW millis, Tells(d, rec, millis)
    PROVE  /\ DbOK(d) /\ Id \in DOMAIN d["SRR"] /\ IsSRR(d["SRR"][Id])
           /\ Shows(d["SRR"][Id], rec, millis)
BY DEF Tells, DbOK

LEMMA WritesTells ==
    ASSUME NEW d, NEW later, NEW srr, Writes(d, later, srr), NEW rec, NEW millis,
           Shows(srr, rec, millis)
    PROVE  Tells(later, rec, millis) /\ SameProvenance(d, later)
BY DEF Writes, Tells, SameProvenance

\* An update to an artist without a wallet is dropped.
LEMMA ArtistHandled ==
    ASSUME NEW d, NEW rec, NEW millis, Tells(d, rec, millis),
           NEW e, IsAbout(e), NEW later, later = Index!handleUpdateSRRFromMigration(d, e),
           NEW next, next = [rec EXCEPT !.artist = e.artist], rec \in Record
    PROVE  Tells(later, next, millis) /\ SameProvenance(d, later)
<1> DEFINE shown == d["SRR"][Id]
           artist == Index!getLicensedUserIdFromAddress(d, e.artist)
           made == [shown EXCEPT !.artistAddress = e.artist, !.artist = artist]
<1>1. DbOK(d) /\ Id \in DOMAIN d["SRR"] /\ IsSRR(shown) /\ Shows(shown, rec, millis)
  BY KnownRecord
<1>2. IsSRR(made) /\ made.artist = artist
      /\ \A f \in SRRField \ {"artistAddress", "artist"} : made[f] = shown[f]
  BY <1>1 DEF IsSRR, SRRField
<1>3. later = IF artist = Null THEN d ELSE Index!UpdateSRR(d, Id, made)
  BY <1>1 DEF IsAbout, Index!handleUpdateSRRFromMigration, Index!handleUpdateSRRInternal,
     Index!IfKnown, Index!Has
<1>4. artist = IF e.artist \in LicensedUser THEN e.artist ELSE Null
  BY <1>1 DEF DbOK, Index!getLicensedUserIdFromAddress, Index!Has, Index!LUW
<1>5. /\ next.artist = e.artist /\ next.owner = rec.owner /\ next.issuer = rec.issuer
      /\ next.metadataDigest = rec.metadataDigest /\ next.commitment = rec.commitment
  BY DEF Record
<1> HIDE DEF made, artist, shown
<1>6. CASE artist = Null
  <2>1. e.artist \notin LicensedUser
    BY <1>4, <1>6, MovedAssumption
  <2>2. Shows(shown, next, millis)
    BY <1>1, <1>5, <2>1 DEF Shows
  <2>3. QED
    BY <1>1, <1>3, <1>6, <2>2 DEF Tells, SameProvenance, shown
<1>7. CASE artist # Null
  <2>1. Writes(d, later, made)
    BY <1>1, <1>2, <1>3, <1>7, SaveRecord
  <2>2. artist = e.artist
    BY <1>4, <1>7
  <2>3. Shows(made, next, millis)
    BY <1>1, <1>2, <1>5, <2>2 DEF Shows, SRRField
  <2>4. QED
    BY <2>1, <2>3, WritesTells
<1>8. QED
  BY <1>6, <1>7

LEMMA MetadataHandled ==
    ASSUME NEW d, NEW rec, NEW millis, Tells(d, rec, millis),
           NEW e, IsAbout(e),
           NEW later, later = Index!handleUpdateSRRMetadataDigestFromMigration(d, e),
           NEW next, next = [rec EXCEPT !.metadataDigest = e.metadataDigest], rec \in Record
    PROVE  Tells(later, next, millis) /\ SameProvenance(d, later)
<1> DEFINE shown == d["SRR"][Id]
           made == [shown EXCEPT !.metadataDigest = e.metadataDigest]
           mid == Index!UpdateSRR(d, Id, made)
           place == <<Id, e.metadataDigest>>
           entity == [srr |-> Id, metadataDigest |-> e.metadataDigest]
           type == "SRRMetadataHistory"
<1>1. DbOK(d) /\ Id \in DOMAIN d["SRR"] /\ IsSRR(shown) /\ Shows(shown, rec, millis)
  BY KnownRecord
<1>2. IsSRR(made) /\ made.metadataDigest = e.metadataDigest
      /\ \A f \in SRRField \ {"metadataDigest"} : made[f] = shown[f]
  BY <1>1 DEF IsSRR, SRRField
<1>3. later = Index!Save(mid, type, place, entity)
  BY <1>1 DEF IsAbout, Index!handleUpdateSRRMetadataDigestFromMigration,
     Index!handleUpdateSRRMetadataHashInternal, Index!saveSRRMetadataHistory,
     Index!IfKnown, Index!Has
<1>4. /\ next.metadataDigest = e.metadataDigest /\ next.owner = rec.owner
      /\ next.issuer = rec.issuer /\ next.artist = rec.artist
      /\ next.commitment = rec.commitment
  BY DEF Record
<1>5. type \in {"SRRMetadataHistory", "SRRTransferCommit"}
  OBVIOUS
<1> HIDE DEF made, entity, place, shown, type
<1>6. Writes(d, mid, made)
  BY <1>1, <1>2, SaveRecord
<1> HIDE DEF mid
<1>7. Writes(d, later, made)
  BY <1>3, <1>5, <1>6, SaveBeside
<1>8. Shows(made, next, millis)
  BY <1>1, <1>2, <1>4 DEF Shows, SRRField
<1>9. QED
  BY <1>7, <1>8, WritesTells

\* A commitment that is given or ends, with what else is noted of it.
LEMMA CommitmentSet ==
    ASSUME NEW d, NEW rec, NEW millis, Tells(d, rec, millis),
           NEW value, NEW next, value # Null => value = next.commitment,
           next.owner = rec.owner, next.issuer = rec.issuer, next.artist = rec.artist,
           next.metadataDigest = rec.metadataDigest,
           NEW mid,
           mid = Index!UpdateSRR(d, Id, [d["SRR"][Id] EXCEPT !.transferCommitment = value]),
           NEW later, \/ later = mid
                      \/ \E entity : later = Index!Save(mid, "SRRTransferCommit", Id, entity)
    PROVE  Tells(later, next, millis) /\ SameProvenance(d, later)
<1> DEFINE shown == d["SRR"][Id]
           made == [shown EXCEPT !.transferCommitment = value]
           type == "SRRTransferCommit"
<1>1. DbOK(d) /\ Id \in DOMAIN d["SRR"] /\ IsSRR(shown) /\ Shows(shown, rec, millis)
  BY KnownRecord
<1>2. IsSRR(made) /\ made.transferCommitment = value
      /\ \A f \in SRRField \ {"transferCommitment"} : made[f] = shown[f]
  BY <1>1 DEF IsSRR, SRRField
<1>3. mid = Index!UpdateSRR(d, Id, made)
  OBVIOUS
<1>4. later = mid \/ \E entity : later = Index!Save(mid, type, Id, entity)
  OBVIOUS
<1>5. type \in {"SRRMetadataHistory", "SRRTransferCommit"}
  OBVIOUS
<1> HIDE DEF made, shown, type
<1>6. Writes(d, mid, made)
  BY <1>1, <1>2, <1>3, SaveRecord
<1>7. Writes(d, later, made)
  BY <1>4, <1>5, <1>6, SaveBeside
<1>8. Shows(made, next, millis)
  BY <1>1, <1>2 DEF Shows, SRRField
<1>9. QED
  BY <1>7, <1>8, WritesTells

LEMMA CommitmentHandled ==
    ASSUME NEW d, NEW rec, NEW millis, Tells(d, rec, millis),
           NEW e, IsAbout(e), NEW later, later = Index!handleSRRCommitmentFromMigration(d, e),
           NEW next, e.commitment = next.commitment,
           next.owner = rec.owner, next.issuer = rec.issuer, next.artist = rec.artist,
           next.metadataDigest = rec.metadataDigest
    PROVE  Tells(later, next, millis) /\ SameProvenance(d, later)
<1> DEFINE value == e.commitment
           mid == Index!UpdateSRR(d, Id, [d["SRR"][Id] EXCEPT !.transferCommitment = value])
<1>1. Id \in DOMAIN d["SRR"]
  BY DEF Tells
<1>2. \E entity : later = Index!Save(mid, "SRRTransferCommit", Id, entity)
  BY <1>1 DEF IsAbout, Index!handleSRRCommitmentFromMigration,
     Index!handleSRRCommitmentInternal, Index!IfKnown, Index!Has
<1>3. value # Null => value = next.commitment
  OBVIOUS
<1> HIDE DEF value
<1>4. QED
  BY <1>2, <1>3, CommitmentSet

LEMMA EndsCommitment ==
    ASSUME NEW d, NEW rec, NEW millis, Tells(d, rec, millis), NEW action, NEW sender,
           NEW later, later = Index!EndCommit(
              Index!UpdateSRR(d, Id, [d["SRR"][Id] EXCEPT !.transferCommitment = Null]),
              Id, action, sender),
           NEW next,
           next.owner = rec.owner, next.issuer = rec.issuer, next.artist = rec.artist,
           next.metadataDigest = rec.metadataDigest
    PROVE  Tells(later, next, millis) /\ SameProvenance(d, later)
<1> DEFINE value == Null
           mid == Index!UpdateSRR(d, Id, [d["SRR"][Id] EXCEPT !.transferCommitment = value])
<1>1. \/ later = mid
      \/ \E entity : later = Index!Save(mid, "SRRTransferCommit", Id, entity)
  BY DEF Index!EndCommit, Index!IfKnown, Index!Has
<1>2. value # Null => value = next.commitment
  OBVIOUS
<1> HIDE DEF value
<1>3. QED
  BY <1>1, <1>2, CommitmentSet

LEMMA CancelHandled ==
    ASSUME NEW d, NEW rec, NEW millis, Tells(d, rec, millis),
           NEW e, IsAbout(e),
           NEW later, later = Index!handleSRRCommitmentCancelledFromMigration(d, e),
           NEW next,
           next.owner = rec.owner, next.issuer = rec.issuer, next.artist = rec.artist,
           next.metadataDigest = rec.metadataDigest
    PROVE  Tells(later, next, millis) /\ SameProvenance(d, later)
<1> DEFINE action == "cancel"
<1>1. Id \in DOMAIN d["SRR"]
  BY DEF Tells
<1>2. later = Index!EndCommit(
              Index!UpdateSRR(d, Id, [d["SRR"][Id] EXCEPT !.transferCommitment = Null]),
              Id, action, Null)
  BY <1>1 DEF IsAbout, Index!handleSRRCommitmentCancelledFromMigration,
     Index!handleSRRCommitmentCancelledInternal, Index!IfKnown, Index!Has
<1> HIDE DEF action
<1>3. QED
  BY <1>2, EndsCommitment

\* A record that is there changes its owner; its commitment is gone.
LEMMA TransferHandled ==
    ASSUME NEW d, NEW rec, NEW millis, Tells(d, rec, millis),
           NEW e, IsAbout(e), e.from # ZERO,
           NEW later, later = Index!handleTransferFromMigration(d, e),
           NEW next, next.owner = e.to, next.issuer = rec.issuer, next.artist = rec.artist,
           next.metadataDigest = rec.metadataDigest
    PROVE  Tells(later, next, millis) /\ SameProvenance(d, later)
<1> DEFINE shown == d["SRR"][Id]
           to == e.to
           action == "transfer"
           made == [shown EXCEPT !.ownerAddress = to]
           owned == Index!SaveSRR(d, Id, made)
           given == [owner |-> to, issuer |-> rec.issuer, artist |-> rec.artist,
                     metadataDigest |-> rec.metadataDigest, commitment |-> rec.commitment]
<1>1. DbOK(d) /\ Id \in DOMAIN d["SRR"] /\ IsSRR(shown) /\ Shows(shown, rec, millis)
  BY KnownRecord
<1>2. IsSRR(made) /\ made.ownerAddress = to
      /\ \A f \in SRRField \ {"ownerAddress"} : made[f] = shown[f]
  BY <1>1 DEF IsSRR, SRRField
<1>3. later = Index!EndCommit(
                 Index!UpdateSRR(owned, Id, [owned["SRR"][Id] EXCEPT !.transferCommitment = Null]),
                 Id, action, Null)
  BY <1>1 DEF IsAbout, Index!handleTransferFromMigration, Index!Has,
     Index!checkAndClearCommitOnTransfer
<1>4. /\ given.owner = to /\ given.issuer = rec.issuer /\ given.artist = rec.artist
      /\ given.metadataDigest = rec.metadataDigest /\ given.commitment = rec.commitment
  OBVIOUS
<1>5. next.owner = to
  OBVIOUS
<1> HIDE DEF made, shown, to, action, given
<1>6. Writes(d, owned, made)
  BY <1>1, <1>2, SaveRecord
<1>7. Shows(made, given, millis)
  BY <1>1, <1>2, <1>4 DEF Shows, SRRField
<1> HIDE DEF owned
<1>8. Tells(owned, given, millis) /\ SameProvenance(d, owned)
  BY <1>6, <1>7, WritesTells
<1>9. Tells(later, next, millis) /\ SameProvenance(owned, later)
  BY <1>3, <1>4, <1>5, <1>8, EndsCommitment
<1>10. QED
  BY <1>8, <1>9 DEF SameProvenance

\* The chain it came from.
LEMMA MigrateHandled ==
    ASSUME NEW d, NEW rec, NEW millis, Tells(d, rec, millis),
           NEW e, IsAbout(e), NEW later, later = Index!handleMigrateSRR(d, e)
    PROVE  /\ Tells(later, rec, millis) /\ SameProvenance(d, later)
           /\ later["SRR"][Id].originChain = e.originChain
<1> DEFINE shown == d["SRR"][Id]
           made == [shown EXCEPT !.originChain = e.originChain]
<1>1. DbOK(d) /\ Id \in DOMAIN d["SRR"] /\ IsSRR(shown) /\ Shows(shown, rec, millis)
  BY KnownRecord
<1>2. IsSRR(made) /\ made.originChain = e.originChain
      /\ \A f \in SRRField \ {"originChain"} : made[f] = shown[f]
  BY <1>1 DEF IsSRR, SRRField
<1>3. later = Index!UpdateSRR(d, Id, made)
  BY DEF IsAbout, Index!handleMigrateSRR
<1> HIDE DEF made, shown
<1>4. Writes(d, later, made)
  BY <1>1, <1>2, <1>3, SaveRecord
<1>5. Shows(made, rec, millis)
  BY <1>1, <1>2 DEF Shows, SRRField
<1>6. QED
  BY <1>2, <1>4, <1>5, WritesTells DEF Writes

\* A provenance is noted under the record and its time, unless there is one already.
Noted(d, later, key, from, to, millis) ==
    LET before == d["SRRProvenance"]
        after == later["SRRProvenance"]
    IN  /\ \A id \in DOMAIN before : id \in DOMAIN after /\ after[id] = before[id]
        /\ key \in DOMAIN after
        /\ key \notin DOMAIN before =>
              /\ {"from", "to", "timestamp"} \subseteq DOMAIN after[key]
              /\ after[key].from = from /\ after[key].to = to /\ after[key].timestamp = millis

LEMMA ProvenanceHandled ==
    ASSUME NEW d, NEW rec, NEW millis, Tells(d, rec, millis),
           NEW e, IsAbout(e), NEW later, later = Index!handleSRRProvenanceFromMigration(d, e),
           NEW next, next.owner = e.to, next.issuer = rec.issuer, next.artist = rec.artist,
           next.metadataDigest = rec.metadataDigest, next.commitment = rec.commitment
    PROVE  /\ Tells(later, next, millis)
           /\ Noted(d, later, <<Id, Index!originMillis(e)>>, e.from, e.to, Index!originMillis(e))
<1> DEFINE shown == d["SRR"][Id]
           to == e.to
           made == [shown EXCEPT !.ownerAddress = to]
           mid == Index!UpdateSRR(d, Id, made)
           stamp == Index!originMillis(e)
           key == <<Id, stamp>>
           entity == [srr |-> Id, from |-> e.from, to |-> to, sender |-> Null,
                      customHistory |-> e.customHistory, metadataDigest |-> e.digest,
                      timestamp |-> stamp]
           type == "SRRProvenance"
<1>1. DbOK(d) /\ Id \in DOMAIN d["SRR"] /\ IsSRR(shown) /\ Shows(shown, rec, millis)
  BY KnownRecord
<1>2. IsSRR(made) /\ made.ownerAddress = to
      /\ \A f \in SRRField \ {"ownerAddress"} : made[f] = shown[f]
  BY <1>1 DEF IsSRR, SRRField
<1>3. later = IF key \in DOMAIN mid["SRRProvenance"] THEN mid
              ELSE Index!Save(mid, type, key, entity)
  <2>1. Writes(d, mid, made)
    BY <1>1, <1>2, SaveRecord
  <2>2. mid["SRRProvenance"] = d["SRRProvenance"]
    BY <2>1 DEF Writes
  <2>3. later = IF key \in DOMAIN d["SRRProvenance"] THEN mid
                ELSE Index!Save(mid, type, key, entity)
    BY <1>1 DEF IsAbout, Index!handleSRRProvenanceFromMigration,
       Index!handleSRRProvenanceInternal, Index!IfKnown, Index!Has
  <2>4. QED
    BY <2>2, <2>3
<1>4. /\ entity.from = e.from /\ entity.to = to /\ entity.timestamp = stamp
      /\ {"from", "to", "timestamp"} \subseteq DOMAIN entity
  OBVIOUS
<1>5. next.owner = to
  OBVIOUS
<1>6. Writes(d, mid, made)
  BY <1>1, <1>2, SaveRecord
<1>7. Shows(made, next, millis)
  BY <1>1, <1>2, <1>5 DEF Shows, SRRField
<1> HIDE DEF mid, made, shown, entity, key
<1>8. DbOK(mid) /\ mid["SRRProvenance"] = d["SRRProvenance"] /\ mid["SRR"][Id] = made
      /\ Id \in DOMAIN mid["SRR"]
  BY <1>6 DEF Writes
<1>9. CASE key \in DOMAIN mid["SRRProvenance"]
  <2>1. later = mid
    BY <1>3, <1>9
  <2>2. Noted(d, later, key, e.from, to, stamp)
    BY <1>8, <1>9, <2>1 DEF Noted
  <2>3. Tells(later, next, millis)
    BY <1>7, <1>8, <2>1 DEF Tells
  <2>4. QED
    BY <2>2, <2>3 DEF key
<1>10. CASE key \notin DOMAIN mid["SRRProvenance"]
  <2>1. later = Index!Save(mid, type, key, entity)
    BY <1>3, <1>10
  <2>2. Saved(mid, "SRRProvenance", key, entity, later)
    BY <1>8, <2>1, SaveSaves, TablesOfDb
  <2>3. /\ DOMAIN later = DOMAIN mid /\ later["SRR"] = mid["SRR"]
        /\ later["LicensedUserWallet"] = mid["LicensedUserWallet"]
        /\ DOMAIN later["SRRProvenance"] = DOMAIN mid["SRRProvenance"] \union {key}
        /\ later["SRRProvenance"][key] = entity
        /\ \A other \in DOMAIN mid["SRRProvenance"] : other # key =>
              later["SRRProvenance"][other] = mid["SRRProvenance"][other]
    BY <1>8, <2>2, TablesOfDb DEF Saved
  <2>4. Noted(d, later, key, e.from, to, stamp)
    BY <1>4, <1>8, <1>10, <2>3 DEF Noted
  <2>5. Tells(later, next, millis)
    BY <1>7, <1>8, <2>3 DEF Tells, DbOK
  <2>6. QED
    BY <2>4, <2>5 DEF key
<1>11. QED
  BY <1>9, <1>10

\* The record is not known yet.
Unknown(d) == DbOK(d) /\ Id \notin DOMAIN d["SRR"]

NewRecord(issuer, artist, digest) ==
    [owner |-> issuer, issuer |-> issuer, artist |-> artist, metadataDigest |-> digest,
     commitment |-> Null, customHistory |-> Null]

\* The two events of an issue, in the usual order.
LEMMA MintThenCreate ==
    ASSUME NEW d, Unknown(d), NEW issuer, NEW artist, NEW digest, NEW millis \in Nat,
           NEW e, IsAbout(e), e.from = ZERO, e.to = issuer, Index!originMillis(e) = millis,
           NEW mid, mid = Index!handleTransferFromMigration(d, e),
           NEW f, IsAbout(f), f.issuer = issuer, f.artist = artist, f.metadataDigest = digest,
           NEW later, later = Index!handleCreateSRRFromMigration(mid, f)
    PROVE  Tells(later, NewRecord(issuer, artist, digest), millis) /\ SameProvenance(d, later)
<1> DEFINE blank == [Index!NewSRR EXCEPT !.createdAt = millis, !.originChain = HereChain]
           minted == [blank EXCEPT !.ownerAddress = issuer]
           artistId == Index!getLicensedUserIdFromAddress(mid, artist)
           issuerId == Index!getLicensedUserIdFromAddress(mid, issuer)
           flag == FALSE
           made == [minted EXCEPT !.metadataDigest = digest, !.lockExternalTransfer = flag,
                                  !.artistAddress = artist, !.artist = artistId,
                                  !.issuer = issuerId]
           saved == Index!SaveSRR(mid, Id, made)
           place == <<Id, digest>>
           entity == [srr |-> Id, metadataDigest |-> digest]
           type == "SRRMetadataHistory"
<1>1. /\ IsSRR(minted) /\ minted.ownerAddress = issuer /\ minted.createdAt = millis
      /\ minted.transferCommitment = Null
  BY DEF Index!NewSRR, IsSRR, SRRField
<1>2. mid = Index!SaveSRR(d, Id, minted)
  BY DEF Unknown, IsAbout, Index!handleTransferFromMigration, Index!Has
<1> HIDE DEF minted
<1>3. Writes(d, mid, minted)
  BY <1>1, <1>2, SaveRecord DEF Unknown
<1>4. /\ DbOK(mid) /\ Id \in DOMAIN mid["SRR"] /\ mid["SRR"][Id] = minted
      /\ mid["SRRProvenance"] = d["SRRProvenance"]
  BY <1>3 DEF Writes
<1>5. later = Index!Save(saved, type, place, entity)
  BY <1>4 DEF IsAbout, Index!handleCreateSRRFromMigration, Index!saveCreateSRRInternal,
     Index!saveSRRMetadataHistory, Index!Has
<1>6. /\ issuer \in LicensedUser => issuerId = issuer
      /\ artist \in LicensedUser => artistId = artist
  BY <1>4 DEF DbOK, Index!getLicensedUserIdFromAddress, Index!Has, Index!LUW
<1>7. type \in {"SRRMetadataHistory", "SRRTransferCommit"}
  OBVIOUS
<1> HIDE DEF artistId, issuerId, flag, entity, place, type
<1>8. /\ IsSRR(made) /\ made.metadataDigest = digest /\ made.artist = artistId
      /\ made.issuer = issuerId /\ made.ownerAddress = issuer /\ made.createdAt = millis
      /\ made.transferCommitment = Null
  BY <1>1 DEF IsSRR, SRRField
<1> HIDE DEF made
<1>9. Writes(mid, saved, made)
  BY <1>4, <1>8, SaveRecord
<1> HIDE DEF saved
<1>10. Writes(mid, later, made)
  BY <1>5, <1>7, <1>9, SaveBeside
<1>11. Shows(made, NewRecord(issuer, artist, digest), millis)
  BY <1>6, <1>8 DEF Shows, NewRecord
<1>12. Tells(later, NewRecord(issuer, artist, digest), millis) /\ SameProvenance(mid, later)
  BY <1>10, <1>11, WritesTells
<1>13. QED
  BY <1>4, <1>12 DEF SameProvenance

\* And in the other.
LEMMA CreateThenMint ==
    ASSUME NEW d, Unknown(d), NEW issuer, NEW artist, NEW digest, NEW millis \in Nat,
           NEW f, IsAbout(f), f.issuer = issuer, f.artist = artist, f.metadataDigest = digest,
           Index!originMillis(f) = millis,
           NEW mid, mid = Index!handleCreateSRRFromMigration(d, f),
           NEW e, IsAbout(e), e.from = ZERO, e.to = issuer,
           NEW later, later = Index!handleTransferFromMigration(mid, e)
    PROVE  Tells(later, NewRecord(issuer, artist, digest), millis) /\ SameProvenance(d, later)
<1> DEFINE blank == [Index!NewSRR EXCEPT !.createdAt = millis]
           artistId == Index!getLicensedUserIdFromAddress(d, artist)
           issuerId == Index!getLicensedUserIdFromAddress(d, issuer)
           flag == FALSE
           created == [blank EXCEPT !.metadataDigest = digest, !.lockExternalTransfer = flag,
                                    !.artistAddress = artist, !.artist = artistId,
                                    !.issuer = issuerId]
           saved == Index!SaveSRR(d, Id, created)
           place == <<Id, digest>>
           entity == [srr |-> Id, metadataDigest |-> digest]
           type == "SRRMetadataHistory"
           made == [created EXCEPT !.ownerAddress = issuer]
<1>1. mid = Index!Save(saved, type, place, entity)
  BY DEF Unknown, IsAbout, Index!handleCreateSRRFromMigration, Index!saveCreateSRRInternal,
     Index!saveSRRMetadataHistory, Index!Has
<1>2. /\ issuer \in LicensedUser => issuerId = issuer
      /\ artist \in LicensedUser => artistId = artist
  BY DEF Unknown, DbOK, Index!getLicensedUserIdFromAddress, Index!Has, Index!LUW
<1>3. type \in {"SRRMetadataHistory", "SRRTransferCommit"}
  OBVIOUS
<1> HIDE DEF artistId, issuerId, flag, entity, place, type
<1>4. /\ IsSRR(created) /\ created.metadataDigest = digest /\ created.artist = artistId
      /\ created.issuer = issuerId /\ created.createdAt = millis
      /\ created.transferCommitment = Null
  BY DEF Index!NewSRR, IsSRR, SRRField
<1> HIDE DEF created
<1>5. Writes(d, saved, created)
  BY <1>4, SaveRecord DEF Unknown
<1> HIDE DEF saved
<1>6. Writes(d, mid, created)
  BY <1>1, <1>3, <1>5, SaveBeside
<1>7. /\ DbOK(mid) /\ Id \in DOMAIN mid["SRR"] /\ mid["SRR"][Id] = created
      /\ mid["SRRProvenance"] = d["SRRProvenance"]
  BY <1>6 DEF Writes
<1>8. later = Index!SaveSRR(mid, Id, made)
  BY <1>7 DEF IsAbout, Index!handleTransferFromMigration, Index!Has
<1>9. /\ IsSRR(made) /\ made.metadataDigest = digest /\ made.artist = artistId
      /\ made.issuer = issuerId /\ made.ownerAddress = issuer /\ made.createdAt = millis
      /\ made.transferCommitment = Null
  BY <1>4 DEF IsSRR, SRRField
<1> HIDE DEF made
<1>10. Writes(mid, later, made)
  BY <1>7, <1>8, <1>9, SaveRecord
<1>11. Shows(made, NewRecord(issuer, artist, digest), millis)
  BY <1>2, <1>9 DEF Shows, NewRecord
<1>12. Tells(later, NewRecord(issuer, artist, digest), millis) /\ SameProvenance(mid, later)
  BY <1>10, <1>11, WritesTells
<1>13. QED
  BY <1>7, <1>12 DEF SameProvenance

\* The fix touches nothing but the time of the provenance with the wrong timestamp.
LEMMA FixHandled ==
    ASSUME NEW d, NEW rec, NEW millis, Tells(d, rec, millis),
           NEW e, IsAbout(e), NEW later, later = Index!handleProvenanceDateMigrationFix(d, e),
           NEW key, key = <<Id, 66000>>, key \in DOMAIN d["SRRProvenance"],
           {"from", "to", "timestamp"} \subseteq DOMAIN d["SRRProvenance"][key]
    PROVE  /\ Tells(later, rec, millis) /\ later["SRR"] = d["SRR"]
           /\ key \in DOMAIN later["SRRProvenance"]
           /\ {"from", "to", "timestamp"} \subseteq DOMAIN later["SRRProvenance"][key]
           /\ later["SRRProvenance"][key].from = d["SRRProvenance"][key].from
           /\ later["SRRProvenance"][key].to = d["SRRProvenance"][key].to
           /\ later["SRRProvenance"][key].timestamp = e.originMillis
<1> DEFINE noted == d["SRRProvenance"][key]
           made == [noted EXCEPT !.timestamp = e.originMillis]
<1>1. later = Index!Save(d, "SRRProvenance", key, made)
  BY DEF IsAbout, Index!handleProvenanceDateMigrationFix, Index!IfKnown, Index!Has
<1>2. /\ made.from = noted.from /\ made.to = noted.to /\ made.timestamp = e.originMillis
      /\ {"from", "to", "timestamp"} \subseteq DOMAIN made
  OBVIOUS
<1> HIDE DEF made, noted
<1>3. DbOK(d)
  BY DEF Tells
<1>4. Saved(d, "SRRProvenance", key, made, later)
  BY <1>1, <1>3, SaveSaves, TablesOfDb
<1>5. /\ DOMAIN later = DOMAIN d /\ later["SRR"] = d["SRR"]
      /\ later["LicensedUserWallet"] = d["LicensedUserWallet"]
      /\ key \in DOMAIN later["SRRProvenance"] /\ later["SRRProvenance"][key] = made
  BY <1>3, <1>4, TablesOfDb DEF Saved
<1>6. Tells(later, rec, millis)
  BY <1>5 DEF Tells, DbOK
<1>7. QED
  BY <1>2, <1>5, <1>6 DEF noted

-----------------------------------------------------------------------------
(* What a replay of the history leads to. *)

Places(h) == {i \in DOMAIN h : h[i][1].event = "ProvenanceFromMigration"}
IsFirst(h, f) == f \in Places(h) /\ \A j \in Places(h) : f <= j

\* The change of hands is noted under the key, with this time.
Dated(d, key, e, millis) ==
    LET p == d["SRRProvenance"][key]
    IN  /\ key \in DOMAIN d["SRRProvenance"]
        /\ {"from", "to", "timestamp"} \subseteq DOMAIN p
        /\ p.from = e.from /\ p.to = e.to /\ p.timestamp = millis

Millis(entry, bad) == 1000 * StampOf(entry, bad)

\* The first change of hands is noted, and under its time.
FirstDated(d, h, bad) ==
    /\ Places(h) = {} => DOMAIN d["SRRProvenance"] = {}
    /\ \A f : IsFirst(h, f) =>
          Dated(d, <<Id, Millis(h[f], bad)>>, h[f][1], Millis(h[f], bad))

\* The database is what a replay of the history should have made.
Agrees(d, rec, h, bad) ==
    /\ rec = Null => h = << >> /\ Unknown(d)
    /\ rec # Null => h # << >> /\ Tells(d, rec, 1000 * h[1][2])
    /\ FirstDated(d, h, bad)

Shape ==
    /\ originTime \in Nat
    /\ IsList(history) /\ \A i \in 1..Len(history) : history[i][2] \in Nat
    /\ record \in Record \union {Null}
    /\ badDates \in BOOLEAN /\ moved \in BOOLEAN /\ fixed \in BOOLEAN
    /\ fixed => badDates
    /\ badDates => moved
    /\ moved => record # Null

\* Before the move: what it would make of the database, if it came now.
Awaited ==
    /\ log = << >>
    /\ \A bad \in BOOLEAN : \E later :
          Makes(db, ReplayOf(history, bad), later) /\ Agrees(later, record, history, bad)

\* After it: what the log will have made of the database.
Told(later) ==
    /\ Tells(later, record, 1000 * history[1][2])
    /\ later["SRR"][Id].originChain = OriginChain
    /\ \A f : IsFirst(history, f) =>
          Dated(later, <<Id, Millis(history[f], badDates)>>, history[f][1],
                IF fixed THEN 1000 * history[f][2] ELSE Millis(history[f], badDates))

Follows ==
    /\ Shape
    /\ ~moved => Awaited
    /\ moved => \E later : Leads(db, log, later) /\ Told(later)

\* Events that are no change of hands leave the first one as it was.
LEMMA QuietFirst ==
    ASSUME NEW h, IsList(h), NEW k, IsList(k), Places(k) = {}, NEW bad,
           NEW d, FirstDated(d, h, bad), NEW later, SameProvenance(d, later)
    PROVE  FirstDated(later, h \o k, bad)
<1>1. /\ Len(h) \in Nat /\ Len(k) \in Nat
      /\ DOMAIN h = 1..Len(h) /\ DOMAIN k = 1..Len(k) /\ DOMAIN (h \o k) = 1..Len(h \o k)
  BY ListFacts, ConcatFacts DEF IsList
<1>2. /\ Len(h \o k) = Len(h) + Len(k)
      /\ \A i \in 1..Len(h) : (h \o k)[i] = h[i]
      /\ \A i \in Len(h) + 1..Len(h) + Len(k) : (h \o k)[i] = k[i - Len(h)]
  BY ConcatFacts
<1>3. \A i \in 1..Len(k) : k[i][1].event # "ProvenanceFromMigration"
  BY <1>1 DEF Places
<1> DEFINE n == Len(h)
           m == Len(k)
<1> HIDE DEF n, m
<1>4. \A i \in n + 1..n + m : i - n \in 1..m /\ (h \o k)[i] = k[i - n]
  BY <1>1, <1>2 DEF n, m
<1>5. \A i \in n + 1..n + m : (h \o k)[i][1].event # "ProvenanceFromMigration"
  BY <1>3, <1>4 DEF m
<1>6. \A i \in 1..n + m : i \in 1..n \/ i \in n + 1..n + m
  BY <1>1 DEF n, m
<1>7. Places(h \o k) = Places(h) /\ \A i \in Places(h) : (h \o k)[i] = h[i]
  <2>1. 1..n \subseteq 1..n + m
    BY <1>1 DEF n, m
  <2>2. QED
    BY <1>1, <1>2, <1>5, <1>6, <2>1 DEF Places, n, m
<1>8. \A f : IsFirst(h \o k, f) => IsFirst(h, f) /\ (h \o k)[f] = h[f]
  BY <1>7 DEF IsFirst
<1>9. QED
  BY <1>7, <1>8 DEF FirstDated, SameProvenance, Dated

\* The first change of hands takes a place of its own, and the later ones leave it be.
LEMMA RevealFirst ==
    ASSUME NEW h, IsList(h), NEW k, IsList(k), Places(k) = {1}, NEW bad,
           NEW d, FirstDated(d, h, bad), NEW later,
           Noted(d, later, <<Id, Millis(k[1], bad)>>, k[1][1].from, k[1][1].to,
                 Millis(k[1], bad))
    PROVE  FirstDated(later, h \o k, bad)
<1> DEFINE n == Len(h)
           m == Len(k)
           c == h \o k
<1>1. /\ n \in Nat /\ m \in Nat
      /\ DOMAIN h = 1..n /\ DOMAIN k = 1..m /\ DOMAIN c = 1..n + m
  BY ListFacts, ConcatFacts DEF IsList
<1>2. /\ \A i \in 1..n : c[i] = h[i]
      /\ \A i \in n + 1..n + m : c[i] = k[i - n]
  BY ConcatFacts
<1> HIDE DEF n, m, c
<1>3. m >= 1 /\ 1 \in Places(k)
  BY <1>1 DEF Places
<1>4. n + 1 \in 1..n + m /\ c[n + 1] = k[1]
  BY <1>1, <1>2, <1>3
<1>5. n + 1 \in Places(c)
  BY <1>1, <1>3, <1>4 DEF Places
<1>6. \A i \in 1..n : i \in Places(c) <=> i \in Places(h)
  BY <1>1, <1>2 DEF Places
<1>7. ASSUME NEW f, IsFirst(c, f)
      PROVE  Dated(later, <<Id, Millis(c[f], bad)>>, c[f][1], Millis(c[f], bad))
  <2>1. f \in 1..n + m /\ f <= n + 1 /\ f \in Places(c)
    BY <1>1, <1>5, <1>7 DEF IsFirst, Places
  <2>2. CASE f \in 1..n
    <3>1. f \in Places(h) /\ \A j \in Places(h) : j \in 1..n
      BY <1>1, <1>6, <2>1, <2>2 DEF Places
    <3>2. IsFirst(h, f)
      BY <1>6, <1>7, <3>1 DEF IsFirst
    <3>3. Dated(d, <<Id, Millis(h[f], bad)>>, h[f][1], Millis(h[f], bad))
      BY <3>2 DEF FirstDated
    <3>4. QED
      BY <1>2, <2>2, <3>3 DEF Dated, Noted
  <2>3. CASE f = n + 1
    <3>1. Places(h) = {}
      <4>1. ASSUME NEW j \in Places(h) PROVE FALSE
        <5>1. j \in 1..n /\ j \in Places(c)
          BY <1>1, <1>6 DEF Places
        <5>2. f <= j
          BY <1>7, <5>1 DEF IsFirst
        <5>3. QED
          BY <1>1, <2>3, <5>1, <5>2
      <4>2. QED
        BY <4>1
    <3>2. DOMAIN d["SRRProvenance"] = {}
      BY <3>1 DEF FirstDated
    <3>3. Dated(later, <<Id, Millis(k[1], bad)>>, k[1][1], Millis(k[1], bad))
      BY <3>2 DEF Dated, Noted
    <3>4. QED
      BY <1>4, <2>3, <3>3
  <2>4. QED
    BY <1>1, <2>1, <2>2, <2>3
<1>8. QED
  BY <1>5, <1>7 DEF FirstDated, c

-----------------------------------------------------------------------------
(* Calls over there. *)

Added(events) == [i \in 1..Len(events) |-> <<events[i], originTime>>]

LEMMA AddedFacts ==
    ASSUME NEW s, IsList(s)
    PROVE  /\ IsList(Added(s)) /\ Len(Added(s)) = Len(s) /\ DOMAIN Added(s) = 1..Len(s)
           /\ \A i \in 1..Len(s) : Added(s)[i] = <<s[i], originTime>>
<1> DEFINE n == Len(s)
           A == [i \in 1..n |-> <<s[i], originTime>>]
<1>1. n \in Nat
  BY ListFacts
<1> HIDE DEF n
<1>2. /\ A \in Seq({<<s[i], originTime>> : i \in 1..n}) /\ Len(A) = n /\ DOMAIN A = 1..n
      /\ \A i \in 1..n : A[i] = <<s[i], originTime>>
  BY <1>1
<1>3. A = Added(s)
  BY DEF Added, n
<1> HIDE DEF A
<1>4. QED
  BY <1>2, <1>3 DEF IsList, n

LEMMA ReplayAdded ==
    ASSUME NEW bad
    PROVE  /\ ReplayOf(<< >>, bad) = << >>
           /\ \A e : ReplayOf(Added(<<e>>), bad) = <<ReplayedEntry(<<e, originTime>>, bad)>>
           /\ \A e, f : ReplayOf(Added(<<e, f>>), bad) =
                 <<ReplayedEntry(<<e, originTime>>, bad), ReplayedEntry(<<f, originTime>>, bad)>>
<1>1. ReplayOf(<< >>, bad) = << >>
  BY DEF ReplayOf
<1>2. ASSUME NEW e
      PROVE  ReplayOf(Added(<<e>>), bad) = <<ReplayedEntry(<<e, originTime>>, bad)>>
  <2>1. Added(<<e>>) = << <<e, originTime>> >>
    BY DEF Added
  <2> DEFINE x == <<e, originTime>>
  <2> HIDE DEF x
  <2>2. ReplayOf(<<x>>, bad) = <<ReplayedEntry(x, bad)>>
    BY DEF ReplayOf
  <2>3. QED
    BY <2>1, <2>2 DEF x
<1>3. ASSUME NEW e, NEW f
      PROVE  ReplayOf(Added(<<e, f>>), bad) =
                 <<ReplayedEntry(<<e, originTime>>, bad), ReplayedEntry(<<f, originTime>>, bad)>>
  <2>1. Added(<<e, f>>) = << <<e, originTime>>, <<f, originTime>> >>
    BY DEF Added
  <2> DEFINE x == <<e, originTime>>
             y == <<f, originTime>>
  <2> HIDE DEF x, y
  <2>2. ReplayOf(<<x, y>>, bad) = <<ReplayedEntry(x, bad), ReplayedEntry(y, bad)>>
    BY DEF ReplayOf
  <2>3. QED
    BY <2>1, <2>2 DEF x, y
<1>4. QED
  BY <1>1, <1>2, <1>3

\* A call adds to what a replay leads to.
LEMMA CallFollows ==
    ASSUME Follows, NEW events, IsList(events), Len(events) >= 1, Happens(events),
           record' \in Record,
           \A bad \in BOOLEAN : \A d : Agrees(d, record, history, bad) => \E later :
              /\ Makes(d, ReplayOf(Added(events), bad), later)
              /\ Agrees(later, record', history \o Added(events), bad)
    PROVE  Follows'
<1> DEFINE more == Added(events)
           h == history \o more
<1>1. /\ ~moved /\ history' = h
      /\ UNCHANGED <<originTime, moved, badDates, fixed, time, log, db>>
  BY DEF Happens, Added
<1>2. /\ IsList(history) /\ IsList(more) /\ Len(more) = Len(events)
      /\ \A i \in 1..Len(more) : more[i] = <<events[i], originTime>>
  BY AddedFacts DEF Follows, Shape
<1>3. \A i \in 1..Len(more) : more[i][2] \in Nat
  BY <1>2 DEF Follows, Shape
<1>4. /\ IsList(h) /\ \A i \in 1..Len(h) : h[i][2] \in Nat
  <2> DEFINE n == Len(history)
             m == Len(more)
  <2>1. n \in Nat /\ m \in Nat
    BY <1>2, ListFacts
  <2>2. /\ IsList(h) /\ Len(h) = n + m
        /\ \A i \in 1..n : h[i] = history[i]
        /\ \A i \in n + 1..n + m : h[i] = more[i - n]
    BY <1>2, ConcatFacts
  <2>3. /\ \A i \in 1..n : history[i][2] \in Nat
        /\ \A i \in 1..m : more[i][2] \in Nat
    BY <1>3 DEF Follows, Shape
  <2> HIDE DEF n, m, h, more
  <2>4. ASSUME NEW i \in 1..n + m PROVE h[i][2] \in Nat
    <3>1. CASE i \in 1..n
      BY <2>2, <2>3, <3>1
    <3>2. CASE i \in n + 1..n + m
      <4>1. i - n \in 1..m
        BY <2>1, <3>2
      <4>2. QED
        BY <2>2, <2>3, <3>2, <4>1
    <3>3. QED
      BY <2>1, <3>1, <3>2
  <2>5. QED
    BY <2>2, <2>4
<1>5. ASSUME NEW bad \in BOOLEAN
      PROVE  \E later : Makes(db, ReplayOf(h, bad), later) /\ Agrees(later, record', h, bad)
  <2>1. PICK d : Makes(db, ReplayOf(history, bad), d) /\ Agrees(d, record, history, bad)
    BY <1>1 DEF Follows, Awaited
  <2>2. PICK later : /\ Makes(d, ReplayOf(more, bad), later)
                     /\ Agrees(later, record', h, bad)
    BY <2>1
  <2>3. ReplayOf(h, bad) = ReplayOf(history, bad) \o ReplayOf(more, bad)
    BY <1>2, ReplayConcat
  <2>4. Makes(db, ReplayOf(h, bad), later)
    BY <2>1, <2>2, <2>3, MakesMore
  <2>5. QED
    BY <2>2, <2>4
<1>6. Follows'
  <2>1. ~moved' /\ db' = db /\ time' = time /\ history' = h /\ log' = << >>
    BY <1>1 DEF Follows, Awaited
  <2> HIDE DEF h
  <2>2. ASSUME NEW bad \in BOOLEAN
        PROVE  (\E later : /\ Makes(db, ReplayOf(history, bad), later)
                           /\ Agrees(later, record, history, bad))'
    BY <1>5, <2>1 DEF Makes, Stamped, At
  <2>3. QED
    BY <1>1, <1>4, <2>1, <2>2 DEF Follows, Shape, Awaited
<1>7. QED
  BY <1>6

\* One that is no change of hands of a record that is there.
LEMMA QuietCall ==
    ASSUME Follows, NEW events, IsList(events), Len(events) >= 1, Happens(events),
           record # Null, record' \in Record,
           \A i \in 1..Len(events) : events[i].event # "ProvenanceFromMigration",
           \A bad \in BOOLEAN : \A d, millis : Tells(d, record, millis) => \E later :
              /\ Makes(d, ReplayOf(Added(events), bad), later)
              /\ Tells(later, record', millis) /\ SameProvenance(d, later)
    PROVE  Follows'
<1> DEFINE more == Added(events)
           h == history \o more
<1>1. /\ IsList(more) /\ Len(more) = Len(events) /\ DOMAIN more = 1..Len(events)
      /\ \A i \in 1..Len(events) : more[i] = <<events[i], originTime>>
  BY AddedFacts
<1>2. Places(more) = {}
  BY <1>1 DEF Places
<1>3. record' # Null
  BY MovedAssumption
<1> HIDE DEF more
<1>4. ASSUME NEW bad \in BOOLEAN, NEW d, Agrees(d, record, history, bad)
      PROVE  \E later : /\ Makes(d, ReplayOf(more, bad), later)
                        /\ Agrees(later, record', h, bad)
  <2>1. history # << >> /\ Tells(d, record, 1000 * history[1][2]) /\ FirstDated(d, history, bad)
    BY <1>4 DEF Agrees
  <2>2. PICK later : /\ Makes(d, ReplayOf(more, bad), later)
                     /\ Tells(later, record', 1000 * history[1][2]) /\ SameProvenance(d, later)
    BY <2>1 DEF more
  <2>3. IsList(history)
    BY DEF Follows, Shape
  <2>4. /\ Len(history) \in Nat /\ Len(history) >= 1
        /\ Len(h) = Len(history) + Len(more) /\ Len(more) \in Nat
        /\ \A i \in 1..Len(history) : h[i] = history[i]
    <3>1. Len(history) \in Nat /\ Len(history) >= 1 /\ Len(more) \in Nat
      BY <1>1, <2>1, <2>3, ListFacts
    <3>2. QED
      BY <1>1, <2>3, <3>1, ConcatFacts
  <2>5. h[1] = history[1] /\ h # << >>
    <3>1. 1 \in 1..Len(history) /\ Len(h) >= 1 /\ Len(<< >>) = 0
      BY <2>4
    <3> HIDE DEF h
    <3>2. QED
      BY <2>4, <3>1
  <2>6. FirstDated(later, h, bad)
    BY <1>1, <1>2, <2>1, <2>2, <2>3, QuietFirst
  <2> HIDE DEF h
  <2>7. Agrees(later, record', h, bad)
    BY <1>3, <2>2, <2>5, <2>6 DEF Agrees
  <2>8. QED
    BY <2>2, <2>7
<1>5. QED
  BY <1>4, CallFollows DEF more

\* The events say of the record what they said over there.
SaysAs(r, e) == IsAbout(r) /\ \A f \in DOMAIN e : r[f] = e[f]

NoPlace(e) == DOMAIN e \cap {"address", "tokenId", "originTimestamp"} = {}

LEMMA EntrySays ==
    ASSUME NEW e, NoPlace(e), NEW bad
    PROVE  SaysAs(ReplayedEntry(<<e, originTime>>, bad), e)
BY ReplayedSays DEF SaysAs, IsAbout, ReplayedEntry, NoPlace

LEMMA OneQuiet ==
    ASSUME Follows, NEW e, NoPlace(e), Happens(<<e>>), e.event # "ProvenanceFromMigration",
           record # Null, record' \in Record,
           \A r, d, millis : SaysAs(r, e) /\ Tells(d, record, millis) =>
              Tells(Handled(d, At(r)), record', millis) /\ SameProvenance(d, Handled(d, At(r)))
    PROVE  Follows'
<1> DEFINE events == <<e>>
<1>1. /\ IsList(events) /\ Len(events) >= 1 /\ Happens(events)
      /\ \A i \in 1..Len(events) : events[i].event # "ProvenanceFromMigration"
  <2>1. events \in Seq({e}) /\ Len(events) = 1 /\ events[1] = e /\ Happens(events)
    OBVIOUS
  <2>2. \A i \in 1..1 : i = 1
    OBVIOUS
  <2> HIDE DEF events
  <2>3. IsList(events) /\ Len(events) >= 1
    BY <2>1 DEF IsList
  <2>4. QED
    BY <2>1, <2>2, <2>3
<1>2. ASSUME NEW bad \in BOOLEAN, NEW d, NEW millis, Tells(d, record, millis)
      PROVE  \E later : /\ Makes(d, ReplayOf(Added(events), bad), later)
                        /\ Tells(later, record', millis) /\ SameProvenance(d, later)
  <2> DEFINE r == ReplayedEntry(<<e, originTime>>, bad)
  <2>1. SaysAs(r, e)
    BY EntrySays
  <2>2. ReplayOf(Added(events), bad) = <<r>>
    BY ReplayAdded
  <2> HIDE DEF r
  <2>3. Makes(d, <<r>>, Handled(d, At(r)))
    BY MakesOne
  <2>4. QED
    BY <1>2, <2>1, <2>2, <2>3
<1> HIDE DEF events
<1>3. QED
  BY <1>1, <1>2, QuietCall

LEMMA TwoQuiet ==
    ASSUME Follows, NEW e, NoPlace(e), NEW f, NoPlace(f), Happens(<<e, f>>),
           e.event # "ProvenanceFromMigration", f.event # "ProvenanceFromMigration",
           record # Null, record' \in Record, NEW between,
           \A r, d, millis : SaysAs(r, e) /\ Tells(d, record, millis) =>
              Tells(Handled(d, At(r)), between, millis) /\ SameProvenance(d, Handled(d, At(r))),
           \A r, d, millis : SaysAs(r, f) /\ Tells(d, between, millis) =>
              Tells(Handled(d, At(r)), record', millis) /\ SameProvenance(d, Handled(d, At(r)))
    PROVE  Follows'
<1> DEFINE events == <<e, f>>
<1>1. /\ IsList(events) /\ Len(events) >= 1 /\ Happens(events)
      /\ \A i \in 1..Len(events) : events[i].event # "ProvenanceFromMigration"
  <2>1. /\ events \in Seq({e, f}) /\ Len(events) = 2 /\ events[1] = e /\ events[2] = f
        /\ Happens(events)
    OBVIOUS
  <2>2. \A i \in 1..2 : i = 1 \/ i = 2
    OBVIOUS
  <2> HIDE DEF events
  <2>3. IsList(events) /\ Len(events) >= 1
    BY <2>1 DEF IsList
  <2>4. QED
    BY <2>1, <2>2, <2>3
<1>2. ASSUME NEW bad \in BOOLEAN, NEW d, NEW millis, Tells(d, record, millis)
      PROVE  \E later : /\ Makes(d, ReplayOf(Added(events), bad), later)
                        /\ Tells(later, record', millis) /\ SameProvenance(d, later)
  <2> DEFINE r == ReplayedEntry(<<e, originTime>>, bad)
             s == ReplayedEntry(<<f, originTime>>, bad)
             mid == Handled(d, At(r))
             later == Handled(mid, At(s))
  <2>1. SaysAs(r, e) /\ SaysAs(s, f)
    BY EntrySays
  <2>2. ReplayOf(Added(events), bad) = <<r, s>>
    BY ReplayAdded
  <2> HIDE DEF r, s
  <2>3. Makes(d, <<r, s>>, later)
    BY MakesTwo
  <2>4. Tells(mid, between, millis) /\ SameProvenance(d, mid)
    BY <1>2, <2>1
  <2> HIDE DEF mid
  <2>5. Tells(later, record', millis) /\ SameProvenance(mid, later)
    BY <2>1, <2>4
  <2> HIDE DEF later
  <2>6. SameProvenance(d, later)
    BY <2>4, <2>5 DEF SameProvenance
  <2>7. QED
    BY <2>2, <2>3, <2>5, <2>6
<1> HIDE DEF events
<1>3. QED
  BY <1>1, <1>2, QuietCall

\* The handler of each event.
LEMMA Dispatch ==
    ASSUME NEW d, NEW e
    PROVE  /\ e.event = "TransferFromMigration" =>
                 Handled(d, At(e)) = Index!handleTransferFromMigration(d, e)
           /\ e.event = "CreateSRRFromMigration" =>
                 Handled(d, At(e)) = Index!handleCreateSRRFromMigration(d, e)
           /\ e.event = "MigrateSRR" => Handled(d, At(e)) = Index!handleMigrateSRR(d, e)
           /\ e.event = "SRRCommitmentFromMigration" =>
                 Handled(d, At(e)) = Index!handleSRRCommitmentFromMigration(d, e)
           /\ e.event = "ProvenanceFromMigration" =>
                 Handled(d, At(e)) = Index!handleSRRProvenanceFromMigration(d, e)
           /\ e.event = "SRRCommitmentCancelledFromMigration" =>
                 Handled(d, At(e)) = Index!handleSRRCommitmentCancelledFromMigration(d, e)
           /\ e.event = "UpdateSRRFromMigration" =>
                 Handled(d, At(e)) = Index!handleUpdateSRRFromMigration(d, e)
           /\ e.event = "UpdateSRRMetadataDigestFromMigration" =>
                 Handled(d, At(e)) = Index!handleUpdateSRRMetadataDigestFromMigration(d, e)
           /\ e.event = "ProvenanceDateMigrationFix" =>
                 Handled(d, At(e)) = Index!handleProvenanceDateMigrationFix(d, e)
BY DEF Handled, At, Index!HandleMigrationEvent

LEMMA KnownFollows ==
    ASSUME Follows, record # Null
    PROVE  record \in Record
BY DEF Follows, Shape

LEMMA UpdateArtistFollows == Follows /\ UpdateArtist => Follows'
<1> SUFFICES ASSUME Follows, NEW artist \in Account, record # Null,
                    record' = [record EXCEPT !.artist = artist],
                    Happens(<<[event |-> "UpdateSRRFromMigration", artist |-> artist]>>)
             PROVE  Follows'
  BY DEF UpdateArtist
<1> DEFINE e == [event |-> "UpdateSRRFromMigration", artist |-> artist]
<1>1. /\ NoPlace(e) /\ e.event = "UpdateSRRFromMigration" /\ e.artist = artist
      /\ {"event", "artist"} \subseteq DOMAIN e
  BY DEF NoPlace
<1> HIDE DEF e
<1>2. record \in Record /\ record' \in Record
  BY KnownFollows DEF Record
<1>3. ASSUME NEW r, NEW d, NEW millis, SaysAs(r, e), Tells(d, record, millis)
      PROVE  Tells(Handled(d, At(r)), record', millis) /\ SameProvenance(d, Handled(d, At(r)))
  <2>1. r.event = "UpdateSRRFromMigration" /\ r.artist = artist /\ IsAbout(r)
    BY <1>1, <1>3 DEF SaysAs
  <2>2. Handled(d, At(r)) = Index!handleUpdateSRRFromMigration(d, r)
    BY <2>1, Dispatch
  <2>3. QED
    BY <1>2, <1>3, <2>1, <2>2, ArtistHandled
<1>4. QED
  BY <1>1, <1>2, <1>3, OneQuiet DEF e

LEMMA UpdateMetadataFollows == Follows /\ UpdateMetadata => Follows'
<1> SUFFICES ASSUME Follows, NEW digest \in Digest, record # Null,
                    record' = [record EXCEPT !.metadataDigest = digest],
                    Happens(<<[event |-> "UpdateSRRMetadataDigestFromMigration",
                               metadataDigest |-> digest]>>)
             PROVE  Follows'
  BY DEF UpdateMetadata
<1> DEFINE e == [event |-> "UpdateSRRMetadataDigestFromMigration", metadataDigest |-> digest]
<1>1. /\ NoPlace(e) /\ e.event = "UpdateSRRMetadataDigestFromMigration"
      /\ e.metadataDigest = digest /\ {"event", "metadataDigest"} \subseteq DOMAIN e
  BY DEF NoPlace
<1> HIDE DEF e
<1>2. record \in Record /\ record' \in Record
  BY KnownFollows DEF Record
<1>3. ASSUME NEW r, NEW d, NEW millis, SaysAs(r, e), Tells(d, record, millis)
      PROVE  Tells(Handled(d, At(r)), record', millis) /\ SameProvenance(d, Handled(d, At(r)))
  <2>1. /\ r.event = "UpdateSRRMetadataDigestFromMigration" /\ r.metadataDigest = digest
        /\ IsAbout(r)
    BY <1>1, <1>3 DEF SaysAs
  <2>2. Handled(d, At(r)) = Index!handleUpdateSRRMetadataDigestFromMigration(d, r)
    BY <2>1, Dispatch
  <2>3. QED
    BY <1>2, <1>3, <2>1, <2>2, MetadataHandled
<1>4. QED
  BY <1>1, <1>2, <1>3, OneQuiet DEF e

LEMMA TransferPlainlyFollows == Follows /\ TransferPlainly => Follows'
<1> SUFFICES ASSUME Follows, NEW to \in Account, record # Null,
                    record' = [record EXCEPT !.owner = to], Happens(<<Moves(record.owner, to)>>)
             PROVE  Follows'
  BY DEF TransferPlainly
<1> DEFINE e == Moves(record.owner, to)
<1>1. record \in Record /\ record' \in Record
  BY KnownFollows DEF Record
<1>2. /\ record'.owner = to /\ record'.issuer = record.issuer
      /\ record'.artist = record.artist /\ record'.metadataDigest = record.metadataDigest
      /\ record.owner # ZERO
  BY <1>1, MovedAssumption DEF Record
<1>3. /\ NoPlace(e) /\ e.event = "TransferFromMigration" /\ e.to = to
      /\ e.from = record.owner /\ {"event", "to", "from"} \subseteq DOMAIN e
  BY DEF NoPlace, Moves
<1> HIDE DEF e
<1>4. ASSUME NEW r, NEW d, NEW millis, SaysAs(r, e), Tells(d, record, millis)
      PROVE  Tells(Handled(d, At(r)), record', millis) /\ SameProvenance(d, Handled(d, At(r)))
  <2>1. /\ r.event = "TransferFromMigration" /\ r.to = to /\ r.from = record.owner
        /\ IsAbout(r)
    BY <1>3, <1>4 DEF SaysAs
  <2>2. Handled(d, At(r)) = Index!handleTransferFromMigration(d, r)
    BY <2>1, Dispatch
  <2>3. record'.owner = r.to /\ r.from # ZERO
    BY <1>2, <2>1
  <2> DEFINE later == Handled(d, At(r))
             next == record'
  <2>4. /\ next.owner = r.to /\ next.issuer = record.issuer /\ next.artist = record.artist
        /\ next.metadataDigest = record.metadataDigest
    BY <1>2, <2>3
  <2>5. later = Index!handleTransferFromMigration(d, r)
    BY <2>2
  <2> HIDE DEF later, next
  <2>6. Tells(later, next, millis) /\ SameProvenance(d, later)
    BY <1>4, <2>1, <2>3, <2>4, <2>5, TransferHandled
  <2>7. QED
    BY <2>6 DEF later, next
<1>5. QED
  BY <1>1, <1>3, <1>4, OneQuiet DEF e

\* What a cancellation makes of a record, whatever becomes of its commitment.
LEMMA CancelSays ==
    ASSUME NEW rec, NEW next,
           next.owner = rec.owner, next.issuer = rec.issuer, next.artist = rec.artist,
           next.metadataDigest = rec.metadataDigest,
           NEW r, SaysAs(r, Cancels), NEW d, NEW millis, Tells(d, rec, millis)
    PROVE  Tells(Handled(d, At(r)), next, millis) /\ SameProvenance(d, Handled(d, At(r)))
<1>1. r.event = "SRRCommitmentCancelledFromMigration" /\ IsAbout(r)
  BY DEF SaysAs, Cancels
<1>2. Handled(d, At(r)) = Index!handleSRRCommitmentCancelledFromMigration(d, r)
  BY <1>1, Dispatch
<1>3. QED
  BY <1>1, <1>2, CancelHandled

LEMMA CancelFollows == Follows /\ Cancel => Follows'
<1> SUFFICES ASSUME Follows, record # Null, Happens(<<Cancels>>),
                    record' = [record EXCEPT !.commitment = Null, !.customHistory = Null]
             PROVE  Follows'
  BY DEF Cancel
<1>1. record \in Record /\ record' \in Record
  BY KnownFollows DEF Record
<1>2. /\ record'.owner = record.owner /\ record'.issuer = record.issuer
      /\ record'.artist = record.artist /\ record'.metadataDigest = record.metadataDigest
  BY <1>1 DEF Record
<1>3. NoPlace(Cancels) /\ Cancels.event # "ProvenanceFromMigration"
  BY DEF NoPlace, Cancels
<1>4. \A r, d, millis : SaysAs(r, Cancels) /\ Tells(d, record, millis) =>
         Tells(Handled(d, At(r)), record', millis) /\ SameProvenance(d, Handled(d, At(r)))
  BY <1>2, CancelSays
<1>5. QED
  BY <1>1, <1>3, <1>4, OneQuiet

LEMMA ApproveFollows == Follows /\ Approve => Follows'
<1> SUFFICES ASSUME Follows, NEW commitment \in Commitment,
                    NEW customHistory \in CustomHistory \union {Null}, record # Null,
                    record' = [record EXCEPT !.commitment = commitment,
                                             !.customHistory = IF customHistory = Null THEN @
                                                               ELSE customHistory],
                    Happens((IF record.commitment = Null THEN << >> ELSE <<Cancels>>)
                            \o <<Commits(commitment, customHistory)>>)
             PROVE  Follows'
  BY DEF Approve
<1> DEFINE e == Commits(commitment, customHistory)
<1>1. record \in Record /\ record' \in Record
  BY KnownFollows DEF Record
<1>2. /\ record'.owner = record.owner /\ record'.issuer = record.issuer
      /\ record'.artist = record.artist /\ record'.metadataDigest = record.metadataDigest
      /\ record'.commitment = commitment
  BY <1>1 DEF Record
<1>3. /\ NoPlace(e) /\ e.event = "SRRCommitmentFromMigration" /\ e.commitment = commitment
      /\ {"event", "commitment"} \subseteq DOMAIN e
  BY DEF NoPlace, Commits
<1>4. << >> \o <<e>> = <<e>> /\ <<Cancels>> \o <<e>> = <<Cancels, e>>
  <2>1. <<e>> \in Seq({e})
    OBVIOUS
  <2> HIDE DEF e
  <2>2. QED
    BY <2>1, PairConcat
<1>5. \/ Happens(<<e>>)
      \/ Happens(<<Cancels, e>>)
  BY <1>4
<1> HIDE DEF e
<1>6. ASSUME NEW r, NEW d, NEW millis, SaysAs(r, e), Tells(d, record, millis)
      PROVE  Tells(Handled(d, At(r)), record', millis) /\ SameProvenance(d, Handled(d, At(r)))
  <2>1. /\ r.event = "SRRCommitmentFromMigration" /\ r.commitment = commitment
        /\ IsAbout(r)
    BY <1>3, <1>6 DEF SaysAs
  <2>2. Handled(d, At(r)) = Index!handleSRRCommitmentFromMigration(d, r)
    BY <2>1, Dispatch
  <2>3. r.commitment = record'.commitment
    BY <1>2, <2>1
  <2> DEFINE later == Handled(d, At(r))
             next == record'
  <2>4. /\ next.owner = record.owner /\ next.issuer = record.issuer
        /\ next.artist = record.artist /\ next.metadataDigest = record.metadataDigest
        /\ r.commitment = next.commitment
    BY <1>2, <2>3
  <2>5. later = Index!handleSRRCommitmentFromMigration(d, r)
    BY <2>2
  <2> HIDE DEF later, next
  <2>6. Tells(later, next, millis) /\ SameProvenance(d, later)
    BY <1>6, <2>1, <2>4, <2>5, CommitmentHandled
  <2>7. QED
    BY <2>6 DEF later, next
<1>7. CASE Happens(<<e>>)
  BY <1>1, <1>3, <1>6, <1>7, OneQuiet
<1>8. CASE Happens(<<Cancels, e>>)
  <2>1. NoPlace(Cancels) /\ Cancels.event # "ProvenanceFromMigration"
    BY DEF NoPlace, Cancels
  <2>2. \A r, d, millis : SaysAs(r, Cancels) /\ Tells(d, record, millis) =>
           Tells(Handled(d, At(r)), record, millis) /\ SameProvenance(d, Handled(d, At(r)))
    BY CancelSays
  <2>3. QED
    BY <1>1, <1>3, <1>6, <1>8, <2>1, <2>2, TwoQuiet
<1>9. QED
  BY <1>5, <1>7, <1>8

\* A change of hands makes one provenance and moves the record.
LEMMA RevealFollows == Follows /\ Reveal => Follows'
<1> SUFFICES ASSUME Follows, NEW to \in Account, record # Null,
                    record' = [record EXCEPT !.owner = to, !.commitment = Null,
                                             !.customHistory = Null],
                    Happens(<<[event |-> "ProvenanceFromMigration", from |-> record.owner,
                               to |-> to, customHistory |-> record.customHistory,
                               digest |-> "digest"],
                              Moves(record.owner, to)>>)
             PROVE  Follows'
  BY DEF Reveal
<1> DEFINE e == [event |-> "ProvenanceFromMigration", from |-> record.owner, to |-> to,
                 customHistory |-> record.customHistory, digest |-> "digest"]
           f == Moves(record.owner, to)
           events == <<e, f>>
           between == [record EXCEPT !.owner = to]
           more == Added(events)
           h == history \o more
           next == record'
<1>1. record \in Record /\ record' \in Record
  BY KnownFollows DEF Record
<1>2. /\ record.owner # ZERO /\ record' # Null
      /\ next.owner = to /\ next.issuer = between.issuer
      /\ next.artist = between.artist /\ next.metadataDigest = between.metadataDigest
      /\ between.owner = to /\ between.issuer = record.issuer
      /\ between.artist = record.artist /\ between.metadataDigest = record.metadataDigest
      /\ between.commitment = record.commitment
  BY <1>1, MovedAssumption DEF Record
<1>3. /\ NoPlace(e) /\ e.event = "ProvenanceFromMigration" /\ e.from = record.owner /\ e.to = to
      /\ {"event", "from", "to"} \subseteq DOMAIN e
  BY DEF NoPlace
<1>4. /\ NoPlace(f) /\ f.event = "TransferFromMigration" /\ f.from = record.owner /\ f.to = to
      /\ {"event", "from", "to"} \subseteq DOMAIN f
  BY DEF NoPlace, Moves
<1>5. Happens(events)
  OBVIOUS
<1> HIDE DEF e, f, between, next
<1>6. IsList(events) /\ Len(events) = 2 /\ events[1] = e /\ events[2] = f
  <2>1. events \in Seq({e, f})
    OBVIOUS
  <2>2. QED
    BY <2>1 DEF IsList
<1>7. /\ IsList(more) /\ Len(more) = 2 /\ DOMAIN more = 1..2
      /\ more[1] = <<e, originTime>> /\ more[2] = <<f, originTime>>
  <2>1. 1 \in 1..2 /\ 2 \in 1..2
    OBVIOUS
  <2> HIDE DEF events
  <2>2. QED
    BY <1>6, <2>1, AddedFacts
<1>8. Places(more) = {1}
  <2>1. \A i \in 1..2 : i = 1 \/ i = 2
    OBVIOUS
  <2>2. 1 \in 1..2 /\ more[1][1].event = "ProvenanceFromMigration"
    BY <1>3, <1>7
  <2>3. more[2][1].event # "ProvenanceFromMigration"
    BY <1>4, <1>7
  <2> HIDE DEF more
  <2>4. QED
    BY <1>7, <2>1, <2>2, <2>3 DEF Places
<1>9. ASSUME NEW bad \in BOOLEAN, NEW d, Agrees(d, record, history, bad)
      PROVE  \E later : /\ Makes(d, ReplayOf(more, bad), later)
                        /\ Agrees(later, record', h, bad)
  <2> DEFINE r == ReplayedEntry(<<e, originTime>>, bad)
             s == ReplayedEntry(<<f, originTime>>, bad)
             mid == Handled(d, At(r))
             later == Handled(mid, At(s))
             millis == 1000 * history[1][2]
             noted == Millis(more[1], bad)
  <2>1. SaysAs(r, e) /\ SaysAs(s, f)
    BY <1>3, <1>4, EntrySays
  <2>2. ReplayOf(more, bad) = <<r, s>>
    BY ReplayAdded
  <2>3. Index!originMillis(r) = noted
    <3>1. Index!originMillis(r) = 1000 * StampOf(<<e, originTime>>, bad)
      BY <1>3, ReplayedSays DEF ReplayedEntry, NoPlace
    <3> HIDE DEF more
    <3>2. QED
      BY <1>7, <3>1 DEF Millis
  <2> HIDE DEF r, s, more, h
  <2>4. Makes(d, <<r, s>>, later)
    BY MakesTwo
  <2>5. history # << >> /\ Tells(d, record, millis) /\ FirstDated(d, history, bad)
    BY <1>9 DEF Agrees
  <2> HIDE DEF millis, noted
  <2>6. /\ r.event = "ProvenanceFromMigration" /\ r.from = record.owner /\ r.to = to
        /\ IsAbout(r)
    BY <1>3, <2>1 DEF SaysAs
  <2>7. mid = Index!handleSRRProvenanceFromMigration(d, r)
    BY <2>6, Dispatch
  <2>8. /\ s.event = "TransferFromMigration" /\ s.from = record.owner /\ s.to = to
        /\ IsAbout(s)
    BY <1>4, <2>1 DEF SaysAs
  <2>9. later = Index!handleTransferFromMigration(mid, s)
    BY <2>8, Dispatch
  <2> HIDE DEF mid, later
  <2>10. Tells(mid, between, millis) /\ Noted(d, mid, <<Id, noted>>, r.from, r.to, noted)
    <3>1. between.owner = r.to
      BY <1>2, <2>6
    <3>2. /\ Tells(mid, between, millis)
          /\ Noted(d, mid, <<Id, Index!originMillis(r)>>, r.from, r.to, Index!originMillis(r))
      BY <1>2, <2>5, <2>6, <2>7, <3>1, ProvenanceHandled
    <3>3. QED
      BY <2>3, <3>2
  <2>11. Tells(later, next, millis) /\ SameProvenance(mid, later)
    <3>1. next.owner = s.to /\ s.from # ZERO
      BY <1>2, <2>8
    <3>2. QED
      BY <1>2, <2>8, <2>9, <2>10, <3>1, TransferHandled
  <2>12. Noted(d, later, <<Id, Millis(more[1], bad)>>, more[1][1].from, more[1][1].to,
               Millis(more[1], bad))
    <3>1. more[1][1] = e
      BY <1>7
    <3>2. more[1][1].from = r.from /\ more[1][1].to = r.to
      BY <1>3, <2>6, <3>1
    <3>3. Noted(d, later, <<Id, noted>>, r.from, r.to, noted)
      BY <2>10, <2>11 DEF Noted, SameProvenance
    <3>4. QED
      BY <3>2, <3>3 DEF noted
  <2>13. IsList(history)
    BY DEF Follows, Shape
  <2>14. FirstDated(later, h, bad)
    BY <1>7, <1>8, <2>5, <2>12, <2>13, RevealFirst DEF h
  <2>15. h[1] = history[1] /\ h # << >>
    <3>1. Len(history) \in Nat /\ Len(history) >= 1
      BY <2>5, <2>13, ListFacts
    <3>2. Len(h) = Len(history) + 2 /\ \A i \in 1..Len(history) : h[i] = history[i]
      <4>1. IsList(more)
        BY <1>7
      <4>2. /\ Len(h) = Len(history) + Len(more)
            /\ \A i \in 1..Len(history) : h[i] = history[i]
        BY <2>13, <4>1, ConcatFacts DEF h
      <4>3. QED
        BY <1>7, <4>2
    <3>3. 1 \in 1..Len(history) /\ Len(h) >= 1 /\ Len(<< >>) = 0
      BY <3>1, <3>2
    <3>4. QED
      BY <3>2, <3>3
  <2>16. Agrees(later, record', h, bad)
    BY <1>2, <2>11, <2>14, <2>15 DEF Agrees, next, millis
  <2>17. QED
    BY <2>2, <2>4, <2>16
<1> HIDE DEF events
<1>10. Len(events) >= 1
  BY <1>6
<1>11. QED
  BY <1>1, <1>5, <1>6, <1>9, <1>10, CallFollows

\* The first call: the two events come in either order.
LEMMA CreateFollows == Follows /\ Create => Follows'
<1> SUFFICES ASSUME Follows, NEW issuer \in LicensedUser, NEW artist \in Account,
                    NEW digest \in Digest, NEW flipped \in BOOLEAN, record = Null,
                    record' = NewRecord(issuer, artist, digest),
                    Happens(IF flipped
                            THEN <<Creates(issuer, artist, digest), Moves(ZERO, issuer)>>
                            ELSE <<Moves(ZERO, issuer), Creates(issuer, artist, digest)>>)
             PROVE  Follows'
  BY DEF Create, NewRecord
<1> DEFINE mint == Moves(ZERO, issuer)
           create == Creates(issuer, artist, digest)
<1>1. record' \in Record /\ record' # Null
  <2>1. record' \in Record
    BY DEF Record, NewRecord
  <2>2. QED
    BY <2>1, MovedAssumption
<1>2. /\ NoPlace(mint) /\ mint.event = "TransferFromMigration" /\ mint.from = ZERO
      /\ mint.to = issuer /\ {"event", "from", "to"} \subseteq DOMAIN mint
  BY DEF NoPlace, Moves
<1>3. /\ NoPlace(create) /\ create.event = "CreateSRRFromMigration" /\ create.issuer = issuer
      /\ create.artist = artist /\ create.metadataDigest = digest
      /\ {"event", "issuer", "artist", "metadataDigest"} \subseteq DOMAIN create
  BY DEF NoPlace, Creates
<1> HIDE DEF mint, create
<1>4. ASSUME NEW e, NEW f, NoPlace(e), NoPlace(f), Happens(<<e, f>>),
             e.event # "ProvenanceFromMigration", f.event # "ProvenanceFromMigration",
             \A r, s, d : /\ SaysAs(r, e) /\ SaysAs(s, f) /\ Unknown(d)
                          /\ Index!originMillis(r) = 1000 * originTime
                          => LET later == Handled(Handled(d, At(r)), At(s))
                             IN  Tells(later, record', 1000 * originTime) /\ SameProvenance(d, later)
      PROVE  Follows'
  <2> DEFINE events == <<e, f>>
             more == Added(events)
             h == history \o more
  <2>1. IsList(events) /\ Len(events) = 2 /\ events[1] = e /\ events[2] = f
    <3>1. events \in Seq({e, f})
      OBVIOUS
    <3>2. QED
      BY <3>1 DEF IsList
  <2>2. /\ IsList(more) /\ Len(more) = 2 /\ DOMAIN more = 1..2
        /\ more[1] = <<e, originTime>> /\ more[2] = <<f, originTime>>
    <3>1. 1 \in 1..2 /\ 2 \in 1..2
      OBVIOUS
    <3> HIDE DEF events
    <3>2. QED
      BY <2>1, <3>1, AddedFacts
  <2>3. Places(more) = {}
    <3>1. \A i \in 1..2 : i = 1 \/ i = 2
      OBVIOUS
    <3>2. /\ more[1][1].event # "ProvenanceFromMigration"
          /\ more[2][1].event # "ProvenanceFromMigration"
      BY <1>4, <2>2
    <3> HIDE DEF more
    <3>3. QED
      BY <2>2, <3>1, <3>2 DEF Places
  <2>4. ASSUME NEW bad \in BOOLEAN, NEW d, Agrees(d, record, history, bad)
        PROVE  \E later : /\ Makes(d, ReplayOf(more, bad), later)
                          /\ Agrees(later, record', h, bad)
    <3> DEFINE r == ReplayedEntry(<<e, originTime>>, bad)
               s == ReplayedEntry(<<f, originTime>>, bad)
               later == Handled(Handled(d, At(r)), At(s))
    <3>1. SaysAs(r, e) /\ SaysAs(s, f)
      BY <1>4, EntrySays
    <3>2. ReplayOf(more, bad) = <<r, s>>
      BY ReplayAdded
    <3>3. Index!originMillis(r) = 1000 * originTime
      <4>1. Index!originMillis(r) = 1000 * StampOf(<<e, originTime>>, bad)
        BY <1>4, ReplayedSays DEF ReplayedEntry, NoPlace
      <4>2. QED
        BY <1>4, <4>1 DEF StampOf
    <3>4. history = << >> /\ Unknown(d) /\ FirstDated(d, history, bad)
      BY <2>4 DEF Agrees
    <3> HIDE DEF r, s
    <3>5. Makes(d, <<r, s>>, later)
      BY MakesTwo
    <3>6. Tells(later, record', 1000 * originTime) /\ SameProvenance(d, later)
      BY <1>4, <3>1, <3>3, <3>4
    <3> HIDE DEF later, more, h
    <3>7. FirstDated(later, h, bad)
      BY <2>2, <2>3, <3>4, <3>6, ListFacts, QuietFirst DEF h
    <3>8. h[1] = more[1] /\ h # << >>
      <4>1. /\ Len(h) = 0 + 2 /\ \A i \in 0 + 1..0 + 2 : h[i] = more[i - 0]
        <5>1. Len(<< >>) = 0
          OBVIOUS
        <5>2. QED
          BY <2>2, <3>4, <5>1, ListFacts, ConcatFacts DEF h
      <4>2. Len(<< >>) = 0 /\ 1 - 0 = 1 /\ 1 \in 0 + 1..0 + 2
        OBVIOUS
      <4>3. h[1] = more[1]
        BY <4>1, <4>2
      <4>4. QED
        BY <4>1, <4>2, <4>3
    <3>9. h[1][2] = originTime
      BY <2>2, <3>8
    <3>10. Agrees(later, record', h, bad)
      BY <1>1, <3>6, <3>7, <3>8, <3>9 DEF Agrees
    <3>11. QED
      BY <3>2, <3>5, <3>10
  <2>5. Happens(events)
    BY <1>4
  <2> HIDE DEF events
  <2>6. Len(events) >= 1
    BY <2>1
  <2>7. QED
    BY <1>1, <2>1, <2>4, <2>5, <2>6, CallFollows
<1>5. 1000 * originTime \in Nat
  BY DEF Follows, Shape
<1>6. CASE ~flipped
  <2>1. Happens(<<mint, create>>)
    BY <1>6 DEF mint, create
  <2>2. ASSUME NEW r, NEW s, NEW d, SaysAs(r, mint), SaysAs(s, create), Unknown(d),
               Index!originMillis(r) = 1000 * originTime
        PROVE  LET later == Handled(Handled(d, At(r)), At(s))
               IN  Tells(later, record', 1000 * originTime) /\ SameProvenance(d, later)
    <3> DEFINE mid == Handled(d, At(r))
               later == Handled(mid, At(s))
    <3>1. IsAbout(r) /\ r.from = ZERO /\ r.to = issuer /\ r.event = "TransferFromMigration"
      BY <1>2, <2>2 DEF SaysAs
    <3>2. /\ IsAbout(s) /\ s.issuer = issuer /\ s.artist = artist /\ s.metadataDigest = digest
          /\ s.event = "CreateSRRFromMigration"
      BY <1>3, <2>2 DEF SaysAs
    <3>3. mid = Index!handleTransferFromMigration(d, r)
      BY <3>1, Dispatch
    <3> HIDE DEF mid
    <3>4. later = Index!handleCreateSRRFromMigration(mid, s)
      BY <3>2, Dispatch
    <3> HIDE DEF later
    <3>5. /\ Tells(later, NewRecord(issuer, artist, digest), 1000 * originTime)
          /\ SameProvenance(d, later)
      BY <1>5, <2>2, <3>1, <3>2, <3>3, <3>4, MintThenCreate
    <3>6. QED
      BY <3>5 DEF later, mid
  <2>3. QED
    BY <1>2, <1>3, <1>4, <2>1, <2>2
<1>7. CASE flipped
  <2>1. Happens(<<create, mint>>)
    BY <1>7 DEF mint, create
  <2>2. ASSUME NEW r, NEW s, NEW d, SaysAs(r, create), SaysAs(s, mint), Unknown(d),
               Index!originMillis(r) = 1000 * originTime
        PROVE  LET later == Handled(Handled(d, At(r)), At(s))
               IN  Tells(later, record', 1000 * originTime) /\ SameProvenance(d, later)
    <3> DEFINE mid == Handled(d, At(r))
               later == Handled(mid, At(s))
    <3>1. IsAbout(s) /\ s.from = ZERO /\ s.to = issuer /\ s.event = "TransferFromMigration"
      BY <1>2, <2>2 DEF SaysAs
    <3>2. /\ IsAbout(r) /\ r.issuer = issuer /\ r.artist = artist /\ r.metadataDigest = digest
          /\ r.event = "CreateSRRFromMigration"
      BY <1>3, <2>2 DEF SaysAs
    <3>3. mid = Index!handleCreateSRRFromMigration(d, r)
      BY <3>2, Dispatch
    <3> HIDE DEF mid
    <3>4. later = Index!handleTransferFromMigration(mid, s)
      BY <3>1, Dispatch
    <3> HIDE DEF later
    <3>5. /\ Tells(later, NewRecord(issuer, artist, digest), 1000 * originTime)
          /\ SameProvenance(d, later)
      BY <1>5, <2>2, <3>1, <3>2, <3>3, <3>4, CreateThenMint
    <3>6. QED
      BY <3>5 DEF later, mid
  <2>3. QED
    BY <1>2, <1>3, <1>4, <2>1, <2>2
<1>8. QED
  BY <1>6, <1>7

LEMMA OriginBlockFollows == Follows /\ OriginBlock => Follows'
<1> SUFFICES ASSUME Follows, OriginBlock PROVE Follows'
  OBVIOUS
<1>1. /\ UNCHANGED <<history, record, moved, badDates, fixed, time, log, db>>
      /\ originTime' \in Nat /\ ~moved
  BY DEF OriginBlock, Follows, Shape
<1>2. \A bad \in BOOLEAN : \E later :
         Makes(db, ReplayOf(history, bad), later) /\ Agrees(later, record, history, bad)
  BY <1>1 DEF Follows, Awaited
<1>3. \A bad \in BOOLEAN : (\E later :
         Makes(db, ReplayOf(history, bad), later) /\ Agrees(later, record, history, bad))'
  BY <1>1, <1>2 DEF Makes, Stamped, At
<1>4. QED
  BY <1>1, <1>3 DEF Follows, Shape, Awaited

-----------------------------------------------------------------------------
(* The move, and what comes after it. *)

\* The move puts in the log what the replay was spoken of.
LEMMA MigrateFollows == Follows /\ migrateSRR => Follows'
<1> SUFFICES ASSUME Follows, NEW bad \in BOOLEAN, record # Null, ~moved, moved' = TRUE,
                    badDates' = bad, Emit(ReplayOf(history, bad) \o <<MigrateSRR>>),
                    UNCHANGED <<originTime, history, record, fixed, db>>
             PROVE  Follows'
  BY DEF migrateSRR, origin, ReplayOf, ReplayedEntry, StampOf
<1>1. log = << >> /\ ~fixed
  BY DEF Follows, Shape, Awaited
<1>2. PICK d : Makes(db, ReplayOf(history, bad), d) /\ Agrees(d, record, history, bad)
  BY DEF Follows, Awaited
<1>3. /\ Tells(d, record, 1000 * history[1][2]) /\ FirstDated(d, history, bad)
  BY <1>2 DEF Agrees
<1> DEFINE later == Handled(d, At(MigrateSRR))
<1>4. /\ MigrateSRR.event = "MigrateSRR" /\ MigrateSRR.originChain = OriginChain
      /\ IsAbout(MigrateSRR)
  BY DEF MigrateSRR, IsAbout, Index!idOf, Index!srrEntityId, Id
<1>5. later = Index!handleMigrateSRR(d, MigrateSRR)
  BY <1>4, Dispatch
<1>6. Makes(d, <<MigrateSRR>>, later)
  BY MakesOne
<1> HIDE DEF later
<1>7. /\ Tells(later, record, 1000 * history[1][2]) /\ SameProvenance(d, later)
      /\ later["SRR"][Id].originChain = OriginChain
  BY <1>3, <1>4, <1>5, MigrateHandled
<1>8. Makes(db, ReplayOf(history, bad) \o <<MigrateSRR>>, later)
  BY <1>2, <1>6, MakesMore
<1>9. Leads(db', log', later) /\ time' = time
  <2>1. Leads(db, log, db)
    BY <1>1, LeadsNothing
  <2>2. QED
    BY <1>8, <2>1, EmitLeads
<1>10. FirstDated(later, history, bad)
  BY <1>3, <1>7 DEF FirstDated, SameProvenance, Dated
<1>11. \A f : IsFirst(history, f) =>
          Dated(later, <<Id, Millis(history[f], badDates')>>, history[f][1],
                IF fixed' THEN 1000 * history[f][2] ELSE Millis(history[f], badDates'))
  BY <1>1, <1>10 DEF FirstDated
<1>12. QED
  BY <1>1, <1>7, <1>9, <1>11 DEF Follows, Shape, Told

LEMMA FirstFacts ==
    ASSUME Follows, ProvenancePlaces # {}
    PROVE  /\ IsFirst(history, FirstProvenance)
           /\ \A f : IsFirst(history, f) => f = FirstProvenance
<1>1. ProvenancePlaces = Places(history)
  BY DEF ProvenancePlaces, Places
<1>2. ProvenancePlaces \in SUBSET Nat
  <2>1. IsList(history) /\ Len(history) \in Nat
    BY ListFacts DEF Follows, Shape
  <2>2. DOMAIN history = 1..Len(history)
    BY <2>1 DEF IsList
  <2>3. QED
    BY <2>1, <2>2 DEF ProvenancePlaces
<1>3. \E least \in ProvenancePlaces : \A j \in ProvenancePlaces : least <= j
  BY <1>2, LeastNatural
<1>4. /\ FirstProvenance \in ProvenancePlaces
      /\ \A j \in ProvenancePlaces : FirstProvenance <= j
  BY <1>3 DEF FirstProvenance
<1>5. IsFirst(history, FirstProvenance)
  BY <1>1, <1>4 DEF IsFirst
<1>6. ASSUME NEW f, IsFirst(history, f)
      PROVE  f = FirstProvenance
  <2>1. /\ f \in ProvenancePlaces /\ f <= FirstProvenance /\ FirstProvenance <= f
    BY <1>1, <1>4, <1>6 DEF IsFirst
  <2>2. QED
    BY <1>2, <1>4, <2>1
<1>7. QED
  BY <1>5, <1>6

\* The date that is given is the one over there, for the first change of hands.
LEMMA FixFollows == Follows /\ emitProvenanceDateMigrationFix => Follows'
<1> DEFINE e == [event |-> "ProvenanceDateMigrationFix", address |-> RegistryAddress,
                 tokenId |-> T, originMillis |-> 1000 * history[FirstProvenance][2]]
           f == FirstProvenance
           wrong == Millis(history[f], badDates)
           right == 1000 * history[f][2]
           key == <<Id, wrong>>
<1> SUFFICES ASSUME Follows, badDates, ~fixed, ProvenancePlaces # {}, fixed' = TRUE,
                    Emit(<<e>>), UNCHANGED <<originTime, history, record, moved, badDates, db>>
             PROVE  Follows'
  BY DEF emitProvenanceDateMigrationFix, origin
<1>1. moved /\ IsFirst(history, f) /\ \A g : IsFirst(history, g) => g = f
  BY FirstFacts DEF Follows, Shape
<1>2. e.event = "ProvenanceDateMigrationFix" /\ IsAbout(e) /\ e.originMillis = right
  BY DEF IsAbout, Index!idOf, Index!srrEntityId, Id
<1>3. wrong = 66000
  <2>1. history[f][1].event = "ProvenanceFromMigration"
    BY <1>1 DEF IsFirst, Places
  <2>2. StampOf(history[f], badDates) = 66
    BY <2>1 DEF StampOf, BadTimestamp
  <2>3. wrong = 1000 * 66
    BY <2>2 DEF Millis
  <2> HIDE DEF wrong
  <2>4. QED
    BY <2>3
<1> HIDE DEF e, f
<1>4. PICK d : Leads(db, log, d) /\ Told(d)
  BY <1>1 DEF Follows
<1>5. /\ Tells(d, record, 1000 * history[1][2]) /\ d["SRR"][Id].originChain = OriginChain
      /\ Dated(d, key, history[f][1], wrong)
  BY <1>1, <1>4 DEF Told
<1> HIDE DEF wrong, right
<1>m. PICK later : later = Handled(d, At(e))
  OBVIOUS
<1>6. later = Index!handleProvenanceDateMigrationFix(d, e)
  BY <1>2, <1>m, Dispatch
<1>7. Makes(d, <<e>>, later)
  BY <1>m, MakesOne
<1>8. key = <<Id, 66000>>
  BY <1>3
<1> HIDE DEF key
<1>9. /\ key \in DOMAIN d["SRRProvenance"]
      /\ {"from", "to", "timestamp"} \subseteq DOMAIN d["SRRProvenance"][key]
      /\ d["SRRProvenance"][key].from = history[f][1].from
      /\ d["SRRProvenance"][key].to = history[f][1].to
  BY <1>5 DEF Dated
<1>10. /\ Tells(later, record, 1000 * history[1][2]) /\ later["SRR"] = d["SRR"]
       /\ key \in DOMAIN later["SRRProvenance"]
       /\ {"from", "to", "timestamp"} \subseteq DOMAIN later["SRRProvenance"][key]
       /\ later["SRRProvenance"][key].from = d["SRRProvenance"][key].from
       /\ later["SRRProvenance"][key].to = d["SRRProvenance"][key].to
       /\ later["SRRProvenance"][key].timestamp = e.originMillis
  BY <1>2, <1>5, <1>6, <1>8, <1>9, FixHandled
<1>11. Dated(later, key, history[f][1], right)
  BY <1>2, <1>9, <1>10 DEF Dated
<1>12. Leads(db', log', later) /\ time' = time
  BY <1>4, <1>7, EmitLeads
<1>13. Shape' /\ moved'
  BY <1>1 DEF Follows, Shape
<1>14. Told(later)'
  <2>1. later["SRR"][Id].originChain = OriginChain
    BY <1>5, <1>10
  <2>2. ASSUME NEW g, IsFirst(history, g)
        PROVE  Dated(later, <<Id, Millis(history[g], badDates)>>, history[g][1],
                     1000 * history[g][2])
    BY <1>1, <1>11, <2>2 DEF key, wrong, right
  <2>3. /\ record' = record /\ history' = history /\ badDates' = badDates /\ fixed' = TRUE
    OBVIOUS
  <2>4. Tells(later, record', 1000 * history'[1][2])
    BY <1>10, <2>3
  <2>5. ASSUME NEW g, IsFirst(history', g)
        PROVE  Dated(later, <<Id, Millis(history'[g], badDates')>>, history'[g][1],
                     IF fixed' THEN 1000 * history'[g][2] ELSE Millis(history'[g], badDates'))
    <3>1. IsFirst(history, g)
      BY <2>3, <2>5
    <3>2. Dated(later, <<Id, Millis(history[g], badDates)>>, history[g][1], 1000 * history[g][2])
      BY <2>2, <3>1
    <3>3. /\ history'[g] = history[g]
          /\ (IF fixed' THEN 1000 * history'[g][2] ELSE Millis(history'[g], badDates'))
                = 1000 * history[g][2]
      BY <2>3
    <3>4. QED
      BY Zenon, <2>3, <3>2, <3>3
  <2>6. QED
    BY <2>1, <2>4, <2>5 DEF Told
<1>15. (\E told : Leads(db, log, told) /\ Told(told))'
  BY <1>12, <1>14
<1>16. QED
  BY <1>13, <1>15 DEF Follows

LEMMA IndexFollows == Follows /\ IndexEvent => Follows'
<1> SUFFICES ASSUME Follows, IndexEvent PROVE Follows'
  OBVIOUS
<1>1. /\ log # << >> /\ db' = Handled(db, log[1]) /\ log' = Tail(log)
      /\ UNCHANGED <<originTime, history, record, moved, badDates, fixed, time>>
  BY DEF IndexEvent, Handled, origin
<1>2. moved
  BY <1>1 DEF Follows, Awaited
<1>3. PICK later : Leads(db, log, later) /\ Told(later)
  BY <1>2 DEF Follows
<1>4. Leads(db', log', later)
  BY <1>1, <1>3, LeadsLess
<1>5. Shape' /\ moved' = moved
  BY <1>1 DEF Follows, Shape
<1>6. Told(later)'
  BY <1>1, <1>3 DEF Told
<1>7. QED
  BY <1>2, <1>4, <1>5, <1>6 DEF Follows

LEMMA InitFollows == Init => Follows
<1> SUFFICES ASSUME Init PROVE Follows
  OBVIOUS
<1>1. /\ originTime = 1 /\ history = << >> /\ record = Null /\ log = << >>
      /\ moved = FALSE /\ badDates = FALSE /\ fixed = FALSE
  BY DEF Init, ChainInit
<1> DEFINE wallets == [a \in LicensedUser |-> [walletAddress |-> a]]
           histories == [id \in CustomHistory |->
                            Index!HandleMigrationEvent(Index!EmptyDatabase, HistoryCreated(id))
                                ["CustomHistory"][id]]
<1>2. db = [Index!EmptyDatabase EXCEPT !["LicensedUserWallet"] = wallets,
                                       !["CustomHistory"] = histories]
  BY DEF Init
<1>3. DOMAIN wallets = LicensedUser
  OBVIOUS
<1> HIDE DEF wallets, histories
<1>4. /\ DOMAIN db = Index!Tables \union {"stopped"} /\ db["SRR"] = << >>
      /\ db["SRRProvenance"] = << >> /\ db["LicensedUserWallet"] = wallets
  <2>1. DOMAIN Index!EmptyDatabase = Index!Tables \union {"stopped"}
    BY DEF Index!EmptyDatabase
  <2>2. {"SRR", "SRRProvenance", "LicensedUserWallet"} \subseteq Index!Tables
    BY DEF Index!Tables, Index!LUW
  <2>3. Index!EmptyDatabase["SRR"] = << >> /\ Index!EmptyDatabase["SRRProvenance"] = << >>
    BY <2>2 DEF Index!EmptyDatabase, Index!NoEntities
  <2>4. QED
    BY <1>2, <2>1, <2>2, <2>3
<1>5. DOMAIN db["SRR"] = {} /\ DOMAIN db["SRRProvenance"] = {}
  BY <1>4
<1>6. Unknown(db)
  BY <1>3, <1>4, <1>5 DEF Unknown, DbOK
<1>7. Places(history) = {}
  BY <1>1 DEF Places
<1>8. \A bad \in BOOLEAN :
         Makes(db, ReplayOf(history, bad), db) /\ Agrees(db, record, history, bad)
  <2>1. ASSUME NEW bad \in BOOLEAN
        PROVE  Makes(db, ReplayOf(history, bad), db) /\ Agrees(db, record, history, bad)
    <3>1. ReplayOf(history, bad) = << >>
      BY <1>1, ReplayAdded
    <3>2. FirstDated(db, history, bad)
      BY <1>5, <1>7 DEF FirstDated, IsFirst
    <3>3. QED
      BY <1>1, <1>6, <3>1, <3>2, MakesNothing DEF Agrees
  <2>2. QED
    BY <2>1
<1>9. IsList(history) /\ \A i \in 1..Len(history) : history[i][2] \in Nat
  BY <1>1, ListFacts
<1>10. QED
  BY <1>1, <1>8, <1>9 DEF Follows, Shape, Awaited

LEMMA NextFollows == Follows /\ [Next]_vars => Follows'
<1> SUFFICES ASSUME Follows, [Next]_vars PROVE Follows'
  OBVIOUS
<1>1. CASE UNCHANGED vars
  <2>1. UNCHANGED <<originTime, history, record, moved, badDates, fixed, time, log, db>>
    BY <1>1 DEF vars
  <2>2. QED
    BY <2>1 DEF Follows, Shape, Awaited, Told, Makes, Stamped, At
<1>2. QED
  BY <1>1, CreateFollows, ApproveFollows, CancelFollows, RevealFollows, TransferPlainlyFollows,
     UpdateArtistFollows, UpdateMetadataFollows, OriginBlockFollows, MigrateFollows, FixFollows,
     IndexFollows DEF Next

LEMMA Invariance == Spec => []Follows
BY InitFollows, NextFollows, PTL DEF Spec

\* Once the index has handled every event of a record that was moved, it shows the
\* record as it was on the chain it came from (migrateSRR and the handlers of
\* srr-migration-handlers.ts), whatever happened to it over there, in whichever order
\* its issue was recorded, and whether or not its provenance had the wrong dates.
THEOREM MovedRecordAgreesHolds == Spec => []MovedRecordAgrees
<1>1. Follows => MovedRecordAgrees
  <2> SUFFICES ASSUME Follows, moved, CaughtUp
               PROVE  /\ Id \in DOMAIN db["SRR"]
                      /\ Shows(Shown, record, 1000 * history[1][2])
                      /\ Shown.originChain = OriginChain
    BY DEF MovedRecordAgrees, Shows
  <2>1. PICK later : /\ Leads(db, log, later) /\ Tells(later, record, 1000 * history[1][2])
                     /\ later["SRR"][Id].originChain = OriginChain
    BY DEF Follows, Told
  <2>2. later = db
    BY <2>1, LeadsEmpty DEF CaughtUp
  <2>3. QED
    BY <2>1, <2>2 DEF Tells, Shown
<1>2. QED
  BY <1>1, Invariance, PTL

\* Once the dates are given, the first change of hands has the time it had over there
\* (handleSRRProvenanceFromMigration, handleProvenanceDateMigrationFix and
\* fix-prov-created-at.js), however many changes of hands share the wrong date's id.
THEOREM ProvenanceIsDatedHolds == Spec => []ProvenanceIsDated
<1>1. Follows => ProvenanceIsDated
  <2> DEFINE f == FirstProvenance
             e == history[f][1]
  <2> SUFFICES ASSUME Follows, moved, CaughtUp, badDates => fixed, ProvenancePlaces # {}
               PROVE  \E id \in DOMAIN db["SRRProvenance"] :
                         /\ db["SRRProvenance"][id].from = e.from
                         /\ db["SRRProvenance"][id].to = e.to
                         /\ db["SRRProvenance"][id].timestamp = 1000 * history[f][2]
    BY DEF ProvenanceIsDated
  <2>1. IsFirst(history, f)
    BY FirstFacts
  <2> HIDE DEF f
  <2>2. PICK later : /\ Leads(db, log, later)
                     /\ Dated(later, <<Id, Millis(history[f], badDates)>>, history[f][1],
                              IF fixed THEN 1000 * history[f][2]
                              ELSE Millis(history[f], badDates))
    BY <2>1 DEF Follows, Told
  <2>3. later = db
    BY <2>2, LeadsEmpty DEF CaughtUp
  <2>4. ~fixed => Millis(history[f], badDates) = 1000 * history[f][2]
    BY DEF Millis, StampOf
  <2>5. Dated(db, <<Id, Millis(history[f], badDates)>>, e, 1000 * history[f][2])
    BY <2>2, <2>3, <2>4
  <2>6. QED
    BY <2>5 DEF Dated
<1>2. QED
  BY <1>1, Invariance, PTL
=============================================================================
