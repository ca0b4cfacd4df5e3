--------------------------- MODULE AuditLogProofs ---------------------------
(***************************************************************************)
(* Proofs about AuditLog, for every number of calls, users and attempts.   *)
(* The inductive invariant has four parts: which ids are taken, which      *)
(* calls have written a row, what a call inside an attempt may rely on,    *)
(* and that every row but the last has a successor, so that a call whose   *)
(* predecessor is still unclaimed holds the last row of the table.         *)
(***************************************************************************)
EXTENDS AuditLog, TLAPS

\* A call that waits for its next attempt has one left.
AttemptsLeft ==
  \A c \in Call : call[c].phase = "idle" => call[c].attempt < MaxAttempts

\* Ids are drawn once.
IdsFresh ==
  /\ \A r \in rows : r.id < nextId
  /\ \A r, s \in rows : r.id = s.id => r = s
  /\ \A c \in Call : call[c].phase = "inserted" =>
        /\ call[c].id \in 1..MaxId
        /\ call[c].id < nextId
        /\ \A r \in rows : r.id # call[c].id
        /\ \A d \in Call : call[d].phase = "inserted" /\ call[d].id = call[c].id
                             => d = c

\* The user of a row is the one that was signed, or was deleted since.
Signed == \A r \in rows : SignatureHolds(r) \/ r.user = NoUser

\* A call inside an attempt holds a committed predecessor, older than its own id.
Behind ==
  \A c \in Call : call[c].phase \in {"read", "inserted"} =>
    /\ \E s \in rows : s.id = call[c].prev
    /\ call[c].phase = "inserted" => call[c].prev < call[c].id

\* There is a last row, and every other row has a successor.
OneEnd ==
  /\ \E r \in rows : IsLast(r)
  /\ \A s \in rows : IsLast(s) \/ Claimed(s.id)

\* Only the first row has no predecessor.
OneStart == \A r \in rows : (r.id = 1) <=> (r.prev = Null)

Linked == Behind /\ OneEnd /\ OneStart /\ \A r \in rows : LinkHolds(r)

IInv == TypeOK /\ AttemptsLeft /\ OneRowPerReturn /\ IdsFresh /\ Signed /\ (Seeded => Linked)

-----------------------------------------------------------------------------
LEMMA Assumptions ==
  /\ MaxAttempts \in Nat \ {0} /\ MaxId \in Nat \ {0}
  /\ NoUser \notin User /\ NoCall \notin Call /\ UserOf \in [Call -> User] /\ Seeded \in BOOLEAN
BY MaxAttemptsAssumption, MaxIdAssumption, NoUserAssumption, NoCallAssumption,
   UserOfAssumption, SeededAssumption

\* Rejected leaves a call that waits, with an attempt left, or has raised.
LEMMA RejectedType ==
  ASSUME TypeOK, NEW c \in Call, Rejected(c)
  PROVE  /\ call' \in [Call -> CallState]
         /\ call'[c].phase \in {"idle", "raised"}
         /\ call'[c].phase = "idle" => call'[c].attempt < MaxAttempts
         /\ \A d \in Call \ {c} : call'[d] = call[d]
<1>1. call[c] \in CallState /\ call[c].attempt \in 0..MaxAttempts
  BY DEF TypeOK, CallState
<1>2. At("idle", call[c].attempt) \in CallState /\ At("raised", 0) \in CallState
  BY <1>1, Assumptions DEF At, CallState, Phase, Inside, Null
<1>3. QED
  BY <1>1, <1>2, Assumptions DEF Rejected, TypeOK, At

\* A row keeps its id, its predecessor and its signature when accounts go.
LEMMA DeletionKeepsLinks ==
  ASSUME TypeOK, NEW u \in User, DeleteAccount(u)
  PROVE  /\ rows' \subseteq Row
         /\ \A r \in rows' : \E s \in rows :
              /\ r.id = s.id /\ r.prev = s.prev /\ r.signed = s.signed /\ r.by = s.by
              /\ r = IF s.user = u THEN [s EXCEPT !.user = NoUser] ELSE s
              /\ r.user \in {s.user, NoUser}
         /\ \A s \in rows : \E r \in rows' :
              r.id = s.id /\ r.prev = s.prev /\ r.by = s.by
<1>1. \A s \in rows : LET t == IF s.user = u THEN [s EXCEPT !.user = NoUser] ELSE s
                      IN  /\ t \in Row /\ t.id = s.id /\ t.prev = s.prev
                          /\ t.signed = s.signed /\ t.by = s.by /\ t.user \in {s.user, NoUser}
  BY DEF TypeOK, Row
<1>2. QED
  BY <1>1, Zenon DEF DeleteAccount

LEMMA InitIInv == Init => IInv
<1> SUFFICES ASSUME Init PROVE IInv
  OBVIOUS
<1>1. CASE Seeded
  <2>1. PICK u \in User : rows = {GenesisRow(u)} /\ nextId = 2
    BY <1>1 DEF Init
  <2>2. /\ GenesisRow(u) \in Row /\ GenesisRow(u).id = 1 /\ GenesisRow(u).prev = Null
        /\ GenesisRow(u).by = NoCall
    BY Assumptions DEF GenesisRow, Row, Null
  <2>3. TypeOK
    BY <2>1, <2>2, Assumptions DEF Init, TypeOK, At, CallState, Phase, Inside, Null
  <2>6. OneRowPerReturn
    BY <2>1, <2>2, Assumptions DEF Init, At, OneRowPerReturn, RowsOf, HasCommitted
  <2>4. AttemptsLeft /\ IdsFresh /\ Signed /\ Behind
    BY <2>1, <2>2, Assumptions
    DEF Init, AttemptsLeft, IdsFresh, Signed, Behind, SignatureHolds, GenesisRow, At
  <2>5. OneEnd /\ OneStart /\ \A r \in rows : LinkHolds(r)
    BY <2>1, <2>2 DEF OneEnd, OneStart, IsLast, LinkHolds, Null
  <2> QED
    BY <2>3, <2>4, <2>5, <2>6 DEF IInv, Linked
<1>2. CASE ~Seeded
  <2>1. rows = {} /\ nextId = 1
    BY <1>2 DEF Init
  <2>2. TypeOK
    BY <2>1, Assumptions DEF Init, TypeOK, At, CallState, Phase, Inside, Null
  <2>3. AttemptsLeft /\ IdsFresh /\ Signed /\ OneRowPerReturn
    BY <2>1, Assumptions
    DEF Init, AttemptsLeft, IdsFresh, Signed, At, OneRowPerReturn, RowsOf,
        HasCommitted
  <2> QED
    BY <1>2, <2>2, <2>3 DEF IInv
<1> QED
  BY <1>1, <1>2

-----------------------------------------------------------------------------
\* Links depend on the ids and the predecessors of the rows only.
LEMMA SameRowsSameLinks ==
  ASSUME UNCHANGED rows
  PROVE  /\ OneEnd' <=> OneEnd
         /\ OneStart' <=> OneStart
         /\ \A r \in rows : LinkHolds(r)' <=> LinkHolds(r)
BY DEF OneEnd, OneStart, LinkHolds, Precedes, IsLast, Claimed

\* A step that adds no row and ends no commit leaves the writers as they are.
LEMMA WritersStay ==
  ASSUME IInv, NEW c \in Call, UNCHANGED rows, HasCommitted(c)' <=> HasCommitted(c),
         \A d \in Call \ {c} : call'[d] = call[d]
  PROVE  OneRowPerReturn'
<1>1. ASSUME NEW d \in Call
      PROVE  RowsOf(d)' = RowsOf(d) /\ (HasCommitted(d)' <=> HasCommitted(d))
  BY DEF RowsOf, HasCommitted
<1>2. ASSUME NEW d \in Call
      PROVE  /\ \A r, s \in RowsOf(d)' : r = s
             /\ RowsOf(d)' # {} <=> HasCommitted(d)'
  BY <1>1 DEF IInv, OneRowPerReturn
<1> QED
  BY <1>2 DEF OneRowPerReturn

\* A call that leaves its attempt without a row disturbs nothing.
LEMMA LeavingKeepsIInv ==
  ASSUME IInv, NEW c \in Call, UNCHANGED <<rows, account>>,
         nextId' \in {nextId, nextId + 1}, nextId' \in 1..(MaxId + 1),
         call' \in [Call -> CallState],
         call'[c].phase \notin {"read", "inserted"},
         HasCommitted(c)' <=> HasCommitted(c),
         call'[c].phase = "idle" => call'[c].attempt < MaxAttempts,
         \A d \in Call \ {c} : call'[d] = call[d]
  PROVE  IInv'
<1>1. TypeOK'
  BY DEF IInv, TypeOK
<1>2. AttemptsLeft'
  BY DEF IInv, AttemptsLeft
<1>3. IdsFresh'
  <2>1. nextId \in Int /\ nextId <= nextId' /\ \A r \in rows : r.id \in Int
    BY DEF IInv, TypeOK, Row
  <2> QED
    BY <2>1 DEF IInv, IdsFresh
<1>4. Signed'
  BY DEF IInv, Signed, SignatureHolds
<1>5. ASSUME Seeded PROVE Linked'
  <2>1. Behind'
    BY <1>5 DEF IInv, Linked, Behind
  <2> QED
    BY <1>5, <2>1, SameRowsSameLinks DEF IInv, Linked
<1>6. OneRowPerReturn'
  BY WritersStay
<1> QED
  BY <1>1, <1>2, <1>3, <1>4, <1>5, <1>6 DEF IInv

LEMMA CutShortKeepsIInv ==
  ASSUME IInv, NEW c \in Call, NEW how \in {"killed", "raised"}, CutShort(c, how)
  PROVE  IInv'
<1> DEFINE end == IF call[c].phase = "committed" THEN "unsure" ELSE how
<1>1. At(end, 0) \in CallState /\ At(end, 0).phase = end
  BY Assumptions DEF At, CallState, Phase, Inside, Null
<1>2. /\ call' \in [Call -> CallState]
      /\ call'[c].phase = end
      /\ \A d \in Call \ {c} : call'[d] = call[d]
  BY <1>1 DEF CutShort, IInv, TypeOK
<1>3. UNCHANGED <<rows, account>> /\ nextId' = nextId /\ nextId \in 1..(MaxId + 1)
  BY DEF CutShort, IInv, TypeOK
<1>4. HasCommitted(c)' <=> HasCommitted(c)
  BY <1>2 DEF HasCommitted, CutShort, Inside
<1> QED
  BY <1>2, <1>3, <1>4, LeavingKeepsIInv

LEMMA ReturnKeepsIInv ==
  ASSUME IInv, NEW c \in Call, Return(c)
  PROVE  IInv'
<1>1. At("returned", 0) \in CallState /\ At("returned", 0).phase = "returned"
  BY Assumptions DEF At, CallState, Phase, Inside, Null
<1>2. /\ call' \in [Call -> CallState]
      /\ call'[c].phase = "returned"
      /\ \A d \in Call \ {c} : call'[d] = call[d]
  BY <1>1 DEF Return, IInv, TypeOK
<1>3. UNCHANGED <<rows, account>> /\ nextId' = nextId /\ nextId \in 1..(MaxId + 1)
  BY DEF Return, IInv, TypeOK
<1>4. HasCommitted(c)' <=> HasCommitted(c)
  BY <1>2 DEF HasCommitted, Return
<1> QED
  BY <1>2, <1>3, <1>4, LeavingKeepsIInv

LEMMA ReadHeadKeepsIInv ==
  ASSUME IInv, NEW c \in Call, ReadHead(c)
  PROVE  IInv'
<1>1. PICK h \in {Null} \union {r.id : r \in rows} :
         /\ LastHash(h)
         /\ call' = [call EXCEPT ![c].phase = "read",
                                 ![c].attempt = @ + 1,
                                 ![c].prev = h]
  BY DEF ReadHead
<1>2. UNCHANGED <<rows, nextId, account>>
  BY DEF ReadHead
<1>3. h \in 0..MaxId
  BY Assumptions DEF IInv, TypeOK, Row, Null
<1>4. /\ call[c] \in CallState /\ call[c].attempt < MaxAttempts
      /\ call[c].attempt \in 0..MaxAttempts
  BY DEF IInv, TypeOK, AttemptsLeft, ReadHead, CallState
<1>5. /\ call' \in [Call -> CallState]
      /\ call'[c].phase = "read" /\ call'[c].prev = h
      /\ \A d \in Call \ {c} : call'[d] = call[d]
  BY <1>1, <1>3, <1>4, Assumptions DEF IInv, TypeOK, CallState, Phase, Inside
<1>6. TypeOK' /\ AttemptsLeft' /\ IdsFresh' /\ Signed'
  BY <1>2, <1>5 DEF IInv, TypeOK, AttemptsLeft, IdsFresh, Signed, SignatureHolds
<1>7. ASSUME Seeded PROVE Linked'
  <2>1. rows # {}
    BY <1>7 DEF IInv, Linked, OneEnd
  <2>2. \E s \in rows : s.id = h
    BY <2>1, <1>1 DEF LastHash
  <2>3. Behind'
    BY <1>2, <1>5, <1>7, <2>2 DEF IInv, Linked, Behind
  <2> QED
    BY <1>2, <1>7, <2>3, SameRowsSameLinks DEF IInv, Linked
<1>8. OneRowPerReturn'
  BY <1>2, <1>5, WritersStay DEF HasCommitted, ReadHead
<1> QED
  BY <1>6, <1>7, <1>8 DEF IInv

LEMMA InsertKeepsIInv ==
  ASSUME IInv, NEW c \in Call, Insert(c)
  PROVE  IInv'
<1>1. UNCHANGED <<rows, account>> /\ nextId' = nextId + 1 /\ nextId \in 1..MaxId
  BY Assumptions DEF Insert, IInv, TypeOK
<1>2. CASE UserOf[c] \notin account
  <2>1. Rejected(c) /\ call[c].phase = "read"
    BY <1>2 DEF Insert
  <2>2. HasCommitted(c)' <=> HasCommitted(c)
    BY <2>1, RejectedType DEF IInv, HasCommitted
  <2> QED
    BY <1>1, <2>1, <2>2, RejectedType, LeavingKeepsIInv, Assumptions DEF IInv, TypeOK
<1>3. CASE UserOf[c] \in account
  <2>1. /\ call' = [call EXCEPT ![c].phase = "inserted", ![c].id = nextId]
        /\ call[c] \in CallState /\ call[c].phase = "read"
    BY <1>3 DEF Insert, IInv, TypeOK
  <2>2. /\ call' \in [Call -> CallState]
        /\ call'[c].phase = "inserted" /\ call'[c].id = nextId
        /\ call'[c].prev = call[c].prev
        /\ \A d \in Call \ {c} : call'[d] = call[d]
    <3>1. /\ call'[c].phase = "inserted" /\ call'[c].id = nextId
          /\ call'[c].prev = call[c].prev /\ call'[c].attempt = call[c].attempt
          /\ call'[c] = [phase |-> call'[c].phase, attempt |-> call'[c].attempt,
                         prev |-> call'[c].prev, id |-> call'[c].id]
          /\ \A d \in Call \ {c} : call'[d] = call[d]
          /\ call' = [d \in Call |-> call'[d]]
      BY <2>1 DEF IInv, TypeOK, CallState
    <3>2. call'[c] \in CallState
      BY <1>1, <2>1, <3>1, Assumptions DEF CallState, Phase, Inside
    <3> QED
      BY <3>1, <3>2 DEF IInv, TypeOK
  <2>3. TypeOK' /\ AttemptsLeft' /\ Signed'
    BY <1>1, <2>2, Assumptions
    DEF IInv, TypeOK, AttemptsLeft, Signed, SignatureHolds
  <2>4. IdsFresh'
    <3>1. \A r \in rows : r.id \in Int /\ r.id < nextId
      BY DEF IInv, TypeOK, IdsFresh, Row
    <3>2. \A d \in Call \ {c} : call[d].phase = "inserted" =>
             call[d].id \in Int /\ call[d].id < nextId
      BY Assumptions DEF IInv, IdsFresh
    <3> QED
      BY <1>1, <2>2, <3>1, <3>2 DEF IInv, IdsFresh
  <2>5. ASSUME Seeded PROVE Linked'
    <3>1. PICK s \in rows : s.id = call[c].prev
      BY <2>1, <2>5 DEF IInv, Linked, Behind
    <3>2. call[c].prev < nextId
      BY <3>1 DEF IInv, IdsFresh
    <3>3. Behind'
      BY <1>1, <2>2, <2>5, <3>1, <3>2 DEF IInv, Linked, Behind
    <3> QED
      BY <1>1, <2>5, <3>3, SameRowsSameLinks DEF IInv, Linked
  <2>6. OneRowPerReturn'
    BY <1>1, <2>1, <2>2, WritersStay DEF HasCommitted
  <2> QED
    BY <2>3, <2>4, <2>5, <2>6 DEF IInv
<1> QED
  BY <1>2, <1>3

-----------------------------------------------------------------------------
\* An unclaimed predecessor of a call inside an attempt is the last row.
LEMMA UnclaimedIsLast ==
  ASSUME IInv, Seeded, NEW c \in Call, call[c].phase = "inserted",
         ~Claimed(call[c].prev)
  PROVE  \E s \in rows : s.id = call[c].prev /\ IsLast(s)
BY DEF IInv, Linked, Behind, OneEnd

LEMMA CommitKeepsLinks ==
  ASSUME IInv, Seeded, NEW c \in Call, call[c].phase = "inserted",
         ~Claimed(call[c].prev), rows' = rows \union {Added(c)}
  PROVE  OneEnd' /\ OneStart' /\ \A r \in rows' : LinkHolds(r)'
<1>0. PICK new : new = Added(c)
  OBVIOUS
<1>1. /\ new.id = call[c].id /\ new.prev = call[c].prev
      /\ call[c].id \in 1..MaxId
  BY <1>0 DEF Added, IInv, IdsFresh
<1>2. PICK s \in rows : s.id = call[c].prev /\ IsLast(s)
  BY UnclaimedIsLast
<1>3. \A r \in rows : r.id \in 1..MaxId /\ r.prev \in 0..MaxId
  BY DEF IInv, TypeOK, Row
<1>4. s.id < new.id
  BY <1>1, <1>2 DEF IInv, Linked, Behind
<1>5. \A r \in rows : r.id <= s.id /\ r.id < new.id
  BY <1>1, <1>2, <1>3, <1>4, Assumptions DEF IsLast
<1>6. rows' = rows \union {new} /\ new \in rows' /\ s \in rows'
  BY <1>0, <1>2 DEF IsLast
<1>7. OneEnd'
  <2>1. IsLast(new)'
    BY <1>1, <1>3, <1>5, <1>6, Assumptions DEF IsLast
  <2>2. ASSUME NEW r \in rows PROVE Claimed(r.id)'
    <3>1. CASE IsLast(r)
      <4>1. r.id = s.id
        BY <3>1, <1>2, <1>3, Assumptions DEF IsLast
      <4> QED
        BY <4>1, <1>1, <1>2, <1>3, <1>6 DEF Claimed, Null
    <3>2. CASE ~IsLast(r)
      BY <3>2, <1>6 DEF IInv, Linked, OneEnd, Claimed
    <3> QED
      BY <3>1, <3>2
  <2> QED
    BY <1>6, <2>1, <2>2 DEF OneEnd
<1>8. OneStart'
  BY <1>1, <1>2, <1>3, <1>4, <1>6, Assumptions DEF IInv, Linked, OneStart, Null
<1>9. ASSUME NEW r \in rows PROVE LinkHolds(r)'
  <2>1. LinkHolds(r) /\ r.id < new.id /\ r.id \in Int /\ new.id \in Int
    BY <1>1, <1>3, <1>5 DEF IInv, Linked
  <2>2. \A t \in rows : (Precedes(t, r)' <=> Precedes(t, r))
    BY <1>6, <2>1 DEF Precedes
  <2> QED
    BY <1>6, <2>1, <2>2 DEF LinkHolds
<1>10. LinkHolds(new)'
  <2>1. Precedes(s, new)'
    BY <1>1, <1>3, <1>4, <1>5, <1>6, Assumptions DEF Precedes
  <2> QED
    BY <1>1, <1>2, <1>4, <1>6, <2>1 DEF LinkHolds
<1> QED
  BY <1>6, <1>7, <1>8, <1>9, <1>10

LEMMA CommitKeepsIInv ==
  ASSUME IInv, NEW c \in Call, Commit(c)
  PROVE  IInv'
<1>1. call[c].phase = "inserted" /\ UNCHANGED <<nextId, account>>
  BY DEF Commit
<1>2. CASE Claimed(call[c].prev)
  <2>1. Rejected(c) /\ UNCHANGED rows
    BY <1>2 DEF Commit
  <2>2. HasCommitted(c)' <=> HasCommitted(c)
    BY <1>1, <2>1, RejectedType DEF IInv, HasCommitted
  <2> QED
    BY <1>1, <2>1, <2>2, RejectedType, LeavingKeepsIInv, Assumptions DEF IInv, TypeOK
<1>3. CASE ~Claimed(call[c].prev)
  <2>1. rows' = rows \union {Added(c)} /\ call' = [call EXCEPT ![c] = At("committed", 0)]
    BY <1>3 DEF Commit
  <2>2. At("committed", 0) \in CallState /\ At("committed", 0).phase = "committed"
    BY Assumptions DEF At, CallState, Phase, Inside, Null
  <2>3. /\ call' \in [Call -> CallState] /\ call'[c].phase = "committed"
        /\ \A d \in Call \ {c} : call'[d] = call[d]
    BY <2>1, <2>2 DEF IInv, TypeOK
  <2>4. /\ Added(c) \in Row /\ Added(c).id = call[c].id /\ SignatureHolds(Added(c))
        /\ Added(c).prev = call[c].prev /\ Added(c).by = c
    BY <1>1, Assumptions
    DEF Added, Row, SignatureHolds, IInv, TypeOK, IdsFresh, CallState
  <2>5. TypeOK' /\ AttemptsLeft' /\ Signed'
    BY <1>1, <2>1, <2>3, <2>4
    DEF IInv, TypeOK, AttemptsLeft, Signed, SignatureHolds
  <2>6. IdsFresh'
    BY <1>1, <2>1, <2>3, <2>4 DEF IInv, IdsFresh
  <2>7. ASSUME Seeded PROVE Linked'
    <3>1. Behind'
      BY <2>1, <2>3, <2>7 DEF IInv, Linked, Behind
    <3> QED
      BY <1>1, <1>3, <2>1, <2>7, <3>1, CommitKeepsLinks DEF Linked
  <2>8. OneRowPerReturn'
    <3>1. RowsOf(c) = {} /\ RowsOf(c)' = {Added(c)}
      BY <1>1, <2>1, <2>4 DEF IInv, OneRowPerReturn, RowsOf, HasCommitted
    <3>2. \A d \in Call \ {c} : RowsOf(d)' = RowsOf(d)
      BY <2>1, <2>4 DEF RowsOf
    <3>3. HasCommitted(c)' /\ \A d \in Call \ {c} : HasCommitted(d)' <=> HasCommitted(d)
      BY <2>3 DEF HasCommitted
    <3> QED
      BY <3>1, <3>2, <3>3 DEF IInv, OneRowPerReturn
  <2> QED
    BY <2>5, <2>6, <2>7, <2>8 DEF IInv
<1> QED
  BY <1>2, <1>3

LEMMA DeletionKeepsIInv ==
  ASSUME IInv, NEW u \in User, DeleteAccount(u)
  PROVE  IInv'
<1>1. /\ rows' \subseteq Row
      /\ \A r \in rows' : \E s \in rows :
           /\ r.id = s.id /\ r.prev = s.prev /\ r.signed = s.signed /\ r.by = s.by
           /\ r = IF s.user = u THEN [s EXCEPT !.user = NoUser] ELSE s
           /\ r.user \in {s.user, NoUser}
      /\ \A s \in rows : \E r \in rows' : r.id = s.id /\ r.prev = s.prev /\ r.by = s.by
  BY DeletionKeepsLinks DEF IInv
<1>2. UNCHANGED <<nextId, call>> /\ account' \subseteq account
  BY DEF DeleteAccount
<1>3. TypeOK' /\ AttemptsLeft'
  BY <1>1, <1>2 DEF IInv, TypeOK, AttemptsLeft
<1>4. IdsFresh'
  <2>1. ASSUME NEW r \in rows', NEW t \in rows', r.id = t.id PROVE r = t
    BY <1>1, <2>1 DEF IInv, IdsFresh
  <2>2. \A r \in rows' : r.id < nextId
    BY <1>1 DEF IInv, IdsFresh
  <2>3. \A c \in Call : call[c].phase = "inserted" => \A r \in rows' : r.id # call[c].id
    BY <1>1 DEF IInv, IdsFresh
  <2> QED
    BY <1>2, <2>1, <2>2, <2>3 DEF IInv, IdsFresh
<1>5. Signed'
  BY <1>1 DEF IInv, Signed, SignatureHolds
<1>6. ASSUME Seeded PROVE Linked'
  <2>1. Behind'
    BY <1>1, <1>2, <1>6 DEF IInv, Linked, Behind
  <2>2. OneEnd'
    BY <1>1, <1>6 DEF IInv, Linked, OneEnd, IsLast, Claimed
  <2>3. OneStart'
    BY <1>1, <1>6 DEF IInv, Linked, OneStart
  <2>4. ASSUME NEW r \in rows' PROVE LinkHolds(r)'
    <3>1. PICK s \in rows : r.id = s.id /\ r.prev = s.prev
      BY <1>1
    <3>2. LinkHolds(s)
      BY <1>6 DEF IInv, Linked
    <3> QED
      BY <1>1, <3>1, <3>2 DEF LinkHolds, Precedes
  <2> QED
    BY <2>1, <2>2, <2>3, <2>4 DEF Linked
<1>7. OneRowPerReturn'
  <2>1. ASSUME NEW c \in Call, NEW r \in RowsOf(c)', NEW t \in RowsOf(c)' PROVE r = t
    <3>1. PICK s \in rows : /\ s.by = c /\ r.id = s.id
      BY <1>1 DEF RowsOf
    <3>2. PICK v \in rows : /\ v.by = c /\ t.id = v.id
      BY <1>1 DEF RowsOf
    <3>3. s = v
      BY <3>1, <3>2 DEF IInv, OneRowPerReturn, RowsOf
    <3> QED
      BY <1>4, <3>1, <3>2, <3>3 DEF IdsFresh, RowsOf
  <2>2. ASSUME NEW c \in Call PROVE RowsOf(c)' # {} <=> RowsOf(c) # {}
    BY <1>1 DEF RowsOf
  <2>3. ASSUME NEW c \in Call PROVE HasCommitted(c)' <=> HasCommitted(c)
    BY <1>2 DEF HasCommitted
  <2> QED
    BY <2>1, <2>2, <2>3 DEF IInv, OneRowPerReturn
<1> QED
  BY <1>3, <1>4, <1>5, <1>6, <1>7 DEF IInv

LEMMA NextKeepsIInv == IInv /\ [Next]_vars => IInv'
<1> SUFFICES ASSUME IInv, [Next]_vars PROVE IInv'
  OBVIOUS
<1>1. ASSUME NEW c \in Call, Step(c) PROVE IInv'
  BY <1>1, ReadHeadKeepsIInv, InsertKeepsIInv, CommitKeepsIInv, ReturnKeepsIInv DEF Step
<1>2. ASSUME NEW c \in Call, Kill(c) \/ Disconnect(c) PROVE IInv'
  BY <1>2, CutShortKeepsIInv DEF Kill, Disconnect
<1>3. ASSUME NEW u \in User, DeleteAccount(u) PROVE IInv'
  BY <1>3, DeletionKeepsIInv
<1>4. CASE UNCHANGED vars
  <2>1. UNCHANGED <<rows, nextId, account, call>>
    BY <1>4 DEF vars
  <2>2. Linked' <=> Linked
    BY <2>1, SameRowsSameLinks DEF Linked, Behind
  <2> QED
    BY <2>1, <2>2
    DEF IInv, TypeOK, AttemptsLeft, IdsFresh, Signed, SignatureHolds, OneRowPerReturn, RowsOf, HasCommitted
<1> QED
  BY <1>1, <1>2, <1>3, <1>4 DEF Next

LEMMA Invariance == Spec => []IInv
BY InitIInv, NextKeepsIInv, PTL DEF Spec

-----------------------------------------------------------------------------
(***************************************************************************)
(* Every row and the state of every call have the type that the table and  *)
(* the locals of log_event give them; in particular no call makes more     *)
(* than MaxAttempts attempts.                                              *)
(***************************************************************************)
THEOREM TypeCorrect == Spec => []TypeOK
<1>1. IInv => TypeOK
  BY DEF IInv
<1> QED
  BY <1>1, Invariance, PTL

(***************************************************************************)
(* The chain that verify_audit_chain walks is broken by no interleaving of *)
(* log_event calls, only by the deletion of a row's account.               *)
(***************************************************************************)
THEOREM ErasureOnly == Spec => []OnlyErasureBreaksChain
<1>1. IInv => OnlyErasureBreaksChain
  BY DEF IInv, OnlyErasureBreaksChain, Linked, Signed
<1> QED
  BY <1>1, Invariance, PTL

(***************************************************************************)
(* However calls retry, lose, die or return, each has one row if it        *)
(* returned and none if it did not, unless its commit was left in doubt    *)
(* (log_event).                                                            *)
(***************************************************************************)
THEOREM ReturnsAreLoggedOnce == Spec => []OneRowPerReturn
<1>1. IInv => OneRowPerReturn
  BY DEF IInv
<1> QED
  BY <1>1, Invariance, PTL

-----------------------------------------------------------------------------
\* The refinement mapping in terms of the rows.
LEMMA MappedRow ==
  ASSUME IInv, NEW r \in rows
  PROVE  RowAt(r.id) = r /\ r.id \in Ids
BY DEF IInv, IdsFresh, RowAt, Ids

LEMMA MappedLast ==
  ASSUME IInv, NEW r \in rows, IsLast(r)
  PROVE  ChainLast = r.id
<1>1. \A i \in Ids : i \in Int /\ i <= r.id
  BY Assumptions DEF IInv, TypeOK, Row, Ids, IsLast
<1>2. r.id \in Ids /\ \A j \in Ids : j <= r.id
  BY <1>1 DEF Ids
<1>3. ASSUME NEW i \in Ids, \A j \in Ids : j <= i PROVE i = r.id
  BY <1>1, <1>2, <1>3
<1> QED
  BY <1>2, <1>3 DEF ChainLast

LEMMA InitMaps == Init /\ Seeded => Chain!Init
<1> SUFFICES ASSUME Init, Seeded PROVE Chain!Init
  OBVIOUS
<1>1. PICK u \in User : rows = {GenesisRow(u)}
  BY DEF Init
<1>2. IInv
  BY InitIInv
<1>3. IsLast(GenesisRow(u)) /\ GenesisRow(u).id = 1 /\ GenesisRow(u).prev = Null
  BY <1>1 DEF IsLast, GenesisRow
<1>4. Ids = {1} /\ RowAt(1) = GenesisRow(u)
  BY <1>1, <1>2, <1>3, MappedRow DEF Ids
<1>5. ChainLast = 1
  BY <1>1, <1>2, <1>3, MappedLast
<1> QED
  BY <1>3, <1>4, <1>5 DEF Chain!Init, ChainBehind

\* A step that keeps every id with its predecessor is a stutter of the chain.
LEMMA SameLinksStutter ==
  ASSUME IInv, IInv',
         \A r \in rows' : \E s \in rows : r.id = s.id /\ r.prev = s.prev,
         \A s \in rows : \E r \in rows' : r.id = s.id /\ r.prev = s.prev
  PROVE  UNCHANGED <<ChainBehind, ChainLast>>
<1>1. Ids' = Ids
  BY DEF Ids
<1>2. ASSUME NEW i \in Ids PROVE RowAt(i)'.prev = RowAt(i).prev
  <2>1. PICK s \in rows : s.id = i
    BY DEF Ids
  <2>2. PICK r \in rows' : r.id = i /\ r.prev = s.prev
    BY <2>1
  <2>3. RowAt(i) = s
    BY <2>1, MappedRow
  <2>4. RowAt(i)' = r
    BY <2>2 DEF IInv, IdsFresh, RowAt
  <2> QED
    BY <2>2, <2>3, <2>4
<1> QED
  BY <1>1, <1>2 DEF ChainBehind, ChainLast

LEMMA CommitMaps ==
  ASSUME IInv, IInv', Seeded, NEW c \in Call, Commit(c)
  PROVE  [Chain!Next]_<<ChainBehind, ChainLast>>
<1>1. CASE Claimed(call[c].prev)
  BY <1>1, SameLinksStutter DEF Commit
<1>2. CASE ~Claimed(call[c].prev)
  <2>1. call[c].phase = "inserted" /\ rows' = rows \union {Added(c)}
    BY <1>2 DEF Commit
  <2>2. PICK new : new = Added(c)
    OBVIOUS
  <2>3. /\ new \in rows' /\ new.id = call[c].id /\ new.prev = call[c].prev
        /\ new.id \in 1..MaxId /\ \A r \in rows : r.id # new.id
    BY <2>1, <2>2 DEF Added, IInv, IdsFresh
  <2>4. PICK s \in rows : s.id = new.prev /\ IsLast(s)
    BY <1>2, <2>1, <2>3, UnclaimedIsLast
  <2>5. s.id < new.id /\ new.prev # Null
    BY <2>1, <2>3, <2>4, Assumptions DEF IInv, Linked, Behind, TypeOK, Row, Null
  <2>6. ChainLast = new.prev
    BY <2>4, MappedLast
  <2>7. ChainLast' = new.id
    <3>1. IsLast(new)'
      BY <2>1, <2>2, <2>3, <2>4, <2>5, Assumptions DEF IsLast, IInv, TypeOK, Row
    <3>2. \A i \in Ids' : i \in Int /\ i <= new.id
      BY <3>1, Assumptions DEF IInv, TypeOK, Row, Ids, IsLast
    <3>3. new.id \in Ids' /\ \A i \in Ids' : (\A j \in Ids' : j <= i) => i = new.id
      BY <2>3, <3>2 DEF Ids
    <3> QED
      BY <3>2, <3>3 DEF ChainLast
  <2>8. Ids' = Ids \union {new.id} /\ new.id \notin Ids
    BY <2>1, <2>2, <2>3 DEF Ids
  <2>9. RowAt(new.id)' = new
    BY <2>3 DEF IInv, IdsFresh, RowAt
  <2>10. ASSUME NEW i \in Ids PROVE RowAt(i)' = RowAt(i)
    <3>1. PICK r \in rows : r.id = i
      BY DEF Ids
    <3>2. RowAt(i) = r
      BY <3>1, MappedRow
    <3>3. RowAt(i)' = r
      BY <2>1, <3>1 DEF IInv, IdsFresh, RowAt
    <3> QED
      BY <3>2, <3>3
  <2>11. ChainBehind' = [i \in Ids \union {new.id} |->
                            IF i = new.id THEN ChainLast ELSE ChainBehind[i]]
    BY <2>5, <2>6, <2>8, <2>9, <2>10 DEF ChainBehind
  <2>12. Chain!Append(new.id)
    BY <2>7, <2>8, <2>11 DEF Chain!Append, ChainBehind
  <2> QED
    BY <2>3, <2>12 DEF Chain!Next
<1> QED
  BY <1>1, <1>2

LEMMA NextMaps ==
  Seeded /\ IInv /\ IInv' /\ [Next]_vars => [Chain!Next]_<<ChainBehind, ChainLast>>
<1> SUFFICES ASSUME Seeded, IInv, IInv', [Next]_vars
             PROVE  [Chain!Next]_<<ChainBehind, ChainLast>>
  OBVIOUS
<1>1. ASSUME UNCHANGED rows PROVE UNCHANGED <<ChainBehind, ChainLast>>
  BY <1>1 DEF ChainBehind, ChainLast, Ids, RowAt
<1>2. ASSUME NEW c \in Call,
             ReadHead(c) \/ Insert(c) \/ Return(c) \/ Kill(c) \/ Disconnect(c)
      PROVE  UNCHANGED rows
  BY <1>2 DEF ReadHead, Insert, Return, Kill, Disconnect, CutShort
<1>3. ASSUME NEW c \in Call, Commit(c) PROVE [Chain!Next]_<<ChainBehind, ChainLast>>
  BY <1>3, CommitMaps
<1>4. ASSUME NEW u \in User, DeleteAccount(u)
      PROVE  UNCHANGED <<ChainBehind, ChainLast>>
  BY <1>4, DeletionKeepsLinks, SameLinksStutter DEF IInv
<1>5. CASE UNCHANGED vars
  BY <1>1, <1>5 DEF vars
<1> QED
  BY <1>1, <1>2, <1>3, <1>4, <1>5 DEF Next, Step

(***************************************************************************)
(* log_event implements the abstract chain: on a log that holds its        *)
(* genesis entry every append goes in behind the entry that is last, and   *)
(* no retry, crash or account deletion moves or removes an entry.          *)
(***************************************************************************)
THEOREM ChainRefinement == Seeded => (Spec => ImplementsChain)
<1> SUFFICES ASSUME Seeded PROVE Spec => ImplementsChain
  OBVIOUS
<1>1. Init => Chain!Init
  BY InitMaps
<1>2. IInv /\ IInv' /\ [Next]_vars => [Chain!Next]_(Chain!vars)
  BY NextMaps DEF Chain!vars
<1> QED
  BY <1>1, <1>2, Invariance, PTL DEF Spec, ImplementsChain, Chain!Spec
=============================================================================
