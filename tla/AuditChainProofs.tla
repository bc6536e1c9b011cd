-------------------------- MODULE AuditChainProofs --------------------------
(***************************************************************************)
(* For any number of processes, calls, faults and events: the types, that  *)
(* every row of record() links to a stored row (AllLinked), and, while one *)
(* process makes one call at a time, what verifyHashChain answers          *)
(* (BrokenIffUnsound).                                                     *)
(***************************************************************************)
EXTENDS AuditChain, FiniteSetTheorems, TLAPS

\* What a row needs to be there: its hash and its number.
Stored(hash, seq) == \E e \in rows : e.id = hash /\ e.seq = seq

\* The number and the link that go with a tip.
Extends(row) == \/ row.seq = 1 /\ row.prev = 0
                \/ row.seq > 1 /\ Stored(row.prev, row.seq - 1)

Tips == \A p \in Processes : tip[p] = NoTip \/ (tip[p].seq > 0 /\ Stored(tip[p].hash, tip[p].seq))

InFlight ==
    \A c \in Calls :
        /\ call[c].step = "insert" => call[c].row \in Row /\ Extends(call[c].row)
        /\ call[c].step = "remember" =>
              /\ call[c].row \in Row
              /\ call[c].proc \in Processes
              /\ call[c].row.seq > 0
              /\ Stored(call[c].row.id, call[c].row.seq)
        /\ call[c].step # "idle" => call[c].proc \in Processes

Links == \A e \in rows : e.seq = 0 \/ Extends(e)

Inv == TypeOK /\ Tips /\ InFlight /\ Links

-----------------------------------------------------------------------------

LEMMA InitInv == Init => Inv
<1> SUFFICES ASSUME Init PROVE Inv
  OBVIOUS
<1>1. faults \in [AllFaults -> 0 .. MaxFaults]
  BY AuditAssumption DEF Init
<1>2. TypeOK
  BY <1>1 DEF Init, TypeOK, NoCall, NoTip, Tip
<1>3. Tips /\ InFlight /\ Links
  BY DEF Init, Tips, InFlight, Links, NoCall
<1> QED BY <1>2, <1>3 DEF Inv

\* A counter of faults stays below its bound.
LEMMA FaultBounded ==
  ASSUME TypeOK, NEW k, Fault(k)
  PROVE  faults' \in [AllFaults -> 0 .. MaxFaults]
  BY AuditAssumption DEF TypeOK, Fault

\* Rows that keep their number, hash and link keep everything stored.
LEMMA StoredStays ==
  ASSUME \A e \in rows : \E f \in rows' : f.id = e.id /\ f.seq = e.seq,
         NEW hash, NEW seq, Stored(hash, seq)
  PROVE  Stored(hash, seq)'
  BY DEF Stored

LEMMA ExtendsStays ==
  ASSUME \A e \in rows : \E f \in rows' : f.id = e.id /\ f.seq = e.seq,
         NEW row, Extends(row)
  PROVE  \/ row.seq = 1 /\ row.prev = 0
         \/ row.seq > 1 /\ Stored(row.prev, row.seq - 1)'
  BY StoredStays DEF Extends

LEMMA RecordInv ==
  ASSUME Inv, NEW c \in Calls, NEW p \in Processes, Record(c, p)
  PROVE  Inv'
<1> DEFINE r == [id |-> issued + 1, seq |-> tip[p].seq + 1, prev |-> tip[p].hash, sound |-> TRUE]
<1>1. r \in Row /\ Extends(r)
  BY DEF Inv, TypeOK, Tips, Tip, NoTip, Row, Extends
<1>2. /\ rows' = rows /\ tip' = tip /\ issued' = issued + 1
      /\ faults' \in [AllFaults -> 0 .. MaxFaults]
  BY FaultBounded DEF Record, Inv, TypeOK
<1>3. call' = [call EXCEPT ![c] = [step |-> "insert", proc |-> p, row |-> r]]
  BY DEF Record
<1> HIDE DEF r
<1>4. TypeOK'
  BY <1>1, <1>2, <1>3 DEF Inv, TypeOK
<1>5. InFlight'
  BY <1>1, <1>2, <1>3 DEF Inv, TypeOK, InFlight, Stored, Extends
<1>6. Tips' /\ Links'
  BY <1>2 DEF Inv, Tips, Links, Stored, Extends
<1> QED BY <1>4, <1>5, <1>6 DEF Inv

\* The three steps that end a call without a new row.
LEMMA EndInv ==
  ASSUME Inv, NEW c \in Calls, Remember(c) \/ Reject(c)
  PROVE  Inv'
<1>1. /\ rows' = rows /\ faults' = faults /\ issued' = issued
      /\ call' = [call EXCEPT ![c] = NoCall]
  BY DEF Remember, Reject
<1>2. tip' \in [Processes -> Tip] /\ Tips'
  <2>1. CASE Remember(c)
    <3>1. /\ call[c].proc \in Processes
          /\ call[c].row \in Row /\ call[c].row.seq > 0
          /\ Stored(call[c].row.id, call[c].row.seq)
      BY <2>1 DEF Remember, Inv, InFlight
    <3>2. tip' = [tip EXCEPT ![call[c].proc] =
                    [hash |-> call[c].row.id, seq |-> call[c].row.seq]]
      BY <2>1 DEF Remember
    <3> QED BY <1>1, <3>1, <3>2 DEF Inv, TypeOK, Tips, Tip, Row, Stored
  <2>2. CASE Reject(c)
    BY <1>1, <2>2 DEF Reject, Inv, TypeOK, Tips, Stored
  <2> QED BY <2>1, <2>2
<1>3. TypeOK'
  BY <1>1, <1>2 DEF Inv, TypeOK, NoCall
<1>4. InFlight'
  BY <1>1 DEF Inv, TypeOK, InFlight, NoCall, Stored, Extends
<1>5. Links'
  BY <1>1 DEF Inv, Links, Stored, Extends
<1> QED BY <1>2, <1>3, <1>4, <1>5 DEF Inv

\* The two steps that write the row of a call.
LEMMA WriteInv ==
  ASSUME Inv, NEW c \in Calls, Insert(c) \/ AnswerLost(c)
  PROVE  Inv'
<1>1. call[c].row \in Row /\ Extends(call[c].row) /\ call[c].proc \in Processes
  BY DEF Insert, AnswerLost, Inv, InFlight
<1>2. rows' = rows \cup {call[c].row} /\ tip' = tip /\ issued' = issued
  BY DEF Insert, AnswerLost
<1>3. \/ call' = [call EXCEPT ![c].step = "remember"]
      \/ call' = [call EXCEPT ![c] = NoCall]
  BY DEF Insert, AnswerLost
<1>4. faults' \in [AllFaults -> 0 .. MaxFaults]
  BY FaultBounded DEF Insert, AnswerLost, Inv, TypeOK
<1>5. \A e \in rows : \E f \in rows' : f.id = e.id /\ f.seq = e.seq
  BY <1>2
<1>6. TypeOK'
  BY <1>1, <1>2, <1>3, <1>4 DEF Inv, TypeOK, NoCall
<1>7. Tips'
  BY <1>2, <1>5, StoredStays DEF Inv, Tips
<1>8. Links'
  BY <1>1, <1>2, <1>5, ExtendsStays DEF Inv, Links, Extends
<1>9. InFlight'
  <2> SUFFICES ASSUME NEW d \in Calls
               PROVE  /\ call[d].step' = "insert" => call[d].row' \in Row /\ Extends(call[d].row)'
                      /\ call[d].step' = "remember" =>
                            /\ call[d].row' \in Row
                            /\ call[d].proc' \in Processes
                            /\ call[d].row'.seq > 0
                            /\ Stored(call[d].row.id, call[d].row.seq)'
                      /\ call[d].step' # "idle" => call[d].proc' \in Processes
    BY DEF InFlight
  <2>1. CASE d # c
    <3>1. call'[d] = call[d]
      BY <1>3, <2>1 DEF Inv, TypeOK
    <3>2. Extends(call[d].row) => Extends(call[d].row)'
      BY <1>5, <3>1, ExtendsStays DEF Extends
    <3>3. Stored(call[d].row.id, call[d].row.seq) => Stored(call[d].row.id, call[d].row.seq)'
      BY <1>5, <3>1, StoredStays DEF Stored
    <3> QED BY <3>1, <3>2, <3>3 DEF Inv, InFlight, Extends, Stored
  <2>2. CASE d = c
    <3>1. \/ call'[c] = NoCall
          \/ call'[c] = [call[c] EXCEPT !.step = "remember"]
      BY <1>3 DEF Inv, TypeOK
    <3>2. /\ call[c].row.seq > 0
          /\ \E e \in rows' : e.id = call[c].row.id /\ e.seq = call[c].row.seq
      <4>1. call[c].row.seq > 0
        BY <1>1 DEF Extends, Row
      <4>2. call[c].row \in rows'
        BY <1>2
      <4> QED BY <4>1, <4>2
    <3>3. CASE call'[c] = NoCall
      BY <2>2, <3>3 DEF NoCall
    <3>4. CASE call'[c] = [call[c] EXCEPT !.step = "remember"]
      <4>1. call'[c].step = "remember" /\ call'[c].row = call[c].row /\ call'[c].proc = call[c].proc
        BY <3>4 DEF Inv, TypeOK
      <4> QED BY <1>1, <2>2, <3>2, <4>1 DEF Stored
    <3> QED BY <3>1, <3>3, <3>4
  <2> QED BY <2>1, <2>2
<1> QED BY <1>6, <1>7, <1>8, <1>9 DEF Inv

LEMMA RestartInv ==
  ASSUME Inv, NEW p \in Processes, Restart(p)
  PROVE  Inv'
<1>1. faults' \in [AllFaults -> 0 .. MaxFaults]
  BY FaultBounded DEF Restart, Inv
<1>2. TypeOK'
  BY <1>1 DEF Restart, Inv, TypeOK, NoCall, NoTip, Tip
<1>3. Tips'
  BY DEF Restart, Inv, TypeOK, Tips, Stored
<1>4. InFlight'
  BY DEF Restart, Inv, TypeOK, InFlight, NoCall, Stored, Extends
<1>5. Links'
  BY DEF Restart, Inv, Links, Stored, Extends
<1> QED BY <1>2, <1>3, <1>4, <1>5 DEF Inv

\* A row that is not one of record(), or no longer matches its hash, disturbs
\* no link.
LEMMA OutsideInv ==
  ASSUME Inv, Declare \/ (\E e \in rows : Corrupt(e))
  PROVE  Inv'
<1>1. tip' = tip /\ call' = call /\ issued' \in Nat
  BY DEF Declare, Corrupt, Inv, TypeOK
<1>2. faults' \in [AllFaults -> 0 .. MaxFaults]
  BY FaultBounded DEF Declare, Corrupt, Inv
<1>3. /\ rows' \subseteq Row
      /\ \A e \in rows : \E f \in rows' : f.id = e.id /\ f.seq = e.seq
      /\ \A f \in rows' : f.seq = 0 \/ \E e \in rows : f.seq = e.seq /\ f.prev = e.prev
  <2>1. CASE Declare
    <3> DEFINE n == [id |-> issued + 1, seq |-> 0, prev |-> 0, sound |-> FALSE]
    <3>1. n \in Row /\ n.seq = 0
      BY DEF Inv, TypeOK, Row
    <3>2. rows' = rows \cup {n}
      BY <2>1 DEF Declare
    <3> HIDE DEF n
    <3> QED BY <3>1, <3>2 DEF Inv, TypeOK
  <2>2. ASSUME NEW e \in rows, Corrupt(e)
        PROVE  /\ rows' \subseteq Row
               /\ \A d \in rows : \E f \in rows' : f.id = d.id /\ f.seq = d.seq
               /\ \A f \in rows' : f.seq = 0 \/ \E d \in rows : f.seq = d.seq /\ f.prev = d.prev
    <3> DEFINE g == [e EXCEPT !.sound = FALSE]
    <3>1. g \in Row /\ g.id = e.id /\ g.seq = e.seq /\ g.prev = e.prev
      BY DEF Inv, TypeOK, Row
    <3>2. rows' = (rows \ {e}) \cup {g}
      BY <2>2 DEF Corrupt
    <3> HIDE DEF g
    <3>3. ASSUME NEW d \in rows PROVE \E f \in rows' : f.id = d.id /\ f.seq = d.seq
      BY <3>1, <3>2
    <3>4. ASSUME NEW f \in rows' PROVE \E d \in rows : f.seq = d.seq /\ f.prev = d.prev
      BY <3>1, <3>2
    <3> QED BY <3>1, <3>2, <3>3, <3>4 DEF Inv, TypeOK
  <2> QED BY <2>1, <2>2
<1>6. TypeOK'
  BY <1>1, <1>2, <1>3 DEF Inv, TypeOK
<1>7. Tips'
  BY <1>1, <1>3, StoredStays DEF Inv, Tips
<1>8. InFlight'
  <2>1. ASSUME NEW c \in Calls, Extends(call[c].row) PROVE Extends(call[c].row)'
    BY <1>1, <1>3, <2>1, ExtendsStays DEF Extends
  <2>2. ASSUME NEW c \in Calls, Stored(call[c].row.id, call[c].row.seq)
        PROVE  Stored(call[c].row.id, call[c].row.seq)'
    BY <1>1, <1>3, <2>2, StoredStays DEF Stored
  <2> QED BY <1>1, <2>1, <2>2 DEF Inv, InFlight
<1>9. Links'
  <2> SUFFICES ASSUME NEW f \in rows', f.seq # 0 PROVE Extends(f)'
    BY DEF Links
  <2>1. PICK e \in rows : f.seq = e.seq /\ f.prev = e.prev
    BY <1>3
  <2>2. Extends(e)
    BY <2>1 DEF Inv, Links
  <2> QED BY <1>3, <2>1, <2>2, ExtendsStays DEF Extends
<1> QED BY <1>6, <1>7, <1>8, <1>9 DEF Inv

THEOREM InvHolds == Spec => []Inv
<1>1. Init => Inv
  BY InitInv
<1>2. Inv /\ [Next]_vars => Inv'
  <2> SUFFICES ASSUME Inv, [Next]_vars PROVE Inv'
    OBVIOUS
  <2>1. CASE \E c \in Calls, p \in Processes : Record(c, p)
    BY <2>1, RecordInv
  <2>2. CASE \E c \in Calls : Insert(c) \/ AnswerLost(c)
    BY <2>2, WriteInv
  <2>3. CASE \E c \in Calls : Remember(c) \/ Reject(c)
    BY <2>3, EndInv
  <2>4. CASE \E p \in Processes : Restart(p)
    BY <2>4, RestartInv
  <2>5. CASE Declare \/ \E e \in rows : Corrupt(e)
    BY <2>5, OutsideInv
  <2>6. CASE UNCHANGED vars
    BY <2>6 DEF vars, Inv, TypeOK, Tips, InFlight, Links, Stored, Extends
  <2> QED BY <2>1, <2>2, <2>3, <2>4, <2>5, <2>6 DEF Next
<1> QED BY <1>1, <1>2, PTL DEF Spec

\* The types of the rows, the tips and the calls.
THEOREM TypeCorrect == Spec => []TypeOK
  BY InvHolds, PTL DEF Inv

\* However calls overlap, processes restart and answers get lost: every row of
\* record() is the first or links to a stored row numbered one less.
THEOREM LinksHold == Spec => []AllLinked
<1>1. Inv => AllLinked
  BY DEF Inv, TypeOK, Links, AllLinked, Extends, Stored, Linked
<1> QED BY <1>1, InvHolds, PTL

\* A tip in memory is the hash and the number of one stored row, or nothing.
THEOREM TipsHold == Spec => []TipStored
<1>1. Inv => TipStored
  BY DEF Inv, TypeOK, Tips, TipStored, Stored, Tip
<1> QED BY <1>1, InvHolds, PTL

-----------------------------------------------------------------------------
(* One call at a time.  Then no two rows have the same number, because     *)
(* whoever is next holds the newest row's.                                 *)

UpTo(n) == \A e \in rows : e.seq <= n

Idle(c) == call[c] = NoCall

OnlyTip(p) == \A q \in Processes \ {p} : tip[q] = NoTip

NobodyAtWork == /\ \A c \in Calls : Idle(c)
                /\ \A p \in Processes : OnlyTip(p) => UpTo(tip[p].seq)

AtWork(c) ==
    /\ \A d \in Calls \ {c} : Idle(d)
    /\ OnlyTip(call[c].proc)
    /\ \/ /\ call[c].step = "insert"
          /\ UpTo(tip[call[c].proc].seq)
          /\ call[c].row.seq = tip[call[c].proc].seq + 1
          /\ call[c].row.seq <= issued
       \/ /\ call[c].step = "remember"
          /\ UpTo(call[c].row.seq)

Numbered == /\ \A e \in rows : e.seq > 0 /\ e.seq <= issued
            /\ \A e, f \in rows : e.seq = f.seq => e = f

Calm == /\ issued <= MaxEvents
        /\ Numbered
        /\ NobodyAtWork \/ \E c \in Calls : AtWork(c)

CalmInv == Undisturbed => Calm

LEMMA InitCalm == Init => CalmInv
  BY AuditAssumption DEF Init, CalmInv, Calm, Numbered, NobodyAtWork, Idle, UpTo

\* A fault is remembered.
LEMMA FaultDisturbs ==
  ASSUME TypeOK, NEW k \in AllFaults \ {"corrupt"}, Fault(k)
  PROVE  ~Undisturbed'
  BY AuditAssumption DEF TypeOK, Fault, Undisturbed

LEMMA RecordCalm ==
  ASSUME Inv, CalmInv, NEW c \in Calls, NEW p \in Processes, Record(c, p), Undisturbed'
  PROVE  Calm'
<1>1. ~Fault("overlap")
  BY FaultDisturbs DEF Inv, AllFaults
<1>2. Alone(p) /\ faults' = faults
  BY <1>1 DEF Record
<1>3. Calm
  BY <1>2 DEF CalmInv, Undisturbed
<1> DEFINE r == [id |-> issued + 1, seq |-> tip[p].seq + 1, prev |-> tip[p].hash, sound |-> TRUE]
<1>4. /\ rows' = rows /\ tip' = tip /\ issued' = issued + 1 /\ issued < MaxEvents
      /\ call' = [call EXCEPT ![c] = [step |-> "insert", proc |-> p, row |-> r]]
  BY DEF Record
<1>5. (\A d \in Calls : Idle(d)) /\ OnlyTip(p)
  BY <1>2 DEF Alone, Idle, OnlyTip
<1>6. UpTo(tip[p].seq)
  BY <1>3, <1>5 DEF Calm, NobodyAtWork, AtWork, Idle, NoCall
<1>7. issued \in Nat /\ tip[p].seq \in Nat /\ tip[p].seq <= issued
  BY <1>3 DEF Inv, TypeOK, Tips, Stored, NoTip, Tip, Calm, Numbered
<1>8. r.seq = tip[p].seq + 1 /\ r.seq <= issued + 1
  BY <1>7
<1> HIDE DEF r
<1>9. /\ call'[c].proc = p /\ call'[c].step = "insert" /\ call'[c].row = r
      /\ \A d \in Calls \ {c} : call'[d] = call[d]
  BY <1>4 DEF Inv, TypeOK
<1>10. AtWork(c)'
  BY <1>4, <1>5, <1>6, <1>8, <1>9 DEF AtWork, Idle, OnlyTip, UpTo
<1>11. Numbered' /\ issued' <= MaxEvents'
  BY <1>3, <1>4, <1>7, AuditAssumption DEF Calm, Numbered, Inv, TypeOK, Row
<1> QED BY <1>10, <1>11 DEF Calm

\* The call that takes a step is the one at work.
LEMMA TheOneAtWork ==
  ASSUME Calm, NEW c \in Calls, call[c].step # "idle"
  PROVE  AtWork(c)
  BY DEF Calm, NobodyAtWork, AtWork, Idle, NoCall

LEMMA InsertCalm ==
  ASSUME Inv, CalmInv, NEW c \in Calls, Insert(c), Undisturbed'
  PROVE  Calm'
<1>1. Calm
  BY DEF Insert, CalmInv, Undisturbed
<1>2. AtWork(c) /\ call[c].step = "insert"
  BY <1>1, TheOneAtWork DEF Insert
<1> DEFINE r == call[c].row
           p == call[c].proc
<1>3. r \in Row /\ p \in Processes /\ r.seq = tip[p].seq + 1 /\ r.seq <= issued /\ UpTo(tip[p].seq)
  BY <1>2 DEF AtWork, Inv, InFlight
<1>4. /\ rows' = rows \cup {r} /\ tip' = tip /\ issued' = issued
      /\ call'[c].step = "remember" /\ call'[c].row = r /\ call'[c].proc = p
      /\ \A d \in Calls \ {c} : call'[d] = call[d]
  BY DEF Insert, Inv, TypeOK
<1>5. tip[p].seq \in Nat /\ issued \in Nat /\ \A e \in rows : e.seq \in Nat
  BY <1>3 DEF Inv, TypeOK, Tip, Row
<1> HIDE DEF r, p
<1>6. AtWork(c)'
  BY <1>2, <1>3, <1>4, <1>5 DEF AtWork, Idle, OnlyTip, UpTo, p
<1>7. Numbered'
  BY <1>1, <1>3, <1>4, <1>5 DEF Calm, Numbered, UpTo
<1> QED BY <1>1, <1>4, <1>6, <1>7 DEF Calm

LEMMA EndCalm ==
  ASSUME Inv, CalmInv, NEW c \in Calls, Remember(c) \/ Reject(c), Undisturbed'
  PROVE  Calm'
<1>1. Calm
  BY DEF Remember, Reject, CalmInv, Undisturbed
<1>2. AtWork(c)
  BY <1>1, TheOneAtWork DEF Remember, Reject
<1> DEFINE p == call[c].proc
<1>3. p \in Processes
  BY DEF Remember, Reject, Inv, InFlight
<1>4. rows' = rows /\ issued' = issued /\ call' = [call EXCEPT ![c] = NoCall]
  BY DEF Remember, Reject
<1>5. \A d \in Calls : Idle(d)'
  BY <1>2, <1>4 DEF AtWork, Idle, Inv, TypeOK
<1>6. UpTo(tip'[p].seq) /\ \A q \in Processes \ {p} : tip'[q] = NoTip
  <2>1. CASE Reject(c)
    BY <1>2, <2>1 DEF Reject, AtWork, OnlyTip
  <2>2. CASE Remember(c)
    BY <1>2, <1>3, <2>2 DEF Remember, AtWork, OnlyTip, Inv, TypeOK
  <2> QED BY <2>1, <2>2
<1> HIDE DEF p
<1>7. ASSUME NEW q \in Processes, OnlyTip(q)' PROVE UpTo(tip[q].seq)'
  <2>1. CASE q = p
    BY <1>4, <1>6, <2>1 DEF UpTo
  <2>2. CASE q # p
    <3>1. tip'[p].seq = 0
      BY <1>3, <1>7, <2>2 DEF OnlyTip, NoTip
    <3>2. rows = {}
      BY <1>1, <1>6, <3>1 DEF UpTo, Calm, Numbered, Inv, TypeOK, Row
    <3> QED BY <1>4, <3>2 DEF UpTo
  <2> QED BY <2>1, <2>2
<1>8. NobodyAtWork'
  BY <1>5, <1>7 DEF NobodyAtWork
<1> QED BY <1>1, <1>4, <1>8 DEF Calm, Numbered

LEMMA CorruptCalm ==
  ASSUME Inv, CalmInv, NEW e \in rows, Corrupt(e), Undisturbed'
  PROVE  Calm'
<1>1. Calm
  BY DEF Corrupt, Fault, CalmInv, Undisturbed, Inv, TypeOK, AllFaults
<1> DEFINE g == [e EXCEPT !.sound = FALSE]
<1>2. g.seq = e.seq
  BY DEF Inv, TypeOK, Row
<1>3. rows' = (rows \ {e}) \cup {g} /\ tip' = tip /\ call' = call /\ issued' = issued
  BY DEF Corrupt
<1> HIDE DEF g
<1>4. \A n : UpTo(n) => UpTo(n)'
  BY <1>2, <1>3 DEF UpTo
<1>5. Numbered'
  BY <1>1, <1>2, <1>3 DEF Calm, Numbered
<1>6. NobodyAtWork => NobodyAtWork'
  BY <1>3, <1>4 DEF NobodyAtWork, OnlyTip, Idle, UpTo
<1>7. \A c \in Calls : AtWork(c) => AtWork(c)'
  BY <1>3, <1>4 DEF AtWork, OnlyTip, Idle, UpTo
<1> QED BY <1>1, <1>3, <1>5, <1>6, <1>7 DEF Calm

THEOREM CalmHolds == Spec => []CalmInv
<1>1. Inv /\ CalmInv /\ [Next]_vars => CalmInv'
  <2> SUFFICES ASSUME Inv, CalmInv, [Next]_vars, Undisturbed' PROVE Calm'
    BY DEF CalmInv
  <2>1. CASE \E c \in Calls, p \in Processes : Record(c, p)
    BY <2>1, RecordCalm
  <2>2. CASE \E c \in Calls : Insert(c)
    BY <2>2, InsertCalm
  <2>3. CASE \E c \in Calls : Remember(c) \/ Reject(c)
    BY <2>3, EndCalm
  <2>4. CASE \/ \E c \in Calls : AnswerLost(c)
             \/ \E p \in Processes : Restart(p)
             \/ Declare
    BY <2>4, FaultDisturbs DEF AnswerLost, Restart, Declare, Inv, AllFaults
  <2>5. CASE \E e \in rows : Corrupt(e)
    BY <2>5, CorruptCalm
  <2>6. CASE UNCHANGED vars
    BY <2>6 DEF vars, CalmInv, Undisturbed, Calm, Numbered, NobodyAtWork, AtWork, Idle, OnlyTip, UpTo
  <2> QED BY <2>1, <2>2, <2>3, <2>4, <2>5, <2>6 DEF Next
<1> QED BY <1>1, InitCalm, InvHolds, PTL DEF Spec

\* While nobody disturbs the service, every row follows the one in front of it.
LEMMA RowsFollow ==
  ASSUME Inv, Calm, NEW e \in rows
  PROVE  FollowsPredecessor(rows, e)
<1>1. e.seq \in Nat /\ e.seq > 0 /\ Extends(e) /\ \A f \in rows : f.seq \in Nat /\ f.seq > 0
  BY DEF Inv, TypeOK, Links, Row, Calm, Numbered
<1>2. CASE e.seq = 1
  <2>1. e.prev = 0 /\ Before(rows, e) = {}
    BY <1>1, <1>2 DEF Extends, Before
  <2> QED BY <2>1 DEF FollowsPredecessor
<1>3. CASE e.seq > 1
  <2>1. PICK f \in rows : f.id = e.prev /\ f.seq = e.seq - 1
    BY <1>1, <1>3 DEF Extends, Stored
  <2>2. f \in Before(rows, e) /\ \A g \in Before(rows, e) : g.seq <= f.seq
    BY <1>1, <2>1 DEF Before
  <2> QED BY <2>1, <2>2 DEF FollowsPredecessor
<1> QED BY <1>1, <1>2, <1>3

LEMMA VerifiesTaken ==
  ASSUME Inv, Calm
  PROVE  Verifies(rows, Limit) <=> \A e \in Taken(rows, Limit) : e.sound
<1>1. Taken(rows, Limit) \subseteq rows
  BY DEF Taken
<1>2. \A e \in rows : FollowsPredecessor(rows, e)
  BY RowsFollow
<1>3. \A e, f \in rows : f.seq = e.seq => f = e
  BY DEF Calm, Numbered
<1> QED BY <1>1, <1>2, <1>3 DEF Verifies

LEMMA IntervalCounted ==
  ASSUME NEW n \in Nat
  PROVE  IsFiniteSet(1 .. n) /\ Cardinality(1 .. n) = n
<1>1. 1 \in Int /\ n \in Int
  OBVIOUS
<1>2. IsFiniteSet(1 .. n) /\ Cardinality(1 .. n) = IF 1 > n THEN 0 ELSE n - 1 + 1
  BY <1>1, FS_Interval
<1> QED BY <1>2

\* In front of a row are fewer rows than its number says.
LEMMA FewBefore ==
  ASSUME Inv, Calm, NEW e \in rows
  PROVE  Cardinality(Before(rows, e)) \in Nat /\ Cardinality(Before(rows, e)) <= e.seq - 1
<1> DEFINE B == Before(rows, e)
           s == [f \in B |-> f.seq]
<1>1. e.seq \in Nat /\ e.seq > 0 /\ \A f \in rows : f.seq \in Nat /\ f.seq > 0
  BY DEF Inv, TypeOK, Row, Calm, Numbered
<1>2. B \subseteq rows /\ \A f \in B : f.seq \in 1 .. e.seq - 1
  BY <1>1 DEF Before
<1>3. s \in Injection(B, 1 .. e.seq - 1)
  BY <1>2 DEF Injection, IsInjective, Calm, Numbered
<1>4. IsFiniteSet(1 .. e.seq - 1) /\ Cardinality(1 .. e.seq - 1) = e.seq - 1
  <2>1. e.seq - 1 \in Nat
    BY <1>1
  <2> QED BY <2>1, IntervalCounted
<1> HIDE DEF B, s
<1>5. Cardinality(B) \in Nat /\ Cardinality(B) <= Cardinality(1 .. e.seq - 1)
  BY <1>3, <1>4, FS_Injection, FS_CardinalityType
<1> QED BY <1>4, <1>5 DEF B

\* While one process makes one call at a time, is not restarted and gets its
\* answers, verifyHashChain calls the chain intact exactly when every row that
\* it takes matches its hash: no link or number of record() is ever wrong.
THEOREM VerifiesWhatItTakes ==
  Spec => [](Undisturbed => (Verifies(rows, Limit) <=> \A e \in Taken(rows, Limit) : e.sound))
<1>1. Inv /\ CalmInv => (Undisturbed => (Verifies(rows, Limit) <=> \A e \in Taken(rows, Limit) : e.sound))
  BY VerifiesTaken DEF CalmInv
<1> QED BY <1>1, InvHolds, CalmHolds, PTL

\* For no more events than verifyHashChain takes, under the same conditions: the
\* chain is found broken exactly when a row of it does not match its hash,
\* whichever of the INSERTs failed.
THEOREM BrokenFound ==
  ASSUME MaxEvents <= Limit
  PROVE  Spec => []BrokenIffUnsound
<1>1. Inv /\ CalmInv => BrokenIffUnsound
  <2> SUFFICES ASSUME Inv, Calm PROVE Verifies(rows, Limit) <=> \A e \in rows : e.sound
    BY DEF CalmInv, BrokenIffUnsound
  <2>1. ASSUME NEW e \in rows PROVE e \in Taken(rows, Limit)
    <3>1. Cardinality(Before(rows, e)) \in Nat /\ Cardinality(Before(rows, e)) <= e.seq - 1
      BY FewBefore
    <3>2. e.seq <= MaxEvents /\ e.seq \in Nat
      BY AuditAssumption DEF Calm, Numbered, Inv, TypeOK, Row
    <3> QED BY <3>1, <3>2, AuditAssumption DEF Taken
  <2>2. Taken(rows, Limit) = rows
    BY <2>1 DEF Taken
  <2> QED BY <2>2, VerifiesTaken
<1> QED BY <1>1, InvHolds, CalmHolds, PTL

=============================================================================
