------------------------- MODULE LicenseServerProofs -------------------------
(***************************************************************************)
(* The audit chain of the license server (LicenseAudit), for any number of *)
(* calls, faults and events: the types, that every row links to a stored   *)
(* row (AllLinked), late rehydrations included, and, while calls come one  *)
(* at a time, what verifyHashChain answers (BrokenIffUnsound) and that the *)
(* table is an append-only log.                                            *)
(*                                                                         *)
(* One webhook delivery (WebhookDelivery), for any number of replays,      *)
(* attempts and failures: the bounds of its counters, that a job that ends *)
(* well leaves a final status, and, without replays and failures, that it  *)
(* stays and that every POST is logged.                                    *)
(***************************************************************************)
EXTENDS LicenseAudit, WebhookDelivery, FiniteSetTheorems, SequenceTheorems, TLAPS

\* What a row needs to be there: its hash and its number.
Stored(hash, seq) == \E e \in rows : e.id = hash /\ e.seq = seq

\* A tip, in the fields or on its way there.
StoredTip(t) == t = NoTip \/ (t.seq > 0 /\ Stored(t.hash, t.seq))

\* The number and the link that go with a tip.
Extends(e) == \/ e.seq = 1 /\ e.prev = 0
              \/ e.seq > 1 /\ Stored(e.prev, e.seq - 1)

InFlight ==
    \A c \in Calls :
        /\ call[c].step = "insert" => call[c].row \in Row /\ Extends(call[c].row)
        /\ call[c].step = "remember" =>
              /\ call[c].row \in Row
              /\ StoredTip(TipOf(call[c].row))

Links == \A e \in rows : Extends(e)

Inv == TypeOK /\ StoredTip(tip) /\ StoredTip(boot.tip) /\ InFlight /\ Links

-----------------------------------------------------------------------------

LEMMA InitInv == Init => Inv
<1> SUFFICES ASSUME Init PROVE Inv
  OBVIOUS
<1>1. faults \in [AllFaults -> 0 .. MaxFaults]
  BY LicenseAuditAssumption DEF Init
<1>2. TypeOK
  BY <1>1 DEF Init, TypeOK, NoCall, NoTip, Tip, Booting
<1>3. StoredTip(tip) /\ StoredTip(boot.tip) /\ InFlight /\ Links
  BY DEF Init, StoredTip, InFlight, Links, NoCall, Booting
<1> QED BY <1>2, <1>3 DEF Inv

\* A counter of faults stays below its bound.
LEMMA FaultBounded ==
  ASSUME TypeOK, NEW k, Fault(k)
  PROVE  faults' \in [AllFaults -> 0 .. MaxFaults]
  BY LicenseAuditAssumption DEF TypeOK, Fault

\* Every row keeps its hash, number and link.
Kept == \A e \in rows : \E f \in rows' : f.id = e.id /\ f.seq = e.seq

LEMMA StoredStays ==
  ASSUME Kept, NEW hash, NEW seq, Stored(hash, seq)
  PROVE  \E f \in rows' : f.id = hash /\ f.seq = seq
  BY DEF Stored, Kept

LEMMA StoredTipStays ==
  ASSUME Kept, NEW t, StoredTip(t)
  PROVE  t = NoTip \/ (t.seq > 0 /\ \E f \in rows' : f.id = t.hash /\ f.seq = t.seq)
  BY StoredStays DEF StoredTip

LEMMA ExtendsStays ==
  ASSUME Kept, NEW e, Extends(e)
  PROVE  \/ e.seq = 1 /\ e.prev = 0
         \/ e.seq > 1 /\ \E f \in rows' : f.id = e.prev /\ f.seq = e.seq - 1
  BY StoredStays DEF Extends

\* A step that keeps the rows and leaves the calls alone leaves them in order.
LEMMA InFlightStays ==
  ASSUME InFlight, Kept,
         \A c \in Calls : call'[c] = call[c] \/ call'[c] = NoCall
  PROVE  InFlight'
<1> SUFFICES ASSUME NEW c \in Calls
             PROVE  /\ call'[c].step = "insert" => call'[c].row \in Row /\ Extends(call[c].row)'
                    /\ call'[c].step = "remember" =>
                          /\ call'[c].row \in Row
                          /\ StoredTip(TipOf(call[c].row))'
  BY DEF InFlight
<1>1. CASE call'[c] = NoCall
  BY <1>1 DEF NoCall
<1>2. CASE call'[c] = call[c]
  <2>1. CASE call[c].step = "insert"
    <3>1. call[c].row \in Row /\ Extends(call[c].row)
      BY <2>1 DEF InFlight
    <3> QED BY <1>2, <2>1, <3>1, ExtendsStays DEF Extends, Stored
  <2>2. CASE call[c].step = "remember"
    <3>1. call[c].row \in Row /\ StoredTip(TipOf(call[c].row))
      BY <2>2 DEF InFlight
    <3> QED BY <1>2, <2>2, <3>1, StoredTipStays DEF StoredTip, Stored, TipOf
  <2> QED BY <1>2, <2>1, <2>2
<1> QED BY <1>1, <1>2

LEMMA LinksStay ==
  ASSUME Links, Kept,
         \A f \in rows' : \E e \in rows : f.seq = e.seq /\ f.prev = e.prev
  PROVE  Links'
<1> SUFFICES ASSUME NEW f \in rows' PROVE Extends(f)'
  BY DEF Links
<1>1. PICK e \in rows : f.seq = e.seq /\ f.prev = e.prev
  OBVIOUS
<1>2. Extends(e)
  BY DEF Links
<1> QED BY <1>1, <1>2, ExtendsStays DEF Extends, Stored

-----------------------------------------------------------------------------

LEMMA RehydrateInv ==
  ASSUME Inv, RehydrateRead \/ RehydrateSet \/ RehydrateFail
  PROVE  Inv'
<1>1. rows' = rows /\ call' = call /\ issued' = issued
  BY DEF RehydrateRead, RehydrateSet, RehydrateFail
<1>2. faults' \in [AllFaults -> 0 .. MaxFaults]
  BY FaultBounded DEF RehydrateRead, RehydrateSet, RehydrateFail, Inv, TypeOK
<1>3. /\ tip' \in Tip /\ StoredTip(tip)'
      /\ boot' \in [step : {"start", "read", "done", "failed"}, tip : Tip]
      /\ StoredTip(boot.tip)'
  <2>1. CASE RehydrateRead
    <3>1. PICK t \in IF rows = {} THEN {NoTip} ELSE {TipOf(e) : e \in Newest} :
                  boot' = [step |-> "read", tip |-> t]
      BY <2>1 DEF RehydrateRead
    <3>2. t \in Tip /\ StoredTip(t)
      <4>1. CASE rows = {}
        BY <3>1, <4>1 DEF StoredTip, NoTip, Tip
      <4>2. CASE rows # {}
        <5>1. PICK e \in rows : t = TipOf(e)
          BY <3>1, <4>2 DEF Newest
        <5>2. e \in Row /\ e.seq > 0
          BY DEF Inv, TypeOK, Links, Extends, Row
        <5> QED BY <5>1, <5>2 DEF TipOf, Tip, Row, StoredTip, Stored
      <4> QED BY <4>1, <4>2
    <3>3. tip' = tip
      BY <2>1 DEF RehydrateRead
    <3> QED BY <1>1, <3>1, <3>2, <3>3 DEF Inv, TypeOK, StoredTip, Stored
  <2>2. CASE RehydrateSet
    BY <1>1, <2>2 DEF RehydrateSet, Inv, TypeOK, StoredTip, Stored, NoTip, Tip
  <2>3. CASE RehydrateFail
    BY <1>1, <2>3 DEF RehydrateFail, Inv, TypeOK, StoredTip, Stored
  <2> QED BY <2>1, <2>2, <2>3
<1>4. TypeOK'
  BY <1>1, <1>2, <1>3 DEF Inv, TypeOK
<1>5. InFlight' /\ Links'
  BY <1>1 DEF Inv, InFlight, Links, Extends, StoredTip, Stored
<1> QED BY <1>3, <1>4, <1>5 DEF Inv

LEMMA RecordInv ==
  ASSUME Inv, NEW c \in Calls, NEW keys, Record(c, keys)
  PROVE  Inv'
<1> DEFINE r == [id |-> issued + 1, seq |-> tip.seq + 1, prev |-> tip.hash, sound |-> Stable(keys)]
<1>0. Stable(keys) \in BOOLEAN
  BY DEF Stable
<1>1. r \in Row /\ Extends(r)
  BY <1>0 DEF Inv, TypeOK, Tip, StoredTip, NoTip, Row, Extends
<1>2. rows' = rows /\ tip' = tip /\ boot' = boot /\ issued' = issued + 1
  BY DEF Record
<1>3. call' = [call EXCEPT ![c] = [step |-> "insert", row |-> r]]
  BY DEF Record
<1>4. faults' \in [AllFaults -> 0 .. MaxFaults]
  BY FaultBounded DEF Record, Inv, TypeOK
<1> HIDE DEF r
<1>5. TypeOK'
  BY <1>1, <1>2, <1>3, <1>4 DEF Inv, TypeOK
<1>6. InFlight'
  BY <1>1, <1>2, <1>3 DEF Inv, TypeOK, InFlight, Extends, StoredTip, Stored
<1>7. StoredTip(tip)' /\ StoredTip(boot.tip)' /\ Links'
  BY <1>2 DEF Inv, Links, Extends, StoredTip, Stored
<1> QED BY <1>5, <1>6, <1>7 DEF Inv

\* The steps that end calls without a new row.
LEMMA EndInv ==
  ASSUME Inv, (\E c \in Calls : Remember(c) \/ Reject(c)) \/ Restart
  PROVE  Inv'
<1>1. rows' = rows /\ issued' = issued /\ Kept
  BY DEF Remember, Reject, Restart, Kept
<1>2. faults' \in [AllFaults -> 0 .. MaxFaults]
  BY FaultBounded DEF Remember, Reject, Restart, Inv, TypeOK
<1>3. call' \in [Calls -> [step : {"idle", "insert", "remember"}, row : Row \cup {None}]]
  BY DEF Remember, Reject, Restart, Inv, TypeOK, NoCall
<1>4. \A c \in Calls : call'[c] = call[c] \/ call'[c] = NoCall
  BY DEF Remember, Reject, Restart, Inv, TypeOK
<1>5. /\ tip' \in Tip /\ StoredTip(tip)'
      /\ boot' \in [step : {"start", "read", "done", "failed"}, tip : Tip]
      /\ StoredTip(boot.tip)'
  <2>1. CASE Restart
    BY <2>1 DEF Restart, Booting, NoTip, Tip, StoredTip
  <2>2. ASSUME NEW c \in Calls, Remember(c)
        PROVE  tip' \in Tip /\ StoredTip(tip)' /\ boot' = boot
    <3>1. call[c].row \in Row /\ StoredTip(TipOf(call[c].row))
      BY <2>2 DEF Remember, Inv, InFlight
    <3>2. tip' = TipOf(call[c].row) /\ boot' = boot
      BY <2>2 DEF Remember
    <3> QED BY <1>1, <3>1, <3>2 DEF TipOf, Tip, Row, StoredTip, Stored
  <2>3. ASSUME NEW c \in Calls, Reject(c)
        PROVE  tip' \in Tip /\ StoredTip(tip)' /\ boot' = boot
    BY <1>1, <2>3 DEF Reject, Inv, TypeOK, StoredTip, Stored
  <2> QED BY <1>1, <2>1, <2>2, <2>3 DEF Inv, TypeOK, StoredTip, Stored
<1>6. TypeOK'
  BY <1>1, <1>2, <1>3, <1>5 DEF Inv, TypeOK
<1>7. InFlight'
  BY <1>1, <1>4, InFlightStays DEF Inv
<1>8. Links'
  BY <1>1, LinksStay DEF Inv
<1> QED BY <1>5, <1>6, <1>7, <1>8 DEF Inv

\* The steps that write the row of a call.
LEMMA WriteInv ==
  ASSUME Inv, NEW c \in Calls, Insert(c) \/ AnswerLost(c)
  PROVE  Inv'
<1>1. call[c].row \in Row /\ Extends(call[c].row)
  BY DEF Insert, AnswerLost, Inv, InFlight
<1>2. rows' = rows \cup {call[c].row} /\ tip' = tip /\ boot' = boot /\ issued' = issued
  BY DEF Insert, AnswerLost
<1>3. \/ call' = [call EXCEPT ![c].step = "remember"]
      \/ call' = [call EXCEPT ![c] = NoCall]
  BY DEF Insert, AnswerLost
<1>4. faults' \in [AllFaults -> 0 .. MaxFaults]
  BY FaultBounded DEF Insert, AnswerLost, Inv, TypeOK
<1>5. Kept
  BY <1>2 DEF Kept
<1>6. TypeOK'
  BY <1>1, <1>2, <1>3, <1>4 DEF Inv, TypeOK, NoCall
<1>7. StoredTip(tip)' /\ StoredTip(boot.tip)'
  BY <1>2, <1>5, StoredTipStays DEF Inv, StoredTip, Stored
<1>8. Links'
  <2> SUFFICES ASSUME NEW f \in rows' PROVE Extends(f)'
    BY DEF Links
  <2>1. Extends(f)
    BY <1>1, <1>2 DEF Inv, Links
  <2> QED BY <1>5, <2>1, ExtendsStays DEF Extends, Stored
<1>9. InFlight'
  <2>1. CASE call' = [call EXCEPT ![c] = NoCall]
    <3>1. \A d \in Calls : call'[d] = call[d] \/ call'[d] = NoCall
      BY <2>1 DEF Inv, TypeOK
    <3> QED BY <1>5, <3>1, InFlightStays DEF Inv
  <2>2. CASE call' = [call EXCEPT ![c].step = "remember"]
    <3>1. \A d \in Calls \ {c} : call'[d] = call[d]
      BY <2>2 DEF Inv, TypeOK
    <3>2. call'[c].step = "remember" /\ call'[c].row = call[c].row
      BY <2>2 DEF Inv, TypeOK
    <3>3. call[c].row.seq > 0 /\ call[c].row \in rows'
      BY <1>1, <1>2 DEF Extends, Row
    <3>4. StoredTip(TipOf(call[c].row))'
      BY <3>2, <3>3 DEF StoredTip, Stored, TipOf
    <3>5. ASSUME NEW d \in Calls \ {c}, call[d].step = "insert"
          PROVE  call[d].row \in Row /\ Extends(call[d].row)'
      <4>1. call[d].row \in Row /\ Extends(call[d].row)
        BY <3>5 DEF Inv, InFlight
      <4> QED BY <1>5, <3>1, <4>1, ExtendsStays DEF Extends, Stored
    <3>6. ASSUME NEW d \in Calls \ {c}, call[d].step = "remember"
          PROVE  call[d].row \in Row /\ StoredTip(TipOf(call[d].row))'
      <4>1. call[d].row \in Row /\ StoredTip(TipOf(call[d].row))
        BY <3>6 DEF Inv, InFlight
      <4>2. call'[d] = call[d]
        BY <3>1
      <4> QED BY <1>5, <4>1, <4>2, StoredTipStays DEF StoredTip, Stored, TipOf
    <3> QED BY <1>1, <3>1, <3>2, <3>4, <3>5, <3>6 DEF InFlight
  <2> QED BY <1>3, <2>1, <2>2
<1> QED BY <1>6, <1>7, <1>8, <1>9 DEF Inv

LEMMA CorruptInv ==
  ASSUME Inv, NEW e \in rows, Corrupt(e)
  PROVE  Inv'
<1> DEFINE g == [e EXCEPT !.sound = FALSE]
<1>1. g \in Row /\ g.id = e.id /\ g.seq = e.seq /\ g.prev = e.prev
  BY DEF Inv, TypeOK, Row
<1>2. rows' = (rows \ {e}) \cup {g}
  BY DEF Corrupt
<1> HIDE DEF g
<1>3. tip' = tip /\ boot' = boot /\ call' = call /\ issued' = issued
  BY DEF Corrupt
<1>4. faults' \in [AllFaults -> 0 .. MaxFaults]
  BY FaultBounded DEF Corrupt, Inv
<1>5. Kept
  BY <1>1, <1>2 DEF Kept
<1>6. \A f \in rows' : \E d \in rows : f.seq = d.seq /\ f.prev = d.prev
  BY <1>1, <1>2
<1>7. TypeOK'
  BY <1>1, <1>2, <1>3, <1>4 DEF Inv, TypeOK
<1>8. StoredTip(tip)' /\ StoredTip(boot.tip)'
  BY <1>3, <1>5, StoredTipStays DEF Inv, StoredTip, Stored
<1>9. InFlight' /\ Links'
  BY <1>3, <1>5, <1>6, InFlightStays, LinksStay DEF Inv
<1> QED BY <1>7, <1>8, <1>9 DEF Inv

THEOREM InvHolds == Spec => []Inv
<1>1. Init => Inv
  BY InitInv
<1>2. Inv /\ [Next]_vars => Inv'
  <2> SUFFICES ASSUME Inv, [Next]_vars PROVE Inv'
    OBVIOUS
  <2>1. CASE RehydrateRead \/ RehydrateSet \/ RehydrateFail
    BY <2>1, RehydrateInv
  <2>2. CASE \E c \in Calls, keys \in Metadata : Record(c, keys)
    BY <2>2, RecordInv
  <2>3. CASE \E c \in Calls : Insert(c) \/ AnswerLost(c)
    BY <2>3, WriteInv
  <2>4. CASE (\E c \in Calls : Remember(c) \/ Reject(c)) \/ Restart
    BY <2>4, EndInv
  <2>5. CASE \E e \in rows : Corrupt(e)
    BY <2>5, CorruptInv
  <2>6. CASE UNCHANGED vars
    BY <2>6 DEF vars, Inv, TypeOK, StoredTip, InFlight, Links, Stored, Extends
  <2> QED BY <2>1, <2>2, <2>3, <2>4, <2>5, <2>6 DEF Next
<1> QED BY <1>1, <1>2, PTL DEF Spec

\* The types of the rows, the tips and the calls.
THEOREM TypeCorrect == Spec => []TypeOK
  BY InvHolds, PTL DEF Inv

\* Whatever overlaps, restarts, gets lost or is rehydrated late: every row is
\* the first or links to a stored row numbered one less.
THEOREM LinksHold == Spec => []AllLinked
<1>1. Inv => AllLinked
  BY DEF Inv, TypeOK, Links, AllLinked, Extends, Stored, Linked, Row
<1> QED BY <1>1, InvHolds, PTL

\* The tip in memory is the hash and the number of one stored row, or nothing.
THEOREM TipHolds == Spec => []TipStored
<1>1. Inv => TipStored
  BY DEF Inv, TypeOK, TipStored, StoredTip, Stored, Tip, TipOf
<1> QED BY <1>1, InvHolds, PTL

-----------------------------------------------------------------------------
(* One call at a time, restarts between any two steps.  Then the rows are  *)
(* numbered 1, 2, 3, ..., because whoever writes next holds the newest     *)
(* row's number: from the call before, or from a rehydration in time.      *)

UpTo(n) == \A e \in rows : e.seq <= n

NobodyAtWork == \A c \in Calls : call[c] = NoCall

Restarting == /\ boot.step \in {"start", "read"}
              /\ tip = NoTip
              /\ NobodyAtWork
              /\ boot.step = "read" => UpTo(boot.tip.seq)

Waiting == boot.step = "done" /\ NobodyAtWork /\ UpTo(tip.seq)

AtWork(c) ==
    /\ boot.step = "done"
    /\ \A d \in Calls \ {c} : call[d] = NoCall
    /\ \/ /\ call[c].step = "insert"
          /\ UpTo(tip.seq)
          /\ call[c].row.seq = tip.seq + 1
          /\ call[c].row.seq <= issued
          /\ call[c].row.id <= issued
       \/ /\ call[c].step = "remember"
          /\ UpTo(call[c].row.seq)

\* One row of every number up to a highest.
Distinct(R) == \A e, f \in R : e.seq = f.seq => e = f

Gapless(R) == \A e \in R : \A i \in 1 .. e.seq : \E f \in R : f.seq = i

Highest(R, n) == (\A e \in R : e.seq <= n) /\ (n = 0 \/ \E e \in R : e.seq = n)

Numbered == /\ \A e \in rows : e.seq <= issued
            /\ Distinct(rows)
            /\ Gapless(rows)
            /\ \E n \in Nat : Highest(rows, n)

Calm == /\ issued <= MaxEvents
        /\ Numbered
        /\ Restarting \/ Waiting \/ \E c \in Calls : AtWork(c)

CalmInv == Undisturbed => Calm

LEMMA InitCalm == Init => CalmInv
  BY LicenseAuditAssumption
     DEF Init, CalmInv, Calm, Numbered, Distinct, Gapless, Highest, Restarting, NobodyAtWork, Booting

\* A fault is remembered.
LEMMA FaultDisturbs ==
  ASSUME TypeOK, NEW k \in AllFaults \ {"restart", "corrupt"}, Fault(k)
  PROVE  ~Undisturbed'
  BY LicenseAuditAssumption DEF TypeOK, Fault, Undisturbed

LEMMA RehydrateCalm ==
  ASSUME Inv, CalmInv, RehydrateRead \/ RehydrateSet, Undisturbed'
  PROVE  Calm'
<1>1. Calm /\ Restarting
  BY DEF RehydrateRead, RehydrateSet, CalmInv, Undisturbed, Calm, Waiting, AtWork
<1>2. /\ rows' = rows /\ call' = call /\ issued' = issued
      /\ boot.step = "read" => UpTo(boot.tip.seq)
  BY <1>1 DEF RehydrateRead, RehydrateSet, Restarting
<1>3. CASE RehydrateRead
  <2>1. PICK t \in IF rows = {} THEN {NoTip} ELSE {TipOf(e) : e \in Newest} :
                boot' = [step |-> "read", tip |-> t]
    BY <1>3 DEF RehydrateRead
  <2>2. UpTo(t.seq)
    BY <2>1 DEF UpTo, Newest, TipOf
  <2>3. Restarting'
    BY <1>1, <1>2, <1>3, <2>1, <2>2 DEF RehydrateRead, Restarting, NobodyAtWork, UpTo
  <2> QED BY <1>1, <1>2, <2>3 DEF Calm, Numbered
<1>4. CASE RehydrateSet
  <2>1. boot'.step = "done" /\ tip'.seq = boot.tip.seq
    BY <1>1, <1>4 DEF RehydrateSet, Restarting, NoTip
  <2>2. Waiting'
    BY <1>1, <1>2, <1>4, <2>1 DEF RehydrateSet, Waiting, Restarting, NobodyAtWork, UpTo
  <2> QED BY <1>1, <1>2, <2>2 DEF Calm, Numbered
<1> QED BY <1>3, <1>4

LEMMA RecordCalm ==
  ASSUME Inv, CalmInv, NEW c \in Calls, NEW keys, Record(c, keys), Undisturbed'
  PROVE  Calm'
<1>1. ~Fault("overlap") /\ ~Fault("late rehydration")
  BY FaultDisturbs DEF Inv, AllFaults
<1>2. boot.step \in {"done", "failed"} /\ Alone /\ faults' = faults
  BY <1>1 DEF Record
<1>3. Calm
  BY <1>2 DEF CalmInv, Undisturbed
<1> DEFINE r == [id |-> issued + 1, seq |-> tip.seq + 1, prev |-> tip.hash, sound |-> Stable(keys)]
<1>4. /\ rows' = rows /\ tip' = tip /\ boot' = boot /\ issued' = issued + 1 /\ issued < MaxEvents
      /\ call' = [call EXCEPT ![c] = [step |-> "insert", row |-> r]]
  BY DEF Record
<1>5. NobodyAtWork
  BY <1>2 DEF Alone, NobodyAtWork
<1>6. Waiting
  BY <1>2, <1>3, <1>5 DEF Calm, Restarting, AtWork, NobodyAtWork, NoCall
<1>7. issued \in Nat /\ tip.seq \in Nat /\ tip.seq <= issued
  BY <1>3 DEF Inv, TypeOK, StoredTip, Stored, NoTip, Tip, Calm, Numbered
<1>8. r.seq = tip.seq + 1 /\ r.seq <= issued + 1 /\ r.id <= issued + 1
  BY <1>7
<1> HIDE DEF r
<1>9. /\ call'[c].step = "insert" /\ call'[c].row = r
      /\ \A d \in Calls \ {c} : call'[d] = call[d]
  BY <1>4 DEF Inv, TypeOK
<1>10. AtWork(c)'
  BY <1>4, <1>5, <1>6, <1>8, <1>9 DEF AtWork, NobodyAtWork, Waiting, UpTo
<1>11. Numbered' /\ issued' <= MaxEvents'
  BY <1>3, <1>4, <1>7, LicenseAuditAssumption DEF Calm, Numbered, Inv, TypeOK, Row
<1> QED BY <1>10, <1>11 DEF Calm

\* The call that takes a step is the one at work.
LEMMA TheOneAtWork ==
  ASSUME Calm, NEW c \in Calls, call[c].step # "idle"
  PROVE  AtWork(c)
  BY DEF Calm, Restarting, Waiting, NobodyAtWork, AtWork, NoCall

\* A row numbered one more than the highest keeps the numbering.
LEMMA NextNumber ==
  ASSUME Inv, Calm, NEW r \in Row, r.seq = tip.seq + 1, UpTo(tip.seq)
  PROVE  /\ Distinct(rows \cup {r})
         /\ Gapless(rows \cup {r})
         /\ Highest(rows \cup {r}, tip.seq + 1)
         /\ r \notin rows
<1>1. tip.seq \in Nat /\ Distinct(rows) /\ Gapless(rows) /\ \A e \in rows : e.seq \in Nat
  BY DEF Inv, TypeOK, Tip, Row, Calm, Numbered
<1>2. Distinct(rows \cup {r}) /\ r \notin rows
  BY <1>1 DEF Distinct, UpTo
<1>3. ASSUME NEW i \in 1 .. tip.seq PROVE \E f \in rows : f.seq = i
  <2>1. \E e \in rows : e.seq = tip.seq
    BY <1>1 DEF Inv, StoredTip, Stored, NoTip
  <2> QED BY <1>1, <2>1 DEF Gapless
<1>4. Gapless(rows \cup {r})
  <2> SUFFICES ASSUME NEW e \in rows \cup {r}, NEW i \in 1 .. e.seq
               PROVE  \E f \in rows \cup {r} : f.seq = i
    BY DEF Gapless
  <2>1. i \in 1 .. tip.seq \/ i = r.seq
    BY <1>1 DEF UpTo
  <2> QED BY <1>3, <2>1
<1>5. Highest(rows \cup {r}, tip.seq + 1)
  BY <1>1 DEF Highest, UpTo
<1> QED BY <1>2, <1>4, <1>5

LEMMA InsertCalm ==
  ASSUME Inv, CalmInv, NEW c \in Calls, Insert(c), Undisturbed'
  PROVE  Calm'
<1>1. Calm
  BY DEF Insert, CalmInv, Undisturbed
<1>2. AtWork(c) /\ call[c].step = "insert"
  BY <1>1, TheOneAtWork DEF Insert
<1> DEFINE r == call[c].row
<1>3. r \in Row /\ r.seq = tip.seq + 1 /\ r.seq <= issued /\ UpTo(tip.seq)
  BY <1>2 DEF AtWork, Inv, InFlight
<1>4. /\ rows' = rows \cup {r} /\ boot' = boot /\ issued' = issued
      /\ call'[c].step = "remember" /\ call'[c].row = r
      /\ \A d \in Calls \ {c} : call'[d] = call[d]
  BY DEF Insert, Inv, TypeOK
<1>5. tip.seq \in Nat /\ issued \in Nat /\ \A e \in rows : e.seq \in Nat
  BY DEF Inv, TypeOK, Tip, Row
<1> HIDE DEF r
<1>6. AtWork(c)'
  BY <1>2, <1>3, <1>4, <1>5 DEF AtWork, UpTo
<1>7. /\ Distinct(rows') /\ Gapless(rows') /\ Highest(rows', tip.seq + 1)
      /\ tip.seq + 1 \in Nat
  BY <1>1, <1>3, <1>4, <1>5, NextNumber
<1>8. Numbered'
  BY <1>1, <1>3, <1>4, <1>5, <1>7 DEF Calm, Numbered
<1> QED BY <1>1, <1>4, <1>6, <1>8 DEF Calm

LEMMA EndCalm ==
  ASSUME Inv, CalmInv, NEW c \in Calls, Remember(c) \/ Reject(c), Undisturbed'
  PROVE  Calm'
<1>1. Calm
  BY DEF Remember, Reject, CalmInv, Undisturbed
<1>2. AtWork(c)
  BY <1>1, TheOneAtWork DEF Remember, Reject
<1>3. rows' = rows /\ boot' = boot /\ issued' = issued /\ call' = [call EXCEPT ![c] = NoCall]
  BY DEF Remember, Reject
<1>4. NobodyAtWork'
  BY <1>2, <1>3 DEF AtWork, NobodyAtWork, Inv, TypeOK
<1>5. UpTo(tip.seq)'
  BY <1>2, <1>3 DEF AtWork, Remember, Reject, TipOf, UpTo
<1>6. Waiting'
  BY <1>2, <1>3, <1>4, <1>5 DEF Waiting, AtWork
<1> QED BY <1>1, <1>3, <1>6 DEF Calm, Numbered

LEMMA RestartCalm ==
  ASSUME Inv, CalmInv, Restart, Undisturbed'
  PROVE  Calm'
<1>1. Calm
  BY DEF Restart, Fault, CalmInv, Undisturbed, Inv, TypeOK, AllFaults
<1>2. Restarting'
  BY DEF Restart, Restarting, Booting, NobodyAtWork
<1> QED BY <1>1, <1>2 DEF Restart, Calm, Numbered

\* A modified row keeps what links it.
LEMMA CorruptKeeps ==
  ASSUME Inv, NEW e \in rows, Corrupt(e)
  PROVE  \E g \in Row : /\ g.id = e.id /\ g.seq = e.seq /\ g.prev = e.prev
                        /\ rows' = (rows \ {e}) \cup {g}
<1> DEFINE g == [e EXCEPT !.sound = FALSE]
<1>1. g \in Row /\ g.id = e.id /\ g.seq = e.seq /\ g.prev = e.prev
  BY DEF Inv, TypeOK, Row
<1>2. rows' = (rows \ {e}) \cup {g}
  BY DEF Corrupt
<1> HIDE DEF g
<1> QED BY <1>1, <1>2

LEMMA CorruptCalm ==
  ASSUME Inv, CalmInv, NEW e \in rows, Corrupt(e), Undisturbed'
  PROVE  Calm'
<1>1. Calm
  BY DEF Corrupt, Fault, CalmInv, Undisturbed, Inv, TypeOK, AllFaults
<1>2. PICK g \in Row : /\ g.id = e.id /\ g.seq = e.seq /\ g.prev = e.prev
                       /\ rows' = (rows \ {e}) \cup {g}
  BY CorruptKeeps
<1>3. tip' = tip /\ boot' = boot /\ call' = call /\ issued' = issued
  BY DEF Corrupt
<1>4. \A n : UpTo(n) => \A f \in rows' : f.seq <= n
  BY <1>2 DEF UpTo
<1>5. \A f \in rows' : f.seq <= issued
  BY <1>1, <1>2 DEF Calm, Numbered
<1>6. Distinct(rows')
  BY <1>1, <1>2 DEF Calm, Numbered, Distinct
<1>7. Gapless(rows')
  <2> SUFFICES ASSUME NEW f \in rows', NEW i \in 1 .. f.seq PROVE \E h \in rows' : h.seq = i
    BY DEF Gapless
  <2>1. \E d \in rows : d.seq = f.seq
    BY <1>2
  <2>2. \E d \in rows : d.seq = i
    BY <1>1, <2>1 DEF Calm, Numbered, Gapless
  <2> QED BY <1>2, <2>2
<1>8. \E n \in Nat : Highest(rows', n)
  <2>1. PICK n \in Nat : Highest(rows, n)
    BY <1>1 DEF Calm, Numbered
  <2>2. Highest(rows', n)
    BY <1>2, <2>1 DEF Highest
  <2> QED BY <2>2
<1>9. (Restarting => Restarting') /\ (Waiting => Waiting')
  BY <1>3, <1>4 DEF Restarting, Waiting, NobodyAtWork, UpTo
<1>10. \A c \in Calls : AtWork(c) => AtWork(c)'
  BY <1>3, <1>4 DEF AtWork, UpTo
<1> QED BY <1>1, <1>3, <1>5, <1>6, <1>7, <1>8, <1>9, <1>10 DEF Calm, Numbered

THEOREM CalmHolds == Spec => []CalmInv
<1>1. Inv /\ CalmInv /\ [Next]_vars => CalmInv'
  <2> SUFFICES ASSUME Inv, CalmInv, [Next]_vars, Undisturbed' PROVE Calm'
    BY DEF CalmInv
  <2>1. CASE RehydrateRead \/ RehydrateSet
    BY <2>1, RehydrateCalm
  <2>2. CASE \E c \in Calls, keys \in Metadata : Record(c, keys)
    BY <2>2, RecordCalm
  <2>3. CASE \E c \in Calls : Insert(c)
    BY <2>3, InsertCalm
  <2>4. CASE \E c \in Calls : Remember(c) \/ Reject(c)
    BY <2>4, EndCalm
  <2>5. CASE RehydrateFail \/ \E c \in Calls : AnswerLost(c)
    BY <2>5, FaultDisturbs DEF RehydrateFail, AnswerLost, Inv, AllFaults
  <2>6. CASE Restart
    BY <2>6, RestartCalm
  <2>7. CASE \E e \in rows : Corrupt(e)
    BY <2>7, CorruptCalm
  <2>8. CASE UNCHANGED vars
    BY <2>8 DEF vars, CalmInv, Undisturbed, Calm, Numbered, Restarting, Waiting, NobodyAtWork, AtWork, UpTo
  <2> QED BY <2>1, <2>2, <2>3, <2>4, <2>5, <2>6, <2>7, <2>8 DEF Next
<1> QED BY <1>1, InitCalm, InvHolds, PTL DEF Spec

-----------------------------------------------------------------------------
(* What verifyHashChain answers.                                           *)

\* As many rows as there are numbers.
LEMMA CountedByNumber ==
  ASSUME NEW S, NEW n \in Nat, Distinct(S),
         \A f \in S : f.seq \in 1 .. n,
         \A i \in 1 .. n : \E f \in S : f.seq = i
  PROVE  IsFiniteSet(S) /\ Cardinality(S) = n
<1> DEFINE s == [f \in S |-> f.seq]
<1>1. s \in [S -> 1 .. n]
  OBVIOUS
<1>2. s \in Injection(S, 1 .. n)
  BY <1>1 DEF Injection, IsInjective, Distinct
<1>3. s \in Surjection(S, 1 .. n)
  BY <1>1 DEF Surjection
<1>4. IsFiniteSet(1 .. n) /\ Cardinality(1 .. n) = n
  <2>1. 1 \in Int /\ n \in Int
    OBVIOUS
  <2>2. IsFiniteSet(1 .. n) /\ Cardinality(1 .. n) = IF 1 > n THEN 0 ELSE n - 1 + 1
    BY <2>1, FS_Interval
  <2> QED BY <2>2
<1> HIDE DEF s
<1> QED BY <1>2, <1>3, <1>4, FS_Injection

LEMMA RowTypes ==
  ASSUME Inv, Calm
  PROVE  /\ Distinct(rows) /\ Gapless(rows)
         /\ \A e \in rows : e.seq \in Nat \ {0} /\ e.id \in Nat \ {0} /\ Extends(e)
  BY DEF Inv, TypeOK, Links, Extends, Row, Calm, Numbered

\* In front of a row are the rows with the lower numbers.
LEMMA BeforeCounted ==
  ASSUME Inv, Calm, NEW e \in rows
  PROVE  /\ Cardinality(Before(rows, e)) = e.seq - 1
         /\ Cardinality(Before(rows, e)) + 1 = e.seq
<1> DEFINE B == Before(rows, e)
<1>1. e.seq - 1 \in Nat /\ e.seq \in Nat
  BY RowTypes
<1>2. Distinct(B)
  BY RowTypes DEF Before, Distinct
<1>3. \A f \in B : f.seq \in 1 .. e.seq - 1
  BY RowTypes DEF Before
<1>4. \A i \in 1 .. e.seq - 1 : \E f \in B : f.seq = i
  BY <1>1, RowTypes DEF Before, Gapless
<1> HIDE DEF B
<1>5. Cardinality(B) = e.seq - 1
  BY <1>1, <1>2, <1>3, <1>4, CountedByNumber
<1> QED BY <1>1, <1>5 DEF B

\* While calls come one at a time, every row follows the one in front of it.
LEMMA RowsFollow ==
  ASSUME Inv, Calm, NEW e \in rows
  PROVE  FollowsPredecessor(rows, e)
<1>1. CASE e.seq = 1
  <2>1. e.prev = 0 /\ Before(rows, e) = {}
    BY <1>1, RowTypes DEF Extends, Before
  <2> QED BY <2>1 DEF FollowsPredecessor
<1>2. CASE e.seq > 1
  <2>1. PICK f \in rows : f.id = e.prev /\ f.seq = e.seq - 1
    BY <1>2, RowTypes DEF Extends, Stored
  <2>2. f \in Before(rows, e) /\ \A g \in Before(rows, e) : g.seq <= f.seq
    BY <2>1, RowTypes DEF Before
  <2> QED BY <2>1, <2>2 DEF FollowsPredecessor
<1> QED BY <1>1, <1>2, RowTypes

LEMMA VerifiesTaken ==
  ASSUME Inv, Calm
  PROVE  VerifyHashChain <=> \A e \in Taken(rows, Limit) : e.sound
<1>1. Taken(rows, Limit) \subseteq rows
  BY DEF Taken
<1>2. \A e \in rows : FollowsPredecessor(rows, e) /\ Cardinality(Before(rows, e)) + 1 = e.seq
  BY RowsFollow, BeforeCounted
<1>3. \A e, f \in rows : f.seq = e.seq => f = e
  BY RowTypes DEF Distinct
<1> QED BY <1>1, <1>2, <1>3 DEF VerifyHashChain, Verifies

\* While calls come one at a time, rehydrations in time and answers arrive,
\* verifyHashChain calls the chain intact exactly when every row that it takes
\* matches its hash: no link or number of record() is ever wrong.
THEOREM VerifiesWhatItTakes ==
  Spec => [](Undisturbed => (VerifyHashChain <=> \A e \in Taken(rows, Limit) : e.sound))
<1>1. Inv /\ CalmInv => (Undisturbed => (VerifyHashChain <=> \A e \in Taken(rows, Limit) : e.sound))
  BY VerifiesTaken DEF CalmInv
<1> QED BY <1>1, InvHolds, CalmHolds, PTL

\* For no more events than verifyHashChain takes, under the same conditions: the
\* chain is found broken exactly when a row of it does not match its hash,
\* through restarts between any two steps.
THEOREM BrokenFound ==
  ASSUME MaxEvents <= Limit
  PROVE  Spec => []BrokenIffUnsound
<1>1. Inv /\ CalmInv => BrokenIffUnsound
  <2> SUFFICES ASSUME Inv, Calm PROVE VerifyHashChain <=> \A e \in rows : e.sound
    BY DEF CalmInv, BrokenIffUnsound
  <2>1. ASSUME NEW e \in rows PROVE e \in Taken(rows, Limit)
    <3>1. Cardinality(Before(rows, e)) = e.seq - 1
      BY BeforeCounted
    <3>2. e.seq <= MaxEvents /\ e.seq \in Nat
      BY LicenseAuditAssumption DEF Calm, Numbered, Inv, TypeOK, Row
    <3> QED BY <3>1, <3>2, LicenseAuditAssumption DEF Taken
  <2>2. Taken(rows, Limit) = rows
    BY <2>1 DEF Taken
  <2> QED BY <2>2, VerifiesTaken
<1> QED BY <1>1, InvHolds, CalmHolds, PTL

-----------------------------------------------------------------------------
(* The table as the append-only log: entry i is the row with number i.     *)

Entry == [hash : Nat, prev : Nat]

EntryOf(e) == [hash |-> e.id, prev |-> e.prev]

\* A set of rows numbered 1 to n.
NumberedTo(R, n) ==
    /\ R \subseteq Row
    /\ Distinct(R)
    /\ \A e \in R : e.seq \in 1 .. n
    /\ \A i \in 1 .. n : \E e \in R : e.seq = i

\* Log, as an operator of the rows.
Place(R, e) == Cardinality({f \in R : f.seq < e.seq \/ (f.seq = e.seq /\ f.id <= e.id)})

LogOf(R) == [i \in 1 .. Cardinality(R) |->
               LET e == CHOOSE f \in R : Place(R, f) = i
               IN  [hash |-> e.id, prev |-> e.prev]]

LEMMA LogIsLogOf == Log = LogOf(rows) /\ Log' = LogOf(rows')
  BY DEF Log, LogOf, Position, Place

LEMMA PlaceIsNumber ==
  ASSUME NEW n \in Nat, NEW R, NumberedTo(R, n), NEW e \in R
  PROVE  Place(R, e) = e.seq
<1> DEFINE P == {f \in R : f.seq < e.seq \/ (f.seq = e.seq /\ f.id <= e.id)}
<1>1. e.seq \in 1 .. n /\ e.id \in Nat /\ \A f \in R : f.seq \in 1 .. n
  BY DEF NumberedTo, Row
<1>2. \A f \in R : f \in P <=> f.seq <= e.seq
  BY <1>1 DEF NumberedTo, Distinct
<1>3. Distinct(P)
  BY DEF NumberedTo, Distinct
<1>4. P \subseteq R
  OBVIOUS
<1> HIDE DEF P
<1>5. \A f \in P : f.seq \in 1 .. e.seq
  BY <1>1, <1>2, <1>4
<1>6. \A i \in 1 .. e.seq : \E f \in P : f.seq = i
  <2> SUFFICES ASSUME NEW i \in 1 .. e.seq PROVE \E f \in P : f.seq = i
    OBVIOUS
  <2>1. PICK f \in R : f.seq = i
    BY <1>1 DEF NumberedTo
  <2> QED BY <1>1, <1>2, <2>1
<1>7. e.seq \in Nat
  BY <1>1
<1>8. Cardinality(P) = e.seq
  BY <1>3, <1>5, <1>6, <1>7, CountedByNumber
<1> QED BY <1>8 DEF Place, P

LEMMA LogEntries ==
  ASSUME NEW n \in Nat, NEW R, NumberedTo(R, n)
  PROVE  /\ LogOf(R) \in Seq(Entry)
         /\ Len(LogOf(R)) = n
         /\ \A e \in R : LogOf(R)[e.seq] = EntryOf(e)
<1> DEFINE at(i) == CHOOSE f \in R : Place(R, f) = i
<1>1. Cardinality(R) = n
  BY CountedByNumber DEF NumberedTo
<1>2. ASSUME NEW e \in R PROVE at(e.seq) = e
  <2>1. \A f \in R : Place(R, f) = e.seq <=> f = e
    BY PlaceIsNumber DEF NumberedTo, Distinct
  <2> QED BY <2>1
<1>3. ASSUME NEW i \in 1 .. n PROVE at(i) \in R
  <2>1. PICK e \in R : e.seq = i
    BY DEF NumberedTo
  <2>2. at(i) = e
    BY <1>2, <2>1
  <2> QED BY <2>2
<1> HIDE DEF at
<1>4. LogOf(R) = [i \in 1 .. n |-> [hash |-> at(i).id, prev |-> at(i).prev]]
  BY <1>1 DEF LogOf, at
<1>5. LogOf(R) \in [1 .. n -> Entry]
  BY <1>3, <1>4 DEF Entry, NumberedTo, Row
<1>6. \A e \in R : LogOf(R)[e.seq] = EntryOf(e)
  BY <1>2, <1>4 DEF EntryOf, NumberedTo
<1> HIDE DEF LogOf
<1>7. LogOf(R) \in Seq(Entry) /\ Len(LogOf(R)) = n
  BY <1>5
<1> QED BY <1>6, <1>7

\* While calls come one at a time, the rows are numbered up to the highest.
LEMMA NumberedToHighest ==
  ASSUME Inv, Calm, NEW n \in Nat, Highest(rows, n)
  PROVE  NumberedTo(rows, n)
<1>1. rows \subseteq Row
  BY DEF Inv, TypeOK
<1>2. \A e \in rows : e.seq \in 1 .. n
  BY RowTypes DEF Highest
<1>3. \A i \in 1 .. n : \E e \in rows : e.seq = i
  BY RowTypes DEF Gapless, Highest
<1> QED BY <1>1, <1>2, <1>3, RowTypes DEF NumberedTo

LEMMA InsertGrows ==
  ASSUME Inv, Calm, NEW c \in Calls, Insert(c)
  PROVE  Table!Next
<1> DEFINE r == call[c].row
           n == tip.seq
           x == EntryOf(r)
<1>1. AtWork(c) /\ call[c].step = "insert"
  BY TheOneAtWork DEF Insert
<1>2. /\ r \in Row /\ r.seq = n + 1 /\ UpTo(n) /\ Extends(r)
      /\ r.id <= issued /\ issued <= MaxEvents /\ issued \in Nat /\ MaxEvents \in Nat
  BY <1>1, LicenseAuditAssumption DEF AtWork, Inv, InFlight, Calm, TypeOK
<1>3. r.id \in 1 .. MaxEvents
  BY <1>2 DEF Row
<1>4. rows' = rows \cup {r}
  BY DEF Insert
<1>5. n \in Nat /\ Highest(rows, n)
  BY <1>2 DEF Highest, UpTo, Inv, TypeOK, Tip, StoredTip, Stored, NoTip
<1> HIDE DEF r, n
<1>6. NumberedTo(rows, n)
  BY <1>5, NumberedToHighest
<1>7. Distinct(rows')
  BY <1>2, <1>4, NextNumber DEF n
<1>8. NumberedTo(rows', n + 1)
  BY <1>2, <1>4, <1>5, <1>6, <1>7 DEF NumberedTo
<1>9. x \in Entry
  BY <1>2 DEF EntryOf, Entry, Row
<1> DEFINE L == LogOf(rows)
           M == LogOf(rows')
<1>10. L \in Seq(Entry) /\ Len(L) = n /\ \A e \in rows : L[e.seq] = EntryOf(e)
  BY <1>5, <1>6, LogEntries
<1>11. M \in Seq(Entry) /\ Len(M) = n + 1 /\ \A e \in rows' : M[e.seq] = EntryOf(e)
  BY <1>5, <1>8, LogEntries
<1> HIDE DEF L, M, x
<1>12. ASSUME NEW i \in 1 .. n + 1 PROVE M[i] = Append(L, x)[i]
  <2>1. CASE i = n + 1
    BY <1>2, <1>4, <1>5, <1>9, <1>10, <1>11, <2>1 DEF x
  <2>2. CASE i \in 1 .. n
    <3>1. PICK e \in rows : e.seq = i
      BY <1>6, <2>2 DEF NumberedTo
    <3>2. L[i] = EntryOf(e) /\ M[i] = EntryOf(e)
      BY <1>4, <1>10, <1>11, <3>1
    <3>3. Append(L, x)[i] = L[i]
      BY <1>5, <1>9, <1>10, <2>2
    <3> QED BY <3>2, <3>3
  <2>3. i = n + 1 \/ i \in 1 .. n
    BY <1>5
  <2> QED BY <2>1, <2>2, <2>3
<1>13. Append(L, x) \in Seq(Entry) /\ Len(Append(L, x)) = n + 1
  BY <1>5, <1>9, <1>10
<1>14. M = Append(L, x)
  BY <1>11, <1>12, <1>13, SeqEqual
<1>15. r.prev = IF L = <<>> THEN 0 ELSE L[Len(L)].hash
  <2>1. CASE n = 0
    <3>1. L = <<>>
      BY <1>10, <2>1, EmptySeq
    <3> QED BY <1>2, <2>1, <3>1 DEF Extends
  <2>2. CASE n # 0
    <3>1. L # <<>>
      BY <1>10, <2>2, EmptySeq
    <3>2. PICK f \in rows : f.id = r.prev /\ f.seq = n
      BY <1>2, <1>5, <2>2 DEF Extends, Stored
    <3>3. L[f.seq] = EntryOf(f)
      BY <1>10
    <3>4. L[n].hash = r.prev
      BY <3>2, <3>3 DEF EntryOf
    <3>5. L[Len(L)].hash = r.prev
      BY <1>10, <3>4
    <3> QED BY <3>1, <3>5, Zenon
  <2> QED BY <2>1, <2>2
<1>16. M = Append(L, [hash |-> r.id, prev |-> IF L = <<>> THEN 0 ELSE L[Len(L)].hash])
  BY <1>14, <1>15 DEF x, EntryOf
<1>17. Log = L /\ Log' = M
  BY LogIsLogOf DEF L, M
<1>18. Table!Write(r.id)
  BY <1>16, <1>17 DEF Table!Write, Table!Previous
<1> QED BY <1>3, <1>18 DEF Table!Next

\* The log does not show whether a row matches its hash.
LEMMA CorruptHidden ==
  ASSUME Inv, Calm, NEW n \in Nat, NumberedTo(rows, n), NEW e \in rows, Corrupt(e)
  PROVE  UNCHANGED Log
<1>1. PICK g \in Row : /\ g.id = e.id /\ g.seq = e.seq /\ g.prev = e.prev
                       /\ rows' = (rows \ {e}) \cup {g}
  BY CorruptKeeps
<1>2. NumberedTo(rows', n)
  BY <1>1 DEF NumberedTo, Distinct
<1> DEFINE L == LogOf(rows)
           M == LogOf(rows')
<1>3. L \in Seq(Entry) /\ Len(L) = n /\ \A f \in rows : L[f.seq] = EntryOf(f)
  BY LogEntries
<1>4. M \in Seq(Entry) /\ Len(M) = n /\ \A f \in rows' : M[f.seq] = EntryOf(f)
  BY <1>2, LogEntries
<1> HIDE DEF L, M
<1>5. ASSUME NEW i \in 1 .. n PROVE M[i] = L[i]
  <2>1. PICK f \in rows : f.seq = i
    BY DEF NumberedTo
  <2>2. \E h \in rows' : h.seq = i /\ EntryOf(h) = EntryOf(f)
    BY <1>1, <2>1 DEF EntryOf
  <2> QED BY <1>3, <1>4, <2>1, <2>2
<1>6. M = L
  BY <1>3, <1>4, <1>5, SeqEqual
<1> QED BY <1>6, LogIsLogOf DEF L, M

LEMMA InitLog == Init => Table!Init
<1> SUFFICES ASSUME Init PROVE Table!Init
  OBVIOUS
<1>1. rows = {} /\ NumberedTo({}, 0)
  BY DEF Init, NumberedTo, Distinct
<1>2. LogOf({}) \in Seq(Entry) /\ Len(LogOf({})) = 0
  BY <1>1, LogEntries
<1>3. LogOf({}) = <<>>
  BY <1>2, EmptySeq
<1> QED BY <1>1, <1>3, LogIsLogOf DEF Table!Init

\* While calls come one at a time, rehydrations in time and answers arrive, the
\* table implements the append-only log, through restarts between any two steps
\* and whatever rows are modified: every step is a write at the end of the log,
\* by an entry that points at the entry before it, or leaves the log alone.
THEOREM TableIsLog == Spec => GrowsAtEnd
<1>1. Init => (Undisturbed => Table!Init)
  BY InitLog
<1>2. Inv /\ CalmInv /\ [Next]_vars => [Undisturbed' => (Table!Next \/ UNCHANGED Log)]_vars
  <2> SUFFICES ASSUME Inv, CalmInv, Next, Undisturbed' PROVE Table!Next \/ UNCHANGED Log
    OBVIOUS
  <2>1. ASSUME rows' = rows PROVE UNCHANGED Log
    BY <2>1, LogIsLogOf
  <2>2. ASSUME NEW c \in Calls, Insert(c) PROVE Table!Next
    <3>1. Calm
      BY <2>2 DEF Insert, CalmInv, Undisturbed
    <3> QED BY <2>2, <3>1, InsertGrows
  <2>3. ASSUME NEW c \in Calls, AnswerLost(c) PROVE FALSE
    BY <2>3, FaultDisturbs DEF AnswerLost, Inv, AllFaults
  <2>4. ASSUME NEW e \in rows, Corrupt(e) PROVE UNCHANGED Log
    <3>1. Calm
      BY <2>4 DEF Corrupt, Fault, CalmInv, Undisturbed, Inv, TypeOK, AllFaults
    <3>2. PICK n \in Nat : Highest(rows, n)
      BY <3>1 DEF Calm, Numbered
    <3>3. NumberedTo(rows, n)
      BY <3>1, <3>2, NumberedToHighest
    <3> QED BY <2>4, <3>1, <3>3, CorruptHidden
  <2>5. CASE RehydrateRead \/ RehydrateSet \/ RehydrateFail \/ Restart
    BY <2>1, <2>5 DEF RehydrateRead, RehydrateSet, RehydrateFail, Restart
  <2>6. CASE \E c \in Calls, keys \in Metadata : Record(c, keys)
    BY <2>1, <2>6 DEF Record
  <2>7. CASE \E c \in Calls : Remember(c) \/ Reject(c)
    BY <2>1, <2>7 DEF Remember, Reject
  <2> QED BY <2>2, <2>3, <2>4, <2>5, <2>6, <2>7 DEF Next
<1> QED BY <1>1, <1>2, InvHolds, CalmHolds, PTL DEF Spec, GrowsAtEnd

-----------------------------------------------------------------------------
(* WebhookDelivery: shapes of jobs.                                        *)

JobState == {"none", "waiting", "active", "completed", "failed"}
JobStep  == {"post"} \cup Trying \cup Catching

JobRow == [state : JobState, step : JobStep,
           response : {"none", "ok", "refused", "busy"},
           made : Nat, stalled : BOOLEAN, seen : Nat]

\* Types without the bounds.
DeliveryShape ==
    /\ row \in [status : {"none", "pending", "delivered", "dead_lettered"},
                attempts : Nat]
    /\ webhook \in BOOLEAN
    /\ emit \in {"idle", "queue", "done"}
    /\ job \in [Jobs -> JobRow]
    /\ posts \in Nat
    /\ failures \in 0 .. MaxFailures

\* What a job has left: a job that is not at work is at its first statement,
\* and one that may still run has attempts left.
JobsInOrder ==
    \A j \in Jobs :
        /\ job[j].made <= MaxAttempts
        /\ job[j].state # "failed" => job[j].made < MaxAttempts
        /\ job[j].state # "active" => job[j].step = "post" /\ job[j].seen = 0
        /\ job[j].state = "none" => job[j] = NoJob

\* Before emit nothing is there; with the webhook gone its row is gone too.
BeforeEmit ==
    /\ emit = "idle" => Gone /\ posts = 0 /\ \A j \in Jobs : job[j] = NoJob
    /\ emit = "queue" => job[First] = NoJob
    /\ ~ Gone => webhook

DeliveryBase == DeliveryShape /\ JobsInOrder /\ BeforeEmit

Work(j) == Deliver(j) \/ StatementFails(j) \/ WorkerStops(j)

LEMMA RetryEffect ==
  ASSUME DeliveryBase, NEW j \in Jobs, job[j].state = "active", Retry(j)
  PROVE  \E state \in {"waiting", "failed"} :
           /\ job' = [job EXCEPT ![j] = [NoJob EXCEPT !.state = state,
                         !.made = job[j].made + 1, !.stalled = job[j].stalled]]
           /\ job[j].made + 1 <= MaxAttempts
           /\ state = "waiting" => job[j].made + 1 < MaxAttempts
<1>1. job[j].made \in Nat /\ job[j].made < MaxAttempts
  BY DEF DeliveryBase, DeliveryShape, JobRow, JobsInOrder
<1>2. CASE job[j].made + 1 < MaxAttempts
  <2> "waiting" \in {"waiting", "failed"}
    OBVIOUS
  <2> WITNESS "waiting" \in {"waiting", "failed"}
  <2> QED BY <1>1, <1>2, WebhookAssumption DEF Retry, Leave
<1>3. CASE ~(job[j].made + 1 < MaxAttempts)
  <2> "failed" \in {"waiting", "failed"}
    OBVIOUS
  <2> WITNESS "failed" \in {"waiting", "failed"}
  <2> QED BY <1>1, <1>3, WebhookAssumption DEF Retry, Leave
<1> QED BY <1>2, <1>3

\* What a statement that throws leads to.
LEMMA ThrowEffect ==
  ASSUME DeliveryBase, NEW j \in Jobs, Throw(j)
  PROVE  /\ job[j].state = "active"
         /\ UNCHANGED <<row, webhook, emit, posts>>
         /\ \/ job[j].step \in Trying /\ To(j, "catchRead")
            \/ job[j].step \in Catching /\ Retry(j)
  BY DEF Throw

\* A step of a job changes no other job, and no job is forgotten.
JobStepOK(j) ==
    \E n \in JobRow :
        /\ job' = [job EXCEPT ![j] = n]
        /\ n.state \in {"waiting", "active", "completed", "failed"}
        /\ n.made <= MaxAttempts
        /\ n.state # "failed" => n.made < MaxAttempts
        /\ n.state # "active" => n.step = "post" /\ n.seen = 0

LEMMA ToOK ==
  ASSUME DeliveryBase, NEW j \in Jobs, NEW step \in JobStep, To(j, step),
         job[j].state = "active"
  PROVE  JobStepOK(j)
<1> DEFINE n == [job[j] EXCEPT !.step = step, !.seen = 0]
<1>1. job[j] \in JobRow
  BY DEF DeliveryBase, DeliveryShape
<1>2. PICK q \in JobRow : job[j] = q
  BY <1>1
<1>3. n \in JobRow /\ n.state = "active" /\ n.made = job[j].made
  BY <1>2 DEF JobRow
<1>4. n.made <= MaxAttempts /\ n.made < MaxAttempts
  BY <1>3 DEF DeliveryBase, JobsInOrder
<1>5. job' = [job EXCEPT ![j] = n]
  BY DEF To
<1> HIDE DEF n
<1> QED BY <1>3, <1>4, <1>5 DEF JobStepOK

LEMMA LeaveOK ==
  ASSUME DeliveryBase, NEW j \in Jobs, NEW made \in Nat, NEW stalled \in BOOLEAN,
         NEW state \in {"waiting", "completed", "failed"},
         job' = [job EXCEPT ![j] = [NoJob EXCEPT !.state = state, !.made = made,
                                                 !.stalled = stalled]],
         made <= MaxAttempts, state # "failed" => made < MaxAttempts
  PROVE  JobStepOK(j)
<1> DEFINE n == [NoJob EXCEPT !.state = state, !.made = made, !.stalled = stalled]
<1>1. n \in JobRow /\ n.state = state /\ n.made = made /\ n.step = "post" /\ n.seen = 0
  BY DEF JobRow, NoJob, JobStep, JobState
<1>2. job' = [job EXCEPT ![j] = n]
  OBVIOUS
<1> HIDE DEF n
<1> QED BY <1>1, <1>2 DEF JobStepOK

LEMMA RetryOK ==
  ASSUME DeliveryBase, NEW j \in Jobs, job[j].state = "active", Retry(j)
  PROVE  JobStepOK(j)
<1>1. PICK state \in {"waiting", "failed"} :
           /\ job' = [job EXCEPT ![j] = [NoJob EXCEPT !.state = state,
                         !.made = job[j].made + 1, !.stalled = job[j].stalled]]
           /\ job[j].made + 1 <= MaxAttempts
           /\ state = "waiting" => job[j].made + 1 < MaxAttempts
  BY RetryEffect
<1>2. job[j].made + 1 \in Nat /\ job[j].stalled \in BOOLEAN
  BY DEF DeliveryBase, DeliveryShape, JobRow
<1> QED BY <1>1, <1>2, LeaveOK

LEMMA ThrowOK ==
  ASSUME DeliveryBase, NEW j \in Jobs, Throw(j)
  PROVE  JobStepOK(j)
<1>1. "catchRead" \in JobStep
  BY DEF JobStep, Catching
<1> QED BY <1>1, ThrowEffect, ToOK, RetryOK

\* Every step of a job keeps the jobs in order, and leaves emit and the webhook.
LEMMA WorkOK ==
  ASSUME DeliveryBase, NEW j \in Jobs, Work(j)
  PROVE  /\ JobStepOK(j)
         /\ job[j].state \in {"waiting", "active"}
         /\ UNCHANGED <<webhook, emit>>
<1>0. /\ job[j] \in JobRow
      /\ job[j].made <= MaxAttempts
      /\ job[j].state # "failed" => job[j].made < MaxAttempts
      /\ job[j].state # "active" => job[j].step = "post" /\ job[j].seen = 0
  BY DEF DeliveryBase, DeliveryShape, JobsInOrder
<1>p. PICK q \in JobRow : job[j] = q
  BY <1>0
<1>1. ASSUME Start(j) PROVE JobStepOK(j)
  <2> DEFINE n == [job[j] EXCEPT !.state = "active"]
  <2>1. n \in JobRow /\ n.state = "active" /\ n.made = job[j].made
    BY <1>p DEF JobRow, JobState
  <2>2. job' = [job EXCEPT ![j] = n] /\ n.made < MaxAttempts
    BY <1>1, <1>0, <2>1 DEF Start
  <2> HIDE DEF n
  <2> QED BY <2>1, <2>2, <1>0 DEF JobStepOK, JobRow
<1>2. ASSUME NEW response \in {"ok", "refused", "busy"}, Post(j, response) PROVE JobStepOK(j)
  <2> DEFINE n == [job[j] EXCEPT !.step = "read", !.response = response]
  <2>1. n \in JobRow /\ n.state = "active" /\ n.made = job[j].made
    BY <1>p, <1>2 DEF JobRow, JobState, JobStep, Trying, Post, At
  <2>2. job' = [job EXCEPT ![j] = n] /\ n.made < MaxAttempts
    BY <1>2, <1>0, <2>1 DEF Post, At
  <2> HIDE DEF n
  <2> QED BY <2>1, <2>2, <1>0 DEF JobStepOK, JobRow
<1>3. ASSUME PostFails(j) PROVE JobStepOK(j)
  <2> DEFINE n == [job[j] EXCEPT !.step = "catchRead", !.response = "none"]
  <2>1. n \in JobRow /\ n.state = "active" /\ n.made = job[j].made
    BY <1>p, <1>3 DEF JobRow, JobState, JobStep, Catching, PostFails, At
  <2>2. job' = [job EXCEPT ![j] = n] /\ n.made < MaxAttempts
    BY <1>3, <1>0, <2>1 DEF PostFails, At
  <2> HIDE DEF n
  <2> QED BY <2>1, <2>2, <1>0 DEF JobStepOK, JobRow
<1>4. ASSUME RecordRead(j) PROVE JobStepOK(j)
  <2>1. PICK catch \in BOOLEAN :
          /\ At(j, IF catch THEN "catchRead" ELSE "read")
          /\ job' = [job EXCEPT
                     ![j].seen = row.attempts,
                     ![j].step = IF ~ Gone THEN (IF catch THEN "catchWrite" ELSE "write")
                                 ELSE IF catch THEN "catchWebhook"
                                 ELSE After(job[j].response)]
    BY <1>4 DEF RecordRead
  <2>2. PICK step \in JobStep : job' = [job EXCEPT ![j].seen = row.attempts, ![j].step = step]
    BY <2>1 DEF JobStep, Trying, Catching, After
  <2> DEFINE n == [job[j] EXCEPT !.seen = row.attempts, !.step = step]
  <2>3. row.attempts \in Nat
    BY DEF DeliveryBase, DeliveryShape
  <2>4. n \in JobRow /\ n.state = job[j].state /\ n.made = job[j].made
    BY <1>p, <2>3 DEF JobRow
  <2>5. job' = [job EXCEPT ![j] = n] /\ n.made < MaxAttempts /\ n.state = "active"
    BY <2>1, <2>2, <1>0, <2>4 DEF At
  <2> HIDE DEF n
  <2> QED BY <2>4, <2>5, <1>0 DEF JobStepOK, JobRow
<1>5. ASSUME RecordWrite(j) PROVE JobStepOK(j)
  <2>1. PICK catch \in BOOLEAN :
          /\ job[j].state = "active"
          /\ To(j, IF catch THEN "catchWebhook" ELSE After(job[j].response))
    BY <1>5 DEF RecordWrite, At
  <2>2. (IF catch THEN "catchWebhook" ELSE After(job[j].response)) \in JobStep
    BY DEF JobStep, Trying, Catching, After
  <2> QED BY <2>1, <2>2, ToOK
<1>6. ASSUME SetStatus(j) PROVE JobStepOK(j)
  <2>1. "webhook" \in JobStep
    BY DEF JobStep, Trying
  <2> QED BY <1>6, <2>1, ToOK DEF SetStatus, At
<1>7. ASSUME SetWebhook(j) PROVE JobStepOK(j)
  <2>1. job[j].state = "active" /\ job[j].made \in Nat /\ job[j].stalled \in BOOLEAN
    BY <1>7, <1>0 DEF SetWebhook, At, JobRow
  <2> QED BY <1>7, <1>0, <2>1, LeaveOK DEF SetWebhook, Leave
<1>8. ASSUME Rethrow(j) PROVE JobStepOK(j)
  BY <1>8, RetryOK DEF Rethrow, At
<1>9. ASSUME Throw(j) PROVE JobStepOK(j)
  BY <1>9, ThrowOK
<1>10. ASSUME WorkerStops(j) PROVE JobStepOK(j)
  <2>1. job[j].state = "active" /\ job[j].made \in Nat
    BY <1>10, <1>0 DEF WorkerStops, JobRow
  <2>2. PICK state \in {"waiting", "failed"} :
          job' = [job EXCEPT ![j] = [NoJob EXCEPT !.state = state, !.made = job[j].made,
                                                  !.stalled = TRUE]]
    BY <1>10 DEF WorkerStops, Leave
  <2> QED BY <2>1, <2>2, <1>0, LeaveOK
<1>11. JobStepOK(j)
  BY <1>1, <1>2, <1>3, <1>4, <1>5, <1>6, <1>7, <1>8, <1>9, <1>10
  DEF Work, Deliver, RowMissing, StatementFails
<1>12. job[j].state \in {"waiting", "active"} /\ UNCHANGED <<webhook, emit>>
  BY DEF Work, Deliver, StatementFails, RowMissing, WorkerStops, Start, Post, PostFails,
         RecordRead, RecordWrite, SetStatus, SetWebhook, Rethrow, Throw, At
<1> QED BY <1>11, <1>12

LEMMA DeliveryBaseInit == DeliveryInit => DeliveryBase
<1> SUFFICES ASSUME DeliveryInit PROVE DeliveryBase
  OBVIOUS
<1>1. NoJob \in JobRow
  BY DEF NoJob, JobRow, JobState, JobStep
<1>2. DeliveryShape
  BY <1>1, WebhookAssumption DEF DeliveryInit, DeliveryShape, NoRow
<1>3. JobsInOrder /\ BeforeEmit
  BY WebhookAssumption DEF DeliveryInit, JobsInOrder, BeforeEmit, NoJob, Gone
<1> QED BY <1>2, <1>3 DEF DeliveryBase

\* The steps that queue a job for the first time.
LEMMA QueuedFresh ==
  ASSUME DeliveryBase, NEW j \in Jobs, job[j] = NoJob,
         job' = [job EXCEPT ![j].state = "waiting"]
  PROVE  JobStepOK(j)
<1> DEFINE n == [NoJob EXCEPT !.state = "waiting"]
<1>1. n \in JobRow /\ n.state = "waiting" /\ n.made = 0 /\ n.step = "post" /\ n.seen = 0
  BY DEF JobRow, NoJob, JobStep, JobState
<1>2. job' = [job EXCEPT ![j] = n]
  OBVIOUS
<1>3. n.made <= MaxAttempts /\ n.made < MaxAttempts
  BY <1>1, WebhookAssumption
<1> HIDE DEF n
<1> QED BY <1>1, <1>2, <1>3 DEF JobStepOK

\* What a step of one job keeps of the jobs.
LEMMA JobStepKeeps ==
  ASSUME DeliveryBase, NEW j \in Jobs, JobStepOK(j)
  PROVE  /\ job' \in [Jobs -> JobRow]
         /\ JobsInOrder'
         /\ \A k \in Jobs : job'[k] = NoJob => job[k] = NoJob
<1>1. PICK n \in JobRow : 
        /\ job' = [job EXCEPT ![j] = n]
        /\ n.state \in {"waiting", "active", "completed", "failed"}
        /\ n.made <= MaxAttempts
        /\ n.state # "failed" => n.made < MaxAttempts
        /\ n.state # "active" => n.step = "post" /\ n.seen = 0
  BY DEF JobStepOK
<1>2. job' \in [Jobs -> JobRow] /\ job'[j] = n
      /\ \A k \in Jobs \ {j} : job'[k] = job[k]
  BY <1>1 DEF DeliveryBase, DeliveryShape
<1>3. JobsInOrder'
  BY <1>1, <1>2 DEF DeliveryBase, JobsInOrder
<1>4. NoJob.state = "none"
  BY DEF NoJob
<1> QED BY <1>1, <1>2, <1>3, <1>4

\* Every action is one of these: a step of emit, of the webhook, or of one job.
LEMMA DeliverySteps ==
  ASSUME DeliveryNext
  PROVE  \/ EmitRow \/ EmitAdd \/ EmitFail \/ DeleteWebhook
         \/ \E j \in Replays : ReplayDelivery(j)
         \/ \E j \in Jobs : Work(j)
  BY DEF DeliveryNext, Work

\* What a step of a job writes into the row, and how it counts.
LEMMA WorkRow ==
  ASSUME DeliveryBase, NEW j \in Jobs, Work(j)
  PROVE  /\ row' \in [status : {"none", "pending", "delivered", "dead_lettered"},
                      attempts : Nat]
         /\ Gone => row' = row
         /\ ~ Gone => ~ Gone'
         /\ posts' \in {posts, posts + 1}
         /\ failures' \in 0 .. MaxFailures /\ failures' \in {failures, failures + 1}
<1>0. /\ row \in [status : {"none", "pending", "delivered", "dead_lettered"},
                  attempts : Nat]
      /\ posts \in Nat /\ failures \in 0 .. MaxFailures /\ MaxFailures \in Nat
      /\ job[j] \in JobRow
  BY WebhookAssumption DEF DeliveryBase, DeliveryShape
<1>1. CASE RecordWrite(j)
  <2>1. ~ Gone /\ row' = [row EXCEPT !.attempts = job[j].seen + 1]
        /\ UNCHANGED <<posts, failures>>
    BY <1>1 DEF RecordWrite
  <2>2. job[j].seen \in Nat
    BY <1>0 DEF JobRow
  <2>3. row' \in [status : {"none", "pending", "delivered", "dead_lettered"},
                  attempts : Nat]
        /\ row'.attempts = job[j].seen + 1
    BY <2>1, <2>2, <1>0
  <2>4. row' # NoRow
    BY <2>2, <2>3 DEF NoRow
  <2> QED BY <2>1, <2>3, <2>4, <1>0 DEF Gone
<1>2. CASE SetStatus(j)
  <2>1. PICK status \in {"delivered", "dead_lettered"} : row' = [row EXCEPT !.status = status]
    BY <1>2 DEF SetStatus
  <2>2. ~ Gone /\ UNCHANGED <<posts, failures>>
    BY <1>2 DEF SetStatus
  <2>3. row' \in [status : {"none", "pending", "delivered", "dead_lettered"},
                  attempts : Nat]
        /\ row'.status = status
    BY <2>1, <1>0
  <2>4. row' # NoRow
    BY <2>3 DEF NoRow
  <2> QED BY <2>2, <2>3, <2>4, <1>0 DEF Gone
<1>3. CASE ~ RecordWrite(j) /\ ~ SetStatus(j)
  <2>1. UNCHANGED row
    BY <1>3 DEF Work, Deliver, StatementFails, RowMissing, WorkerStops, Start, Post,
         PostFails, RecordRead, SetWebhook, Rethrow, Throw
  <2>2. posts' \in {posts, posts + 1}
    BY <1>3 DEF Work, Deliver, StatementFails, RowMissing, WorkerStops, Start, Post,
         PostFails, RecordRead, SetWebhook, Rethrow, Throw
  <2>3. UNCHANGED failures \/ (failures < MaxFailures /\ failures' = failures + 1)
    BY <1>3 DEF Work, Deliver, StatementFails, RowMissing, WorkerStops, Start, Post,
         PostFails, RecordRead, SetWebhook, Rethrow, Throw
  <2> QED BY <2>1, <2>2, <2>3, <1>0 DEF Gone
<1> QED BY <1>1, <1>2, <1>3

LEMMA DeliveryBaseStep ==
  ASSUME DeliveryBase, [DeliveryNext]_deliveryVars
  PROVE  DeliveryBase' /\ \A k \in Jobs : job'[k] = NoJob => job[k] = NoJob
<1>0. /\ DeliveryShape /\ JobsInOrder /\ BeforeEmit
      /\ failures \in 0 .. MaxFailures /\ MaxFailures \in Nat
  BY WebhookAssumption DEF DeliveryBase, DeliveryShape
<1>f. First \in Jobs /\ \A j \in Replays : j \in Jobs /\ j # First
  BY WebhookAssumption DEF Jobs
<1>1. CASE EmitRow
  <2>1. row' \in [status : {"none", "pending", "delivered", "dead_lettered"},
                  attempts : Nat]
    BY <1>1 DEF EmitRow
  <2>2. DeliveryShape' /\ JobsInOrder'
    BY <1>0, <1>1, <2>1 DEF EmitRow, DeliveryShape, JobsInOrder
  <2>3. BeforeEmit'
    BY <1>0, <1>1, <1>f DEF EmitRow, BeforeEmit
  <2> QED BY <1>1, <2>2, <2>3 DEF EmitRow, DeliveryBase
<1>2. CASE EmitAdd
  <2>1. job[First] = NoJob
    BY <1>0, <1>2 DEF EmitAdd, BeforeEmit
  <2>2. JobStepOK(First)
    BY <1>2, <1>f, <2>1, QueuedFresh DEF EmitAdd
  <2>3. job' \in [Jobs -> JobRow] /\ JobsInOrder'
        /\ \A k \in Jobs : job'[k] = NoJob => job[k] = NoJob
    BY <1>f, <2>2, JobStepKeeps
  <2>4. DeliveryShape' /\ BeforeEmit'
    BY <1>0, <1>2, <2>3 DEF EmitAdd, DeliveryShape, BeforeEmit, Gone
  <2> QED BY <2>3, <2>4 DEF DeliveryBase
<1>3. CASE EmitFail
  <2>1. DeliveryShape' /\ JobsInOrder' /\ BeforeEmit'
    BY <1>0, <1>3 DEF EmitFail, DeliveryShape, JobsInOrder, BeforeEmit, Gone
  <2> QED BY <1>3, <2>1 DEF EmitFail, DeliveryBase
<1>4. CASE DeleteWebhook
  <2>1. NoRow \in [status : {"none", "pending", "delivered", "dead_lettered"},
                   attempts : Nat]
    BY DEF NoRow
  <2>2. DeliveryShape' /\ JobsInOrder' /\ BeforeEmit'
    BY <1>0, <1>4, <2>1 DEF DeleteWebhook, DeliveryShape, JobsInOrder, BeforeEmit, Gone
  <2> QED BY <1>4, <2>2 DEF DeleteWebhook, DeliveryBase
<1>5. ASSUME NEW j \in Replays, ReplayDelivery(j)
      PROVE  DeliveryBase' /\ \A k \in Jobs : job'[k] = NoJob => job[k] = NoJob
  <2>1. JobStepOK(j)
    BY <1>5, <1>f, QueuedFresh DEF ReplayDelivery
  <2>2. job' \in [Jobs -> JobRow] /\ JobsInOrder'
        /\ \A k \in Jobs : job'[k] = NoJob => job[k] = NoJob
    BY <1>f, <2>1, JobStepKeeps
  <2>3. DeliveryShape'
    BY <1>0, <1>5, <2>2 DEF ReplayDelivery, DeliveryShape
  <2>4. ~ Gone /\ UNCHANGED <<row, webhook, emit>> /\ job'[First] = job[First]
    BY <1>0, <1>5, <1>f DEF ReplayDelivery, DeliveryShape
  <2>5. BeforeEmit'
    BY <1>0, <2>4 DEF BeforeEmit, Gone
  <2> QED BY <2>2, <2>3, <2>5 DEF DeliveryBase
<1>6. ASSUME NEW j \in Jobs, Work(j)
      PROVE  DeliveryBase' /\ \A k \in Jobs : job'[k] = NoJob => job[k] = NoJob
  <2>1. JobStepOK(j) /\ job[j].state \in {"waiting", "active"}
        /\ UNCHANGED <<webhook, emit>>
    BY <1>6, WorkOK
  <2>2. job' \in [Jobs -> JobRow] /\ JobsInOrder'
        /\ \A k \in Jobs : job'[k] = NoJob => job[k] = NoJob
    BY <2>1, JobStepKeeps
  <2>3. /\ row' \in [status : {"none", "pending", "delivered", "dead_lettered"},
                      attempts : Nat]
        /\ Gone => row' = row
        /\ posts' \in {posts, posts + 1}
        /\ failures' \in 0 .. MaxFailures
    BY <1>6, WorkRow
  <2>4. posts' \in Nat
    BY <1>0, <2>3 DEF DeliveryShape
  <2>5. DeliveryShape'
    BY <1>0, <2>1, <2>2, <2>3, <2>4 DEF DeliveryShape
  <2>6. emit # "idle" /\ (emit = "queue" => j # First)
    BY <1>0, <2>1 DEF BeforeEmit, NoJob
  <2>7. emit = "queue" => job'[First] = NoJob
    BY <1>0, <1>f, <2>1, <2>6 DEF BeforeEmit, JobStepOK, DeliveryShape
  <2>8. ~ Gone' => webhook
    BY <1>0, <2>3 DEF BeforeEmit, Gone
  <2>9. BeforeEmit'
    BY <2>1, <2>6, <2>7, <2>8 DEF BeforeEmit
  <2> QED BY <2>2, <2>5, <2>9 DEF DeliveryBase
<1>7. CASE UNCHANGED deliveryVars
  <2>1. DeliveryShape' /\ JobsInOrder' /\ BeforeEmit'
    BY <1>0, <1>7 DEF deliveryVars, DeliveryShape, JobsInOrder, BeforeEmit, Gone
  <2> QED BY <1>7, <2>1 DEF deliveryVars, DeliveryBase
<1> QED BY <1>1, <1>2, <1>3, <1>4, <1>5, <1>6, <1>7, DeliverySteps

-----------------------------------------------------------------------------
(* WebhookDelivery: the status.                                            *)

FinalStatus == {"delivered", "dead_lettered"}

\* Past the statement that writes the status.
PastStatus(j) == At(j, "webhook") \/ job[j].state = "completed"

StatusWritten == \A j \in Jobs : PastStatus(j) => Gone \/ row.status \in FinalStatus

\* The only way past the statement is through it, and a final status stays final.
LEMMA StatusStep ==
  ASSUME DeliveryBase, NEW j \in Jobs, Work(j)
  PROVE  /\ PastStatus(j)' => PastStatus(j) \/ row'.status \in FinalStatus
         /\ row.status \in FinalStatus => row'.status \in FinalStatus
         /\ row'.status # row.status => At(j, "status") /\ ~ Gone
<1>0. /\ job \in [Jobs -> JobRow] /\ job[j] \in JobRow
      /\ row \in [status : {"none", "pending", "delivered", "dead_lettered"},
                  attempts : Nat]
  BY DEF DeliveryBase, DeliveryShape
<1>1. CASE SetStatus(j)
  <2>1. row'.status \in FinalStatus
    BY <1>0, <1>1 DEF SetStatus, FinalStatus
  <2> QED BY <1>1, <2>1 DEF SetStatus
<1>2. CASE SetWebhook(j)
  BY <1>2 DEF SetWebhook, PastStatus
<1>3. CASE ~ SetStatus(j) /\ ~ SetWebhook(j)
  <2>1. row'.status = row.status
    BY <1>0, <1>3 DEF Work, Deliver, StatementFails, RowMissing, WorkerStops, Start, Post,
         PostFails, RecordRead, RecordWrite, SetWebhook, Rethrow, Throw
  <2>2. ASSUME Throw(j) PROVE ~ PastStatus(j)'
    <3>1. CASE To(j, "catchRead")
      BY <1>0, <2>2, <3>1 DEF To, PastStatus, At, Throw, JobRow
    <3>2. CASE Retry(j)
      BY <1>0, <3>2 DEF Retry, Leave, PastStatus, At, NoJob
    <3> QED BY <2>2, <3>1, <3>2 DEF Throw
  <2>3. ASSUME Start(j) PROVE ~ PastStatus(j)'
    <3>1. job[j].step = "post"
      BY <2>3 DEF Start, DeliveryBase, JobsInOrder
    <3> QED BY <1>0, <2>3, <3>1 DEF Start, PastStatus, At, JobRow
  <2>4. ASSUME NEW response \in {"ok", "refused", "busy"}, Post(j, response)
        PROVE  ~ PastStatus(j)'
    BY <1>0, <2>4 DEF Post, PastStatus, At, JobRow
  <2>5. ASSUME PostFails(j) PROVE ~ PastStatus(j)'
    BY <1>0, <2>5 DEF PostFails, PastStatus, At, JobRow
  <2>6. ASSUME RecordRead(j) PROVE ~ PastStatus(j)'
    BY <1>0, <2>6 DEF RecordRead, PastStatus, At, JobRow, After
  <2>7. ASSUME RecordWrite(j) PROVE ~ PastStatus(j)'
    BY <1>0, <2>7 DEF RecordWrite, PastStatus, At, JobRow, After, To
  <2>8. ASSUME Rethrow(j) PROVE ~ PastStatus(j)'
    BY <1>0, <2>8 DEF Rethrow, Retry, Leave, PastStatus, At, NoJob
  <2>9. ASSUME WorkerStops(j) PROVE ~ PastStatus(j)'
    BY <1>0, <2>9 DEF WorkerStops, Leave, PastStatus, At, NoJob
  <2>10. ~ PastStatus(j)'
    BY <1>3, <2>2, <2>3, <2>4, <2>5, <2>6, <2>7, <2>8, <2>9
    DEF Work, Deliver, StatementFails, RowMissing
  <2> QED BY <2>1, <2>10
<1> QED BY <1>1, <1>2, <1>3

\* A step of another job leaves this one where it is.
LEMMA OtherJob ==
  ASSUME DeliveryBase, NEW j \in Jobs, JobStepOK(j), NEW k \in Jobs, k # j
  PROVE  job'[k] = job[k]
  BY DEF JobStepOK, DeliveryBase, DeliveryShape

LEMMA StatusWrittenStep ==
  ASSUME DeliveryBase, StatusWritten, [DeliveryNext]_deliveryVars
  PROVE  StatusWritten'
<1> SUFFICES ASSUME NEW k \in Jobs, PastStatus(k)', ~ Gone'
             PROVE  row'.status \in FinalStatus
  BY DEF StatusWritten
<1>0. job \in [Jobs -> JobRow] /\ (PastStatus(k) => Gone \/ row.status \in FinalStatus)
  BY DEF DeliveryBase, DeliveryShape, StatusWritten
<1>1. CASE EmitRow
  <2>1. job'[k] = NoJob
    BY <1>1 DEF EmitRow, DeliveryBase, BeforeEmit
  <2> QED BY <2>1 DEF PastStatus, At, NoJob
<1>2. CASE EmitAdd
  BY <1>0, <1>2 DEF EmitAdd, PastStatus, At, Gone
<1>3. CASE EmitFail \/ UNCHANGED deliveryVars
  BY <1>0, <1>3 DEF EmitFail, deliveryVars, PastStatus, At, Gone
<1>4. CASE DeleteWebhook
  BY <1>4 DEF DeleteWebhook, Gone
<1>5. ASSUME NEW j \in Replays, ReplayDelivery(j) PROVE row'.status \in FinalStatus
  BY <1>0, <1>5 DEF ReplayDelivery, PastStatus, At, Gone
<1>6. ASSUME NEW j \in Jobs, Work(j) PROVE row'.status \in FinalStatus
  <2>1. ~ Gone
    BY <1>6, WorkRow DEF Gone
  <2>2. CASE k = j
    BY <1>0, <1>6, <2>1, <2>2, StatusStep
  <2>3. CASE k # j
    <3>1. job'[k] = job[k]
      BY <1>6, <2>3, WorkOK, OtherJob
    <3>2. PastStatus(k)
      BY <3>1 DEF PastStatus, At
    <3> QED BY <1>0, <1>6, <2>1, <3>2, StatusStep
  <2> QED BY <2>2, <2>3
<1> QED BY <1>1, <1>2, <1>3, <1>4, <1>5, <1>6, DeliverySteps

\* WebhookWorker.deliver: a job that ended well leaves its delivery with a final
\* status, however jobs and replays overlap and fail: the status is written
\* before the job returns, and nothing puts it back to pending.
THEOREM CompletedHasStatus == DeliverySpec => []CompletedIsFinal
<1>1. DeliveryInit => DeliveryBase /\ StatusWritten
  <2>1. DeliveryInit => StatusWritten
    BY DEF DeliveryInit, StatusWritten, Gone
  <2> QED BY <2>1, DeliveryBaseInit
<1>2. DeliveryBase /\ StatusWritten /\ [DeliveryNext]_deliveryVars
        => (DeliveryBase /\ StatusWritten)'
  BY DeliveryBaseStep, StatusWrittenStep
<1>3. StatusWritten => CompletedIsFinal
  BY DEF StatusWritten, CompletedIsFinal, PastStatus, FinalStatus
<1> QED BY <1>1, <1>2, <1>3, PTL DEF DeliverySpec

-----------------------------------------------------------------------------
(* WebhookDelivery: one job, without failures.                             *)

FirstAlone == ~ Replayed /\ failures = 0 /\ ~ Gone

\* Where the first job is, the array and the number of POSTs tell each other.
LogFollows ==
    LET behind == row.attempts + 1 >= posts
    IN  /\ \/ row.attempts >= posts
           \/ /\ behind
              /\ \E step \in {"read", "write", "catchRead", "catchWrite"} : At(First, step)
        /\ At(First, "write") \/ At(First, "catchWrite") =>
              job[First].seen = row.attempts

\* A final status means that the first job has written it.
StatusIsFirsts == row.status \in FinalStatus => PastStatus(First)

Smooth == FirstAlone => LogFollows /\ StatusIsFirsts

\* Disturbed once, disturbed for good; and until then only First works.
LEMMA DisturbedStays ==
  ASSUME DeliveryBase, [DeliveryNext]_deliveryVars, ~ EmitRow, FirstAlone'
  PROVE  FirstAlone /\ failures' = failures /\ webhook
<1>1. /\ \A k \in Jobs : job'[k] = NoJob => job[k] = NoJob
      /\ ~ Replayed
  BY DeliveryBaseStep DEF FirstAlone, Replayed, Jobs
<1>2. failures' = 0 => failures = 0
  <2>1. ASSUME NEW j \in Jobs, Work(j) PROVE failures' = 0 => failures = 0
    BY <2>1, WorkRow DEF DeliveryBase, DeliveryShape
  <2>2. CASE EmitAdd \/ DeleteWebhook \/ UNCHANGED deliveryVars
             \/ \E j \in Replays : ReplayDelivery(j)
    BY <2>2 DEF EmitAdd, DeleteWebhook, deliveryVars, ReplayDelivery
  <2>3. CASE EmitFail
    BY <2>3 DEF EmitFail, DeliveryBase, DeliveryShape
  <2> QED BY <2>1, <2>2, <2>3, DeliverySteps
<1>3. ~ Gone' => ~ Gone
  <2>1. ASSUME NEW j \in Jobs, Work(j), Gone PROVE Gone'
    BY <2>1, WorkRow DEF Gone
  <2>2. CASE EmitAdd \/ EmitFail \/ DeleteWebhook \/ UNCHANGED deliveryVars
             \/ \E j \in Replays : ReplayDelivery(j)
    BY <2>2 DEF EmitAdd, EmitFail, DeleteWebhook, deliveryVars, ReplayDelivery, Gone
  <2> QED BY <2>1, <2>2, DeliverySteps
<1> QED BY <1>1, <1>2, <1>3 DEF FirstAlone, DeliveryBase, BeforeEmit

\* Then a step is one of these of First.
LEMMA FirstAloneWork ==
  ASSUME DeliveryBase, NEW j \in Jobs, Work(j), FirstAlone, FirstAlone'
  PROVE  /\ j = First
         /\ \/ Start(j) \/ PostFails(j) \/ RecordRead(j) \/ RecordWrite(j)
            \/ SetStatus(j) \/ SetWebhook(j) \/ Rethrow(j)
            \/ \E response \in {"ok", "refused", "busy"} : Post(j, response)
<1>1. j = First
  BY WorkOK DEF FirstAlone, Replayed, Jobs, NoJob
<1>2. failures = 0 /\ failures' = 0 /\ ~ Gone /\ webhook
  BY DEF FirstAlone, DeliveryBase, BeforeEmit
<1>3. ~ StatementFails(j) /\ ~ WorkerStops(j)
  BY <1>2 DEF StatementFails, WorkerStops
<1>4. ~ RowMissing(j)
  BY <1>2 DEF RowMissing, Missing
<1> QED BY <1>1, <1>3, <1>4 DEF Work, Deliver

LEMMA LogFollowsStep ==
  ASSUME DeliveryBase, NEW j \in Jobs, Work(j), FirstAlone, FirstAlone', LogFollows
  PROVE  LogFollows'
<1>j. j = First
  BY FirstAloneWork
<1>0. /\ job \in [Jobs -> JobRow] /\ job[First] \in JobRow /\ First \in Jobs
      /\ row.attempts \in Nat /\ posts \in Nat /\ ~ Gone
      /\ row \in [status : {"none", "pending", "delivered", "dead_lettered"},
                  attempts : Nat]
  BY DEF DeliveryBase, DeliveryShape, Jobs, FirstAlone
<1>s. job[First].state # "active" => job[First].step = "post"
  BY <1>0 DEF DeliveryBase, JobsInOrder
<1>1. CASE Start(First)
  BY <1>0, <1>1, <1>s DEF Start, LogFollows, At, JobRow
<1>2. CASE PostFails(First)
  <2>1. row.attempts >= posts
    BY <1>2 DEF PostFails, LogFollows, At
  <2>2. /\ job'[First].state = "active" /\ job'[First].step = "catchRead"
        /\ posts' = posts + 1 /\ row' = row
    BY <1>0, <1>2 DEF PostFails, At, JobRow
  <2> QED BY <1>0, <2>1, <2>2 DEF LogFollows, At
<1>3. ASSUME NEW response \in {"ok", "refused", "busy"}, Post(First, response)
      PROVE  LogFollows'
  <2>1. row.attempts >= posts
    BY <1>3 DEF Post, LogFollows, At
  <2>2. /\ job'[First].state = "active" /\ job'[First].step = "read"
        /\ posts' = posts + 1 /\ row' = row
    BY <1>0, <1>3 DEF Post, At, JobRow
  <2> QED BY <1>0, <2>1, <2>2 DEF LogFollows, At
<1>4. CASE RecordRead(First)
  <2>1. /\ job'[First].state = "active" /\ job'[First].step \in {"write", "catchWrite"}
        /\ job'[First].seen = row.attempts /\ row' = row /\ posts' = posts
    BY <1>0, <1>4 DEF RecordRead, At, JobRow
  <2>2. row.attempts + 1 >= posts
    BY <1>0 DEF LogFollows
  <2> QED BY <1>0, <2>1, <2>2 DEF LogFollows, At
<1>5. CASE RecordWrite(First)
  <2>1. job[First].seen = row.attempts
    BY <1>5 DEF RecordWrite, LogFollows, At
  <2>2. /\ row'.attempts = job[First].seen + 1 /\ posts' = posts
        /\ job'[First].state = "active"
        /\ job'[First].step \in {"status", "catchRead", "catchWebhook"}
    BY <1>0, <1>5 DEF RecordWrite, At, To, After, JobRow
  <2>3. row.attempts + 1 >= posts
    BY <1>0 DEF LogFollows
  <2> QED BY <1>0, <2>1, <2>2, <2>3 DEF LogFollows, At
<1>6. CASE SetStatus(First)
  <2>1. row.attempts >= posts
    BY <1>6 DEF SetStatus, LogFollows, At
  <2>2. /\ row'.attempts = row.attempts /\ posts' = posts
        /\ job'[First].step = "webhook"
    BY <1>0, <1>6 DEF SetStatus, To, JobRow
  <2> QED BY <1>0, <2>1, <2>2 DEF LogFollows, At
<1>7. CASE SetWebhook(First) \/ Rethrow(First)
  <2>1. row.attempts >= posts
    BY <1>7 DEF SetWebhook, Rethrow, LogFollows, At
  <2>2. row' = row /\ posts' = posts /\ job'[First].step = "post"
    BY <1>0, <1>7 DEF SetWebhook, Rethrow, Retry, Leave, NoJob
  <2> QED BY <1>0, <2>1, <2>2 DEF LogFollows, At
<1> QED BY <1>j, <1>1, <1>2, <1>3, <1>4, <1>5, <1>6, <1>7, FirstAloneWork

LEMMA StatusIsFirstsStep ==
  ASSUME DeliveryBase, NEW j \in Jobs, Work(j), FirstAlone, FirstAlone', StatusIsFirsts
  PROVE  StatusIsFirsts'
<1>j. j = First
  BY FirstAloneWork
<1>0. /\ job \in [Jobs -> JobRow] /\ job[First] \in JobRow /\ First \in Jobs
  BY DEF DeliveryBase, DeliveryShape, Jobs
<1>1. CASE SetStatus(First)
  <2>1. job'[First].state = "active" /\ job'[First].step = "webhook"
    BY <1>0, <1>1 DEF SetStatus, To, At, JobRow
  <2> QED BY <2>1 DEF StatusIsFirsts, PastStatus, At
<1>2. CASE SetWebhook(First)
  <2>1. job'[First].state = "completed"
    BY <1>0, <1>2 DEF SetWebhook, Leave, NoJob
  <2> QED BY <2>1 DEF StatusIsFirsts, PastStatus
<1>3. CASE ~ SetStatus(First) /\ ~ SetWebhook(First)
  <2>1. ~ PastStatus(First)
    BY <1>j, <1>3, FirstAloneWork DEF PastStatus, Start, PostFails, RecordRead,
       RecordWrite, Rethrow, Post, At
  <2>2. row'.status = row.status
    BY <1>j, <1>3, FirstAloneWork DEF Start, PostFails, RecordRead, RecordWrite, Rethrow,
       Post, DeliveryBase, DeliveryShape
  <2> QED BY <2>1, <2>2 DEF StatusIsFirsts
<1> QED BY <1>1, <1>2, <1>3

LEMMA SmoothStep ==
  ASSUME DeliveryBase, Smooth, [DeliveryNext]_deliveryVars
  PROVE  Smooth'
<1> SUFFICES ASSUME FirstAlone' PROVE LogFollows' /\ StatusIsFirsts'
  BY DEF Smooth
<1>0. DeliveryBase' /\ First \in Jobs /\ job \in [Jobs -> JobRow]
  BY DeliveryBaseStep DEF Jobs, DeliveryBase, DeliveryShape
<1>1. CASE EmitRow
  <2>1. /\ row' = [status |-> "pending", attempts |-> 0] /\ posts' = 0
        /\ job'[First] = NoJob
    BY <1>0, <1>1 DEF EmitRow, DeliveryBase, BeforeEmit
  <2> QED BY <2>1 DEF LogFollows, StatusIsFirsts, FinalStatus, At, NoJob
<1>2. CASE ~ EmitRow
  <2>1. FirstAlone /\ LogFollows /\ StatusIsFirsts
    BY <1>2, DisturbedStays DEF Smooth
  <2>2. CASE EmitAdd
    <3>1. /\ job'[First].state = "waiting" /\ job[First].state = "none" 
          /\ UNCHANGED <<row, posts>>
      BY <1>0, <2>2 DEF EmitAdd, DeliveryBase, BeforeEmit, NoJob, JobRow
    <3> QED BY <2>1, <3>1 DEF LogFollows, StatusIsFirsts, PastStatus, At
  <2>3. CASE EmitFail \/ UNCHANGED deliveryVars
    BY <2>1, <2>3 DEF EmitFail, deliveryVars, LogFollows, StatusIsFirsts, PastStatus, At
  <2>4. CASE DeleteWebhook
    BY <2>4 DEF DeleteWebhook, FirstAlone, Gone
  <2>5. ASSUME NEW j \in Replays, ReplayDelivery(j) PROVE FALSE
    <3>1. job'[j] # NoJob
      BY <1>0, <2>5 DEF ReplayDelivery, NoJob, JobRow, Jobs
    <3> QED BY <3>1 DEF FirstAlone, Replayed
  <2>6. ASSUME NEW j \in Jobs, Work(j) PROVE LogFollows' /\ StatusIsFirsts'
    BY <2>1, <2>6, LogFollowsStep, StatusIsFirstsStep
  <2> QED BY <1>2, <2>2, <2>3, <2>4, <2>5, <2>6, DeliverySteps
<1> QED BY <1>1, <1>2

LEMMA DeliverySmooth == DeliverySpec => [](DeliveryBase /\ Smooth)
<1>1. DeliveryInit => DeliveryBase /\ Smooth
  <2>1. DeliveryInit => Smooth
    BY DEF DeliveryInit, Smooth, FirstAlone, Gone
  <2> QED BY <2>1, DeliveryBaseInit
<1>2. DeliveryBase /\ Smooth /\ [DeliveryNext]_deliveryVars => (DeliveryBase /\ Smooth)'
  BY DeliveryBaseStep, SmoothStep
<1> QED BY <1>1, <1>2, PTL DEF DeliverySpec

\* WebhookWorker.recordAttempt: without a replay, a failure or a deletion, every
\* POST that came back is in the array, however often the job was tried again.
THEOREM AttemptsLogged == DeliverySpec => []EveryPostLogged
<1>1. Smooth => EveryPostLogged
  BY DEF Smooth, FirstAlone, LogFollows, At, EveryPostLogged
<1> QED BY <1>1, DeliverySmooth, PTL

\* WebhookWorker.deliver: without a replay, a failure or a deletion, a delivery
\* keeps its final status: the job that wrote it makes no further attempt.
THEOREM FinalStatusKept == DeliverySpec => FinalStatusStays
<1> DEFINE Stays == (row.status \in {"delivered", "dead_lettered"} /\ row'.status # row.status)
                      => Replayed \/ failures > 0 \/ row' = NoRow
<1>1. DeliveryBase /\ Smooth /\ [DeliveryNext]_deliveryVars => [Stays]_deliveryVars
  <2> SUFFICES ASSUME DeliveryBase, Smooth, [DeliveryNext]_deliveryVars,
                      row.status \in FinalStatus, row'.status # row.status,
                      ~ Replayed, ~ (failures > 0)
               PROVE  row' = NoRow
    BY DEF FinalStatus
  <2>1. FirstAlone
    BY DEF DeliveryBase, DeliveryShape, FirstAlone, Gone, NoRow, FinalStatus
  <2>2. PastStatus(First)
    BY <2>1 DEF Smooth, StatusIsFirsts
  <2>3. CASE EmitRow
    BY <2>1, <2>3 DEF EmitRow, DeliveryBase, BeforeEmit, FirstAlone
  <2>4. CASE EmitAdd \/ EmitFail \/ UNCHANGED deliveryVars
             \/ \E j \in Replays : ReplayDelivery(j)
    BY <2>4 DEF EmitAdd, EmitFail, ReplayDelivery, deliveryVars
  <2>5. CASE DeleteWebhook
    BY <2>5 DEF DeleteWebhook
  <2>6. ASSUME NEW j \in Jobs, Work(j) PROVE FALSE
    <3>1. j = First
      BY <2>1, <2>6, WorkOK DEF FirstAlone, Replayed, Jobs, NoJob
    <3>2. At(First, "status")
      BY <2>6, <3>1, StatusStep
    <3> QED BY <2>2, <3>2 DEF PastStatus, At
  <2> QED BY <2>3, <2>4, <2>5, <2>6, DeliverySteps
<1> QED BY <1>1, DeliverySmooth, PTL DEF DeliverySpec, FinalStatusStays

-----------------------------------------------------------------------------
(* WebhookDelivery: the bounds of the counters.  Posts and entries of the  *)
(* array are counted as the members of a set: for each job, as many as it  *)
(* accounts for.                                                           *)

Upto(count, n) == {p \in Jobs \X (1 .. n) : p[2] <= count[p[1]]}

LEMMA JobsFinite == IsFiniteSet(Jobs) /\ Cardinality(Jobs) \in Nat /\ Cardinality(Jobs) >= 1
<1>1. Jobs = Replays \cup {First} /\ IsFiniteSet(Replays) /\ First \notin Replays
  BY WebhookAssumption DEF Jobs
<1>2. IsFiniteSet(Replays \cup {First})
      /\ Cardinality(Replays \cup {First}) = Cardinality(Replays) + 1
  BY <1>1, FS_AddElement
<1>3. Cardinality(Replays) \in Nat
  BY <1>1, FS_CardinalityType
<1> QED BY <1>1, <1>2, <1>3

LEMMA UptoFinite ==
  ASSUME NEW count, NEW n \in Nat
  PROVE  /\ IsFiniteSet(Upto(count, n))
         /\ Cardinality(Upto(count, n)) \in Nat
         /\ Cardinality(Upto(count, n)) <= Cardinality(Jobs) * n
<1>1. IsFiniteSet(1 .. n) /\ Cardinality(1 .. n) = n
  BY FS_Interval
<1>2. /\ IsFiniteSet(Jobs \X (1 .. n))
      /\ Cardinality(Jobs \X (1 .. n)) = Cardinality(Jobs) * Cardinality(1 .. n)
  BY <1>1, JobsFinite, FS_Product
<1>3. Upto(count, n) \in SUBSET (Jobs \X (1 .. n))
  BY DEF Upto
<1>4. /\ IsFiniteSet(Upto(count, n))
      /\ Cardinality(Upto(count, n)) <= Cardinality(Jobs \X (1 .. n))
  BY <1>2, <1>3, FS_Subset
<1>5. Cardinality(Upto(count, n)) \in Nat
  BY <1>4, FS_CardinalityType
<1> QED BY <1>1, <1>2, <1>4, <1>5

\* One job accounts for one more.
LEMMA UptoOneMore ==
  ASSUME NEW P \in [Jobs -> Nat], NEW Q \in [Jobs -> Nat], NEW n \in Nat, NEW j \in Jobs,
         Q[j] = P[j] + 1, Q[j] <= n, \A k \in Jobs \ {j} : Q[k] = P[k]
  PROVE  Cardinality(Upto(Q, n)) = Cardinality(Upto(P, n)) + 1
<1>1. <<j, Q[j]>> \notin Upto(P, n)
  BY DEF Upto
<1>2. Upto(Q, n) = Upto(P, n) \cup {<<j, Q[j]>>}
  <2>1. ASSUME NEW k \in Jobs, NEW m \in 1 .. n
        PROVE  m <= Q[k] <=> (m <= P[k] \/ (k = j /\ m = Q[j]))
    <3>1. CASE k = j
      BY <3>1
    <3>2. CASE k # j
      BY <3>2
    <3> QED BY <3>1, <3>2
  <2>2. <<j, Q[j]>> \in Jobs \X (1 .. n)
    OBVIOUS
  <2> QED BY <2>1, <2>2 DEF Upto
<1>3. IsFiniteSet(Upto(P, n))
  BY UptoFinite
<1> QED BY <1>1, <1>2, <1>3, FS_AddElement

LEMMA UptoLess ==
  ASSUME NEW P \in [Jobs -> Nat], NEW Q \in [Jobs -> Nat], NEW n \in Nat,
         \A k \in Jobs : Q[k] <= P[k]
  PROVE  Cardinality(Upto(Q, n)) <= Cardinality(Upto(P, n))
<1>1. Upto(Q, n) \in SUBSET Upto(P, n)
  <2>1. ASSUME NEW k \in Jobs, NEW m \in 1 .. n, m <= Q[k] PROVE m <= P[k]
    BY <2>1
  <2> QED BY <2>1 DEF Upto
<1> QED BY <1>1, UptoFinite, FS_Subset

\* A job accounts for the POSTs of its attempts, and for that of the one it is at.
Sent(j) == (job[j].state = "active" /\ job[j].step # "post") \/ job[j].state = "completed"
Posted  == [j \in Jobs |-> IF Sent(j) THEN job[j].made + 1 ELSE job[j].made]

PostsCounted == posts <= Cardinality(Upto(Posted, MaxAttempts)) + failures

\* The entries that an attempt may still add to the array.
Left == [j \in Jobs |-> IF job[j].state # "active" THEN 0
                        ELSE IF job[j].step \in {"read", "write"} THEN 2
                        ELSE IF job[j].step \in {"post", "catchWebhook"} THEN 0 ELSE 1]

EntriesCounted ==
    LET left == Cardinality(Upto(Left, 2))
    IN  /\ row.attempts + left <= 2 * posts
        /\ \A j \in Jobs : job[j].seen + left <= 2 * posts

Counted == PostsCounted /\ EntriesCounted

\* How a step of a job changes what it accounts for.
PostedStep(j) ==
    \/ posts' = posts /\ failures' >= failures /\ Posted'[j] = Posted[j]
    \/ posts' = posts + 1 /\ failures' = failures /\ Posted'[j] = Posted[j] + 1
    \/ posts' = posts /\ failures' = failures + 1 /\ Posted[j] = Posted'[j] + 1

LeftStep(j) ==
    \/ /\ posts' = posts + 1 /\ Left[j] = 0 /\ Left'[j] <= 2
       /\ row'.attempts = row.attempts /\ job'[j].seen = job[j].seen
    \/ /\ posts' = posts /\ Left'[j] <= Left[j]
       /\ row'.attempts = row.attempts /\ job'[j].seen \in {0, row.attempts}
    \/ /\ posts' = posts /\ Left[j] = Left'[j] + 1
       /\ row'.attempts \in {row.attempts, job[j].seen + 1} /\ job'[j].seen = 0

LEMMA WorkCounts ==
  ASSUME DeliveryBase, NEW j \in Jobs, Work(j)
  PROVE  PostedStep(j) /\ LeftStep(j)
<1>0. /\ job \in [Jobs -> JobRow] /\ job[j] \in JobRow /\ posts \in Nat
      /\ row \in [status : {"none", "pending", "delivered", "dead_lettered"},
                  attempts : Nat]
      /\ failures \in Nat /\ MaxFailures \in Nat /\ row.attempts \in Nat
      /\ job[j].made \in Nat /\ job[j].seen \in Nat
  BY WebhookAssumption DEF DeliveryBase, DeliveryShape, JobRow
<1>s. job[j].state # "active" => job[j].step = "post" /\ job[j].seen = 0
  BY DEF DeliveryBase, JobsInOrder
<1> USE DEF PostedStep, LeftStep
<1>1. CASE Start(j)
  <2>1. /\ job'[j].state = "active" /\ job'[j].step = "post" /\ job'[j].seen = 0
        /\ job'[j].made = job[j].made /\ job[j].state = "waiting"
        /\ UNCHANGED <<posts, failures, row>>
    BY <1>0, <1>1, <1>s DEF Start, JobRow
  <2>2. Posted'[j] = Posted[j] /\ Left'[j] = 0 /\ Left[j] = 0
    BY <2>1 DEF Posted, Left, Sent
  <2> QED BY <1>0, <2>1, <2>2
<1>2. ASSUME NEW response \in {"ok", "refused", "busy"}, Post(j, response)
      PROVE  PostedStep(j) /\ LeftStep(j)
  <2>1. /\ job'[j].state = "active" /\ job'[j].step = "read" /\ job'[j].seen = job[j].seen
        /\ job'[j].made = job[j].made /\ job[j].state = "active" /\ job[j].step = "post"
        /\ posts' = posts + 1 /\ UNCHANGED <<failures, row>>
    BY <1>0, <1>2 DEF Post, At, JobRow
  <2>2. Posted'[j] = Posted[j] + 1 /\ Left'[j] = 2 /\ Left[j] = 0
    BY <2>1 DEF Posted, Left, Sent
  <2> QED BY <1>0, <2>1, <2>2
<1>3. CASE PostFails(j)
  <2>1. /\ job'[j].state = "active" /\ job'[j].step = "catchRead"
        /\ job'[j].seen = job[j].seen
        /\ job'[j].made = job[j].made /\ job[j].state = "active" /\ job[j].step = "post"
        /\ posts' = posts + 1 /\ UNCHANGED <<failures, row>>
    BY <1>0, <1>3 DEF PostFails, At, JobRow
  <2>2. Posted'[j] = Posted[j] + 1 /\ Left'[j] = 1 /\ Left[j] = 0
    BY <2>1 DEF Posted, Left, Sent
  <2> QED BY <1>0, <2>1, <2>2
<1>4. CASE RecordRead(j)
  <2>1. PICK catch \in BOOLEAN :
          /\ At(j, IF catch THEN "catchRead" ELSE "read")
          /\ job' = [job EXCEPT
                     ![j].seen = row.attempts,
                     ![j].step = IF ~ Gone THEN (IF catch THEN "catchWrite" ELSE "write")
                                 ELSE IF catch THEN "catchWebhook"
                                 ELSE After(job[j].response)]
          /\ UNCHANGED <<posts, failures, row>>
    BY <1>4 DEF RecordRead
  <2>2. /\ job'[j].state = "active" /\ job[j].state = "active"
        /\ job'[j].seen = row.attempts /\ job'[j].made = job[j].made
        /\ job[j].step = IF catch THEN "catchRead" ELSE "read"
        /\ job'[j].step \in IF catch THEN {"catchWrite", "catchWebhook"}
                            ELSE {"write", "catchRead", "status"}
    BY <1>0, <2>1 DEF At, JobRow, After
  <2>3. Posted'[j] = Posted[j] /\ Left'[j] <= Left[j]
    BY <2>2 DEF Posted, Left, Sent
  <2> QED BY <1>0, <2>1, <2>2, <2>3
<1>5. CASE RecordWrite(j)
  <2>1. PICK catch \in BOOLEAN :
          /\ At(j, IF catch THEN "catchWrite" ELSE "write")
          /\ row' = [row EXCEPT !.attempts = job[j].seen + 1]
          /\ To(j, IF catch THEN "catchWebhook" ELSE After(job[j].response))
          /\ UNCHANGED <<posts, failures>>
    BY <1>5 DEF RecordWrite
  <2>2. /\ job'[j].state = "active" /\ job[j].state = "active"
        /\ job'[j].seen = 0 /\ job'[j].made = job[j].made
        /\ job[j].step = IF catch THEN "catchWrite" ELSE "write"
        /\ job'[j].step \in IF catch THEN {"catchWebhook"} ELSE {"catchRead", "status"}
        /\ row'.attempts = job[j].seen + 1
    BY <1>0, <2>1 DEF At, JobRow, After, To
  <2>3. Posted'[j] = Posted[j] /\ Left[j] = Left'[j] + 1
    BY <2>2 DEF Posted, Left, Sent
  <2> QED BY <1>0, <2>1, <2>2, <2>3
<1>6. CASE SetStatus(j)
  <2>1. /\ job'[j].state = "active" /\ job[j].state = "active" /\ job'[j].seen = 0
        /\ job'[j].made = job[j].made /\ job[j].step = "status" /\ job'[j].step = "webhook"
        /\ row'.attempts = row.attempts /\ UNCHANGED <<posts, failures>>
    BY <1>0, <1>6 DEF SetStatus, At, To, JobRow
  <2>2. Posted'[j] = Posted[j] /\ Left'[j] <= Left[j]
    BY <2>1 DEF Posted, Left, Sent
  <2> QED BY <1>0, <2>1, <2>2
<1>7. CASE SetWebhook(j)
  <2>1. /\ job'[j].state = "completed" /\ job[j].state = "active" /\ job'[j].seen = 0
        /\ job'[j].made = job[j].made /\ job[j].step = "webhook"
        /\ UNCHANGED <<row, posts, failures>>
    BY <1>0, <1>7 DEF SetWebhook, At, Leave, NoJob
  <2>2. Posted'[j] = Posted[j] /\ Left'[j] <= Left[j]
    BY <2>1 DEF Posted, Left, Sent
  <2> QED BY <1>0, <2>1, <2>2
<1>8. ASSUME job[j].state = "active", job[j].step \in Catching, Retry(j),
             UNCHANGED <<row, posts>>, failures' >= failures
      PROVE  PostedStep(j) /\ LeftStep(j)
  <2>1. /\ job'[j].state \in {"waiting", "failed"} /\ job'[j].seen = 0
        /\ job'[j].made = job[j].made + 1
    BY <1>0, <1>8 DEF Retry, Leave, NoJob
  <2>2. Posted'[j] = Posted[j] /\ Left'[j] <= Left[j]
    BY <1>8, <2>1 DEF Posted, Left, Sent, Catching
  <2> QED BY <1>0, <1>8, <2>1, <2>2
<1>9. CASE Rethrow(j)
  BY <1>0, <1>8, <1>9 DEF Rethrow, At, Catching
<1>10. ASSUME Throw(j), failures' >= failures PROVE PostedStep(j) /\ LeftStep(j)
  <2>1. CASE job[j].step \in Trying /\ To(j, "catchRead")
    <3>1. /\ job'[j].state = "active" /\ job[j].state = "active" /\ job'[j].seen = 0
          /\ job'[j].made = job[j].made /\ job[j].step \in Trying
          /\ job'[j].step = "catchRead" /\ UNCHANGED <<row, posts>>
      BY <1>0, <1>10, <2>1 DEF Throw, To, JobRow
    <3>2. Posted'[j] = Posted[j] /\ Left'[j] <= Left[j]
      BY <3>1 DEF Posted, Left, Sent, Trying
    <3> QED BY <1>0, <1>10, <3>1, <3>2
  <2>2. CASE job[j].step \in Catching /\ Retry(j)
    BY <1>8, <1>10, <2>2 DEF Throw
  <2> QED BY <1>10, <2>1, <2>2 DEF Throw
<1>11. CASE WorkerStops(j)
  <2>1. /\ job'[j].state \in {"waiting", "failed"} /\ job'[j].seen = 0
        /\ job'[j].made = job[j].made /\ job[j].state = "active"
        /\ failures' = failures + 1 /\ UNCHANGED <<row, posts>>
    BY <1>0, <1>11 DEF WorkerStops, Leave, NoJob
  <2>2. Left'[j] <= Left[j] /\ (Posted[j] = Posted'[j] \/ Posted[j] = Posted'[j] + 1)
    BY <1>0, <2>1 DEF Posted, Left, Sent
  <2> QED BY <1>0, <2>1, <2>2
<1>12. failures' >= failures
  BY <1>0, WorkRow
<1> QED BY <1>1, <1>2, <1>3, <1>4, <1>5, <1>6, <1>7, <1>9, <1>10, <1>11, <1>12
        DEF Work, Deliver, RowMissing, StatementFails

LEMMA CountedInit == DeliveryInit => Counted
<1> SUFFICES ASSUME DeliveryInit PROVE Counted
  OBVIOUS
<1>1. posts = 0 /\ failures = 0 /\ row.attempts = 0 /\ \A j \in Jobs : job[j].seen = 0
      /\ MaxAttempts \in Nat
  BY WebhookAssumption DEF DeliveryInit, NoRow, NoJob
<1>2. Upto(Left, 2) = {}
  BY DEF DeliveryInit, Upto, Left, NoJob
<1>3. Cardinality(Upto(Left, 2)) = 0
  BY <1>2, FS_EmptySet
<1>4. Cardinality(Upto(Posted, MaxAttempts)) \in Nat
  BY WebhookAssumption, UptoFinite
<1> QED BY <1>1, <1>3, <1>4 DEF Counted, PostsCounted, EntriesCounted

LEMMA PostsCountedStep ==
  ASSUME DeliveryBase, DeliveryBase', PostsCounted, NEW j \in Jobs, Work(j)
  PROVE  PostsCounted'
<1>0. /\ posts \in Nat /\ failures \in Nat /\ posts' \in Nat /\ failures' \in Nat
      /\ MaxAttempts \in Nat
      /\ Cardinality(Upto(Posted, MaxAttempts)) \in Nat
      /\ Cardinality(Upto(Posted, MaxAttempts))' \in Nat
  BY WebhookAssumption, UptoFinite DEF DeliveryBase, DeliveryShape
<1>1. Posted \in [Jobs -> Nat] /\ Posted' \in [Jobs -> Nat]
  BY DEF DeliveryBase, DeliveryShape, JobRow, Posted
<1>2. \A k \in Jobs \ {j} : Posted'[k] = Posted[k]
  <2> SUFFICES ASSUME NEW k \in Jobs, k # j PROVE Posted'[k] = Posted[k]
    OBVIOUS
  <2>1. job'[k] = job[k]
    BY WorkOK, OtherJob
  <2> QED BY <2>1 DEF Posted, Sent
<1>3. Posted'[j] <= MaxAttempts
  <2>1. job'[j].made \in Nat /\ job'[j].made <= MaxAttempts
        /\ (job'[j].state # "failed" => job'[j].made < MaxAttempts)
    BY DEF DeliveryBase, DeliveryShape, JobsInOrder, JobRow
  <2> QED BY <1>0, <2>1 DEF Posted, Sent
<1>4. Posted[j] <= MaxAttempts
  <2>1. job[j].made \in Nat /\ job[j].made <= MaxAttempts
        /\ (job[j].state # "failed" => job[j].made < MaxAttempts)
    BY DEF DeliveryBase, DeliveryShape, JobsInOrder, JobRow
  <2> QED BY <1>0, <2>1 DEF Posted, Sent
<1>5. CASE posts' = posts /\ failures' >= failures /\ Posted'[j] = Posted[j]
  <2>1. Posted' = Posted
    BY <1>1, <1>2, <1>5
  <2> QED BY <1>0, <1>5, <2>1 DEF PostsCounted
<1>6. CASE posts' = posts + 1 /\ failures' = failures /\ Posted'[j] = Posted[j] + 1
  <2>1. Cardinality(Upto(Posted', MaxAttempts)) = Cardinality(Upto(Posted, MaxAttempts)) + 1
    BY <1>0, <1>1, <1>2, <1>3, <1>6, UptoOneMore
  <2>2. Cardinality(Upto(Posted, MaxAttempts))' = Cardinality(Upto(Posted', MaxAttempts))
    BY DEF Upto
  <2> QED BY <1>0, <1>6, <2>1, <2>2 DEF PostsCounted
<1>7. CASE posts' = posts /\ failures' = failures + 1 /\ Posted[j] = Posted'[j] + 1
  <2>1. Cardinality(Upto(Posted, MaxAttempts)) = Cardinality(Upto(Posted', MaxAttempts)) + 1
    BY <1>0, <1>1, <1>2, <1>4, <1>7, UptoOneMore
  <2>2. Cardinality(Upto(Posted, MaxAttempts))' = Cardinality(Upto(Posted', MaxAttempts))
    BY DEF Upto
  <2> QED BY <1>0, <1>7, <2>1, <2>2 DEF PostsCounted
<1> QED BY <1>5, <1>6, <1>7, WorkCounts DEF PostedStep

LEMMA EntriesCountedStep ==
  ASSUME DeliveryBase, DeliveryBase', EntriesCounted, NEW j \in Jobs, Work(j)
  PROVE  EntriesCounted'
<1> DEFINE left  == Cardinality(Upto(Left, 2))
           later == Cardinality(Upto(Left', 2))
<1>0. /\ posts \in Nat /\ posts' \in Nat /\ left \in Nat /\ later \in Nat
      /\ left' = later
  BY UptoFinite DEF DeliveryBase, DeliveryShape, Upto
<1>1. Left \in [Jobs -> Nat] /\ Left' \in [Jobs -> Nat]
  BY DEF Left
<1>2. \A k \in Jobs : k # j => job'[k] = job[k]
  BY WorkOK, OtherJob
<1>3. \A k \in Jobs \ {j} : Left'[k] = Left[k]
  BY <1>2 DEF Left
<1>4. /\ row.attempts \in Nat /\ row'.attempts \in Nat
      /\ \A k \in Jobs : job[k].seen \in Nat /\ job'[k].seen \in Nat
  BY DEF DeliveryBase, DeliveryShape, JobRow
<1>5. /\ row.attempts + left <= 2 * posts
      /\ \A k \in Jobs : job[k].seen + left <= 2 * posts
  BY DEF EntriesCounted
<1>6. SUFFICES /\ row'.attempts + later <= 2 * posts'
               /\ \A k \in Jobs : job'[k].seen + later <= 2 * posts'
  BY <1>0 DEF EntriesCounted
<1>7. Left[j] <= 2 /\ Left'[j] <= 2
  BY DEF Left
<1>8. CASE /\ posts' = posts + 1 /\ Left[j] = 0 /\ Left'[j] <= 2
           /\ row'.attempts = row.attempts /\ job'[j].seen = job[j].seen
  <2>1. later <= left + 2
    <3>1. CASE Left'[j] = 0
      <4>1. \A k \in Jobs : Left'[k] <= Left[k]
        BY <1>1, <1>3, <1>8, <3>1
      <4>2. later <= left
        BY <1>1, <4>1, UptoLess
      <4> HIDE DEF left, later
      <4> QED BY <1>0, <4>2
    <3>2. CASE Left'[j] = 1
      <4>1. later = left + 1
        BY <1>1, <1>3, <1>8, <3>2, UptoOneMore
      <4> HIDE DEF left, later
      <4> QED BY <1>0, <4>1
    <3>3. CASE Left'[j] = 2
      <4> DEFINE one == [Left EXCEPT ![j] = 1]
      <4>1. one \in [Jobs -> Nat] /\ one[j] = 1 /\ \A k \in Jobs \ {j} : one[k] = Left[k]
        BY <1>1
      <4> HIDE DEF one
      <4>2. Cardinality(Upto(one, 2)) = left + 1
        BY <1>1, <1>8, <4>1, UptoOneMore
      <4>3. \A k \in Jobs \ {j} : Left'[k] = one[k]
        BY <1>3, <4>1
      <4>4. later = Cardinality(Upto(one, 2)) + 1
        BY <1>1, <3>3, <4>1, <4>3, UptoOneMore
      <4> HIDE DEF left, later
      <4> QED BY <1>0, <4>2, <4>4
    <3> QED BY <1>1, <1>7, <3>1, <3>2, <3>3
  <2>2. \A k \in Jobs : job'[k].seen = job[k].seen
    BY <1>2, <1>8
  <2> HIDE DEF left, later
  <2> QED BY <1>0, <1>4, <1>5, <1>8, <2>1, <2>2
<1>9. CASE /\ posts' = posts /\ Left'[j] <= Left[j]
           /\ row'.attempts = row.attempts /\ job'[j].seen \in {0, row.attempts}
  <2>1. \A k \in Jobs : Left'[k] <= Left[k]
    BY <1>1, <1>3, <1>9
  <2>2. later <= left
    BY <1>1, <2>1, UptoLess
  <2>3. \A k \in Jobs : job'[k].seen \in {0, row.attempts, job[k].seen}
    BY <1>2, <1>9
  <2> HIDE DEF left, later
  <2> QED BY <1>0, <1>4, <1>5, <1>9, <2>2, <2>3
<1>10. CASE /\ posts' = posts /\ Left[j] = Left'[j] + 1
            /\ row'.attempts \in {row.attempts, job[j].seen + 1} /\ job'[j].seen = 0
  <2>1. left = later + 1
    BY <1>1, <1>3, <1>7, <1>10, UptoOneMore
  <2>2. \A k \in Jobs : job'[k].seen \in {0, job[k].seen}
    BY <1>2, <1>10
  <2> HIDE DEF left, later
  <2>3. row'.attempts + later <= 2 * posts'
    BY <1>0, <1>4, <1>5, <1>10, <2>1
  <2>4. ASSUME NEW k \in Jobs PROVE job'[k].seen + later <= 2 * posts'
    BY <1>0, <1>4, <1>5, <1>10, <2>1, <2>2
  <2> QED BY <2>3, <2>4
<1> QED BY <1>8, <1>9, <1>10, WorkCounts DEF LeftStep

LEMMA CountedStep ==
  ASSUME DeliveryBase, Counted, [DeliveryNext]_deliveryVars
  PROVE  Counted'
<1>0. /\ DeliveryBase' /\ job \in [Jobs -> JobRow] /\ posts \in Nat /\ failures \in Nat
      /\ row.attempts \in Nat /\ MaxAttempts \in Nat
      /\ Cardinality(Upto(Left, 2)) \in Nat
      /\ Cardinality(Upto(Posted, MaxAttempts)) \in Nat
  BY DeliveryBaseStep, WebhookAssumption, UptoFinite DEF DeliveryBase, DeliveryShape
<1>1. ASSUME NEW j \in Jobs, Work(j) PROVE Counted'
  BY <1>0, <1>1, PostsCountedStep, EntriesCountedStep DEF Counted
<1>2. ASSUME Posted' = Posted, Left' = Left, posts' = posts, failures' >= failures,
             failures' \in Nat,
             row'.attempts \in {0, row.attempts}, \A j \in Jobs : job'[j].seen = job[j].seen
      PROVE  Counted'
  <2>1. PostsCounted'
    BY <1>0, <1>2 DEF Counted, PostsCounted
  <2>2. EntriesCounted'
    BY <1>0, <1>2 DEF Counted, EntriesCounted
  <2> QED BY <2>1, <2>2 DEF Counted
<1>3. CASE EmitRow
  BY <1>0, <1>2, <1>3 DEF EmitRow, Posted, Left, Sent
<1>4. CASE EmitFail
  BY <1>0, <1>2, <1>4 DEF EmitFail, Posted, Left, Sent
<1>5. CASE DeleteWebhook
  BY <1>0, <1>2, <1>5 DEF DeleteWebhook, Posted, Left, Sent, NoRow
<1>6. CASE UNCHANGED deliveryVars
  BY <1>0, <1>2, <1>6 DEF deliveryVars, Posted, Left, Sent
<1>7. ASSUME NEW j \in Jobs, job[j] = NoJob, job' = [job EXCEPT ![j].state = "waiting"],
             UNCHANGED <<row, posts, failures>>
      PROVE  Counted'
  <2>1. \A k \in Jobs : /\ job'[k].seen = job[k].seen /\ job'[k].made = job[k].made
                        /\ job'[k].step = job[k].step
                        /\ job'[k].state = IF k = j THEN "waiting" ELSE job[k].state
    BY <1>0, <1>7 DEF JobRow
  <2>2. job[j].state = "none"
    BY <1>7 DEF NoJob
  <2>3. Posted' = Posted
    BY <2>1, <2>2 DEF Posted, Sent
  <2>4. Left' = Left
    BY <2>1, <2>2 DEF Left
  <2> QED BY <1>0, <1>2, <1>7, <2>1, <2>3, <2>4
<1>8. CASE EmitAdd
  <2>1. First \in Jobs /\ job[First] = NoJob
    BY <1>8 DEF EmitAdd, DeliveryBase, BeforeEmit, Jobs
  <2> QED BY <1>7, <1>8, <2>1 DEF EmitAdd
<1>9. ASSUME NEW j \in Replays, ReplayDelivery(j) PROVE Counted'
  BY <1>7, <1>9 DEF ReplayDelivery, Jobs
<1> QED BY <1>1, <1>3, <1>4, <1>5, <1>6, <1>8, <1>9, DeliverySteps

LEMMA CountsBound ==
  ASSUME DeliveryBase, Counted
  PROVE  /\ posts <= MaxPosts /\ MaxPosts \in Nat
         /\ row.attempts <= 2 * MaxPosts
         /\ \A j \in Jobs : job[j].seen <= 2 * MaxPosts
<1> DEFINE C == Cardinality(Jobs)
           U == Cardinality(Upto(Posted, MaxAttempts))
           R == Cardinality(Upto(Left, 2))
<1>0. /\ posts \in Nat /\ failures \in Nat /\ failures <= MaxFailures
      /\ MaxAttempts \in Nat /\ MaxFailures \in Nat
      /\ row.attempts \in Nat /\ \A j \in Jobs : job[j].seen \in Nat
  BY WebhookAssumption DEF DeliveryBase, DeliveryShape, JobRow
<1>1. C \in Nat /\ C >= 1 /\ U \in Nat /\ U <= C * MaxAttempts /\ R \in Nat
  BY <1>0, JobsFinite, UptoFinite
<1>2. /\ posts <= U + failures
      /\ row.attempts + R <= 2 * posts
      /\ \A j \in Jobs : job[j].seen + R <= 2 * posts
  BY DEF Counted, PostsCounted, EntriesCounted
<1>3. MaxPosts = C * (MaxAttempts + MaxFailures)
  BY DEF MaxPosts
<1> HIDE DEF C, U, R
<1>4. C * (MaxAttempts + MaxFailures) = C * MaxAttempts + C * MaxFailures
      /\ C * MaxAttempts \in Nat /\ C * MaxFailures \in Nat
  BY <1>0, <1>1
<1>5. C * MaxFailures >= MaxFailures
  <2>1. PICK c \in Nat : C = c + 1
    <3>1. C - 1 \in Nat
      BY <1>1
    <3> QED BY <1>1, <3>1
  <2>2. C * MaxFailures = c * MaxFailures + MaxFailures /\ c * MaxFailures \in Nat
    BY <1>0, <2>1
  <2> QED BY <1>0, <2>2
<1>6. posts <= MaxPosts /\ MaxPosts \in Nat
  BY <1>0, <1>1, <1>2, <1>3, <1>4, <1>5
<1> QED BY <1>0, <1>1, <1>2, <1>6

\* However jobs and replays overlap and fail: the types, and that the attempts of
\* the jobs bound the POSTs, and the POSTs the entries of the array.
THEOREM DeliveryTyped == DeliverySpec => []DeliveryTypeOK
<1>1. DeliveryInit => DeliveryBase /\ Counted
  BY DeliveryBaseInit, CountedInit
<1>2. DeliveryBase /\ Counted /\ [DeliveryNext]_deliveryVars => (DeliveryBase /\ Counted)'
  BY DeliveryBaseStep, CountedStep
<1>3. DeliveryBase /\ Counted => DeliveryTypeOK
  <2> SUFFICES ASSUME DeliveryBase, Counted PROVE DeliveryTypeOK
    OBVIOUS
  <2>0. /\ DeliveryShape /\ MaxPosts \in Nat /\ MaxAttempts \in Nat
        /\ 2 * MaxPosts \in Nat
    BY CountsBound, WebhookAssumption DEF DeliveryBase
  <2>1. row.attempts \in 0 .. 2 * MaxPosts /\ posts \in 0 .. MaxPosts
    BY <2>0, CountsBound DEF DeliveryShape
  <2>2. row \in [status : {"none", "pending", "delivered", "dead_lettered"},
                 attempts : 0 .. 2 * MaxPosts]
    <3>1. row \in [status : {"none", "pending", "delivered", "dead_lettered"},
                   attempts : Nat]
      BY <2>0 DEF DeliveryShape
    <3> QED BY <2>1, <3>1
  <2>3. ASSUME NEW j \in Jobs
        PROVE  job[j] \in
          [state : {"none", "waiting", "active", "completed", "failed"},
           step : {"post"} \cup Trying \cup Catching,
           response : {"none", "ok", "refused", "busy"},
           made : 0 .. MaxAttempts, stalled : BOOLEAN, seen : 0 .. 2 * MaxPosts]
    <3>1. job[j] \in JobRow /\ job[j].made <= MaxAttempts
      BY <2>0 DEF DeliveryBase, DeliveryShape, JobsInOrder
    <3>2. job[j].made \in Nat /\ job[j].seen \in Nat
      BY <3>1 DEF JobRow
    <3>3. job[j].made \in 0 .. MaxAttempts /\ job[j].seen \in 0 .. 2 * MaxPosts
      BY <2>0, <3>1, <3>2, CountsBound
    <3> QED BY <3>1, <3>3 DEF JobRow, JobState, JobStep
  <2> QED BY <2>0, <2>1, <2>2, <2>3 DEF DeliveryTypeOK, DeliveryShape
<1> QED BY <1>1, <1>2, <1>3, PTL DEF DeliverySpec

=============================================================================
