---------------------------- MODULE LicenseAudit ----------------------------
(***************************************************************************)
(* AuditService of the license server: one global chain, whose tip the     *)
(* process reads from the table when it boots, without waiting for it.     *)
(***************************************************************************)
EXTENDS HashChain, Sequences

CONSTANTS
    Calls,      \* calls of record() that may be in flight
    Metadata,   \* the metadata of the calls: keys in the order they are written
    Faults,     \* what may go wrong: a subset of AllFaults
    MaxFaults,  \* bound: of each kind of fault
    MaxEvents,  \* bound: calls of record()
    Limit,      \* how many rows verifyHashChain takes (50000)
    None

AllFaults == {"overlap", "restart", "late rehydration", "failed rehydration", "lost answer", "corrupt"}

ASSUME LicenseAuditAssumption ==
    /\ Faults \subseteq AllFaults
    /\ {MaxFaults, MaxEvents, Limit} \subseteq Nat

VARIABLES
    rows,    \* lic_audit_logs
    tip,     \* lastHash and lastSequence
    boot,    \* how far rehydrateChain got, and what it read
    call,    \* call[c]: the row that c computed, and how far it got
    issued,  \* how many hashes were computed
    faults   \* faults[k]: how often k went wrong

vars == <<rows, tip, boot, call, issued, faults>>

NoCall == [step |-> "idle", row |-> None]

Booting == [step |-> "start", tip |-> NoTip]

Init ==
    /\ rows = {}
    /\ tip = NoTip
    /\ boot = Booting
    /\ call = [c \in Calls |-> NoCall]
    /\ issued = 0
    /\ faults = [k \in AllFaults |-> 0]

Fault(k) ==
    /\ k \in Faults
    /\ faults[k] < MaxFaults
    /\ faults' = [faults EXCEPT ![k] = @ + 1]

-----------------------------------------------------------------------------
(* rehydrateChain, from the constructor.                                   *)

TipOf(e) == [hash |-> e.id, seq |-> e.seq]

\* Faulty: ORDER BY ... ASC.
Oldest == {e \in rows : \A f \in rows : e.seq <= f.seq}

\* The rows that ORDER BY sequenceNumber DESC may put first.
Newest == {e \in rows : \A f \in rows : f.seq <= e.seq}

RehydrateRead ==
    /\ boot.step = "start"
    /\ \E t \in IF rows = {} THEN {NoTip} ELSE {TipOf(e) : e \in Newest} :
         boot' = [step |-> "read", tip |-> t]
    /\ UNCHANGED <<rows, tip, call, issued, faults>>

\* Without a row the fields are left as they are.
RehydrateSet ==
    /\ boot.step = "read"
    /\ tip' = IF boot.tip = NoTip THEN tip ELSE boot.tip
    /\ boot' = [step |-> "done", tip |-> NoTip]
    /\ UNCHANGED <<rows, call, issued, faults>>

\* The query rejects: logged, and never tried again.
RehydrateFail ==
    /\ boot.step = "start"
    /\ Fault("failed rehydration")
    /\ boot' = [boot EXCEPT !.step = "failed"]
    /\ UNCHANGED <<rows, tip, call, issued>>

-----------------------------------------------------------------------------
(* record().                                                               *)

\* A JSONB column keeps the keys of an object by length, then bytewise.
JsonbOrder == <<"name", "email", "reason", "result", "targetId", "crlVersion", "revocationId">>

\* JSON.stringify of what the column returns is JSON.stringify of what was
\* hashed.
Stable(keys) ==
    keys = SelectSeq(JsonbOrder, LAMBDA k : \E i \in DOMAIN keys : keys[i] = k)

Alone == call = [c \in Calls |-> NoCall]

\* record() up to its INSERT.  It waits 5 x 50 ms for the rehydration and then
\* goes on; after a failed one `rehydrated` never becomes true.
Record(c, keys) ==
    /\ call[c] = NoCall
    /\ issued < MaxEvents
    /\ \/ boot.step \in {"done", "failed"} /\ Alone /\ UNCHANGED faults
       \/ boot.step \in {"done", "failed"} /\ ~Alone /\ Fault("overlap")
       \/ boot.step \in {"start", "read"} /\ Fault("late rehydration")
    /\ issued' = issued + 1
    /\ call' = [call EXCEPT ![c] =
                  [step |-> "insert",
                   row |-> [id |-> issued + 1, seq |-> tip.seq + 1,
                            prev |-> tip.hash, sound |-> Stable(keys)]]]
    /\ UNCHANGED <<rows, tip, boot>>

Insert(c) ==
    /\ call[c].step = "insert"
    /\ rows' = rows \cup {call[c].row}
    /\ call' = [call EXCEPT ![c].step = "remember"]
    /\ UNCHANGED <<tip, boot, issued, faults>>

Remember(c) ==
    /\ call[c].step = "remember"
    /\ tip' = TipOf(call[c].row)
    /\ call' = [call EXCEPT ![c] = NoCall]
    /\ UNCHANGED <<rows, boot, issued, faults>>

\* Faulty: the tip moves although nothing was written.
RejectRemember(c) ==
    /\ call[c].step = "insert"
    /\ tip' = TipOf(call[c].row)
    /\ call' = [call EXCEPT ![c] = NoCall]
    /\ UNCHANGED <<rows, boot, issued, faults>>

\* The INSERT rejects; record() logs it and returns.
Reject(c) ==
    /\ call[c].step = "insert"
    /\ call' = [call EXCEPT ![c] = NoCall]
    /\ UNCHANGED <<rows, tip, boot, issued, faults>>

\* The INSERT commits but its answer is lost, which looks like a rejection.
AnswerLost(c) ==
    /\ call[c].step = "insert"
    /\ Fault("lost answer")
    /\ rows' = rows \cup {call[c].row}
    /\ call' = [call EXCEPT ![c] = NoCall]
    /\ UNCHANGED <<tip, boot, issued>>

-----------------------------------------------------------------------------

Restart ==
    /\ Fault("restart")
    /\ tip' = NoTip
    /\ boot' = Booting
    /\ call' = [c \in Calls |-> NoCall]
    /\ UNCHANGED <<rows, issued>>

\* A stored row is modified behind the service's back.
Corrupt(e) ==
    /\ Fault("corrupt")
    /\ rows' = (rows \ {e}) \cup {[e EXCEPT !.sound = FALSE]}
    /\ UNCHANGED <<tip, boot, call, issued>>

Next ==
    \/ RehydrateRead \/ RehydrateSet \/ RehydrateFail
    \/ \E c \in Calls : \/ \E keys \in Metadata : Record(c, keys)
                        \/ Insert(c) \/ Remember(c) \/ Reject(c) \/ AnswerLost(c)
    \/ Restart
    \/ \E e \in rows : Corrupt(e)

Spec == Init /\ [][Next]_vars

-----------------------------------------------------------------------------

TypeOK ==
    /\ rows \subseteq Row
    /\ tip \in Tip
    /\ boot \in [step : {"start", "read", "done", "failed"}, tip : Tip]
    /\ call \in [Calls -> [step : {"idle", "insert", "remember"}, row : Row \cup {None}]]
    /\ issued \in Nat
    /\ faults \in [AllFaults -> 0 .. MaxFaults]

\* verifyHashChain, which also wants the numbers 1, 2, 3, ...
VerifyHashChain ==
    /\ Verifies(rows, Limit)
    /\ \A e \in Taken(rows, Limit) : e.seq = Cardinality(Before(rows, e)) + 1

\* Nothing happened but restarts and modified rows.
Undisturbed == \A k \in AllFaults \ {"restart", "corrupt"} : faults[k] = 0

\* While calls come one at a time, rehydrations in time and answers arrive: the
\* chain is found broken exactly when a row of it does not match its hash,
\* through restarts between any two steps.
BrokenIffUnsound == Undisturbed => (VerifyHashChain <=> \A e \in rows : e.sound)

\* The table as a log: its rows by number, and by age where numbers are equal.
Position(e) ==
    Cardinality({f \in rows : f.seq < e.seq \/ (f.seq = e.seq /\ f.id <= e.id)})

Log == [i \in 1 .. Cardinality(rows) |->
          LET e == CHOOSE f \in rows : Position(f) = i
          IN  [hash |-> e.id, prev |-> e.prev]]

Table == INSTANCE AppendOnlyLog WITH Hashes <- 1 .. MaxEvents, log <- Log

\* Under the same conditions the table implements the append-only log.
GrowsAtEnd ==
    /\ Undisturbed => Table!Init
    /\ [][Undisturbed' => (Table!Next \/ UNCHANGED Log)]_vars

\* Whatever overlaps, restarts, gets lost or comes late: every row is the first
\* or links to a stored row with the number before its own.
AllLinked == \A e \in rows : Linked(rows, e)

\* Every call in flight will link to a row that is there.
TipStored == tip = NoTip \/ \E e \in rows : tip = TipOf(e)

=============================================================================
