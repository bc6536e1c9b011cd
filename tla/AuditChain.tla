----------------------------- MODULE AuditChain -----------------------------
(***************************************************************************)
(* AuditService of the backend: the audit events of one tenant.  Every     *)
(* process keeps the tip of the chain in memory, reads it when record() is *)
(* called and replaces it after the awaited INSERT.  Callers do not always *)
(* wait (`void this.audit.record(...)`), so calls overlap.                 *)
(***************************************************************************)
EXTENDS HashChain

CONSTANTS
    Processes,  \* the API and the worker
    Calls,      \* calls of record() that may be in flight
    Faults,     \* what may go wrong: a subset of AllFaults
    MaxFaults,  \* bound: of each kind of fault
    MaxEvents,  \* bound: calls of record()
    Limit,      \* how many rows verifyHashChain takes (10000)
    None

AllFaults == {"overlap", "restart", "lost answer", "declare", "corrupt"}

ASSUME AuditAssumption ==
    /\ Faults \subseteq AllFaults
    /\ {MaxFaults, MaxEvents, Limit} \subseteq Nat

VARIABLES
    rows,    \* audit_events
    tip,     \* tip[p]: lastHashByTenant and lastSequenceByTenant of process p
    call,    \* call[c]: the row that c computed, and how far it got
    issued,  \* how many hashes were computed
    faults   \* faults[k]: how often k went wrong

vars == <<rows, tip, call, issued, faults>>

NoCall == [step |-> "idle", proc |-> None, row |-> None]

Init ==
    /\ rows = {}
    /\ tip = [p \in Processes |-> NoTip]
    /\ call = [c \in Calls |-> NoCall]
    /\ issued = 0
    /\ faults = [k \in AllFaults |-> 0]

Fault(k) ==
    /\ k \in Faults
    /\ faults[k] < MaxFaults
    /\ faults' = [faults EXCEPT ![k] = @ + 1]

-----------------------------------------------------------------------------

\* No call is in flight, and no other process has written.
Alone(p) == call = [c \in Calls |-> NoCall] /\ \A q \in Processes \ {p} : tip[q] = NoTip

\* record() up to its INSERT: tip and hash.
Record(c, p) ==
    /\ call[c] = NoCall
    /\ issued < MaxEvents
    /\ \/ Alone(p) /\ UNCHANGED faults
       \/ ~Alone(p) /\ Fault("overlap")
    /\ issued' = issued + 1
    /\ call' = [call EXCEPT ![c] =
                  [step |-> "insert", proc |-> p,
                   row |-> [id |-> issued + 1, seq |-> tip[p].seq + 1,
                            prev |-> tip[p].hash, sound |-> TRUE]]]
    /\ UNCHANGED <<rows, tip>>

Insert(c) ==
    /\ call[c].step = "insert"
    /\ rows' = rows \cup {call[c].row}
    /\ call' = [call EXCEPT ![c].step = "remember"]
    /\ UNCHANGED <<tip, issued, faults>>

\* Faulty: only the hash moves on.
RememberHash(c) ==
    /\ call[c].step = "remember"
    /\ tip' = [tip EXCEPT ![call[c].proc].hash = call[c].row.id]
    /\ call' = [call EXCEPT ![c] = NoCall]
    /\ UNCHANGED <<rows, issued, faults>>

Remember(c) ==
    /\ call[c].step = "remember"
    /\ tip' = [tip EXCEPT ![call[c].proc] =
                 [hash |-> call[c].row.id, seq |-> call[c].row.seq]]
    /\ call' = [call EXCEPT ![c] = NoCall]
    /\ UNCHANGED <<rows, issued, faults>>

\* Faulty: the tip moves although nothing was written.
RejectRemember(c) ==
    /\ call[c].step = "insert"
    /\ tip' = [tip EXCEPT ![call[c].proc] =
                 [hash |-> call[c].row.id, seq |-> call[c].row.seq]]
    /\ call' = [call EXCEPT ![c] = NoCall]
    /\ UNCHANGED <<rows, issued, faults>>

\* The INSERT rejects; record() logs it and returns.
Reject(c) ==
    /\ call[c].step = "insert"
    /\ call' = [call EXCEPT ![c] = NoCall]
    /\ UNCHANGED <<rows, tip, issued, faults>>

\* The INSERT commits but its answer is lost, which looks like a rejection.
AnswerLost(c) ==
    /\ call[c].step = "insert"
    /\ Fault("lost answer")
    /\ rows' = rows \cup {call[c].row}
    /\ call' = [call EXCEPT ![c] = NoCall]
    /\ UNCHANGED <<tip, issued>>

\* A process dies and comes back with empty maps: nothing reads the table.
Restart(p) ==
    /\ Fault("restart")
    /\ tip' = [tip EXCEPT ![p] = NoTip]
    /\ call' = [c \in Calls |-> IF call[c].proc = p THEN NoCall ELSE call[c]]
    /\ UNCHANGED <<rows, issued>>

\* DocumentService.declareAsRecord inserts an audit row of its own: number 0,
\* no predecessor, and a hash of something else.
Declare ==
    /\ Fault("declare")
    /\ issued' = issued + 1
    /\ rows' = rows \cup {[id |-> issued + 1, seq |-> 0, prev |-> 0, sound |-> FALSE]}
    /\ UNCHANGED <<tip, call>>

\* A stored row is modified behind the service's back.
Corrupt(e) ==
    /\ Fault("corrupt")
    /\ e \in rows
    /\ rows' = (rows \ {e}) \cup {[e EXCEPT !.sound = FALSE]}
    /\ UNCHANGED <<tip, call, issued>>

Next ==
    \/ \E c \in Calls, p \in Processes : Record(c, p)
    \/ \E c \in Calls : Insert(c) \/ Remember(c) \/ Reject(c) \/ AnswerLost(c)
    \/ \E p \in Processes : Restart(p)
    \/ Declare
    \/ \E e \in rows : Corrupt(e)

Spec == Init /\ [][Next]_vars

-----------------------------------------------------------------------------

TypeOK ==
    /\ rows \subseteq Row
    /\ tip \in [Processes -> Tip]
    /\ call \in [Calls -> [step : {"idle", "insert", "remember"},
                           proc : Processes \cup {None}, row : Row \cup {None}]]
    /\ issued \in Nat
    /\ faults \in [AllFaults -> 0 .. MaxFaults]

\* Nothing happened that the service is not made for.
Undisturbed == \A k \in AllFaults \ {"corrupt"} : faults[k] = 0

\* While one process makes one call at a time and is not restarted: the chain
\* is found broken exactly when a row of it does not match its hash, whichever
\* of the INSERTs failed.
BrokenIffUnsound == Undisturbed => (Verifies(rows, Limit) <=> \A e \in rows : e.sound)

\* Whatever overlaps, restarts or gets lost: every row of record() is the first
\* or links to a stored row with the number before its own.
AllLinked == \A e \in rows : e.seq # 0 => Linked(rows, e)

\* Every call in flight will link to a row that is there.
TipStored ==
    \A p \in Processes :
        tip[p] = NoTip \/ \E e \in rows : tip[p] = [hash |-> e.id, seq |-> e.seq]

=============================================================================
