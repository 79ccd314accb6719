-------------------------- MODULE LogStreamProofs --------------------------
(***************************************************************************)
(* Proofs about LogStream for any workers, any number of entries, any      *)
(* trimming bound and any number of faults.  What a goroutine holds was    *)
(* delivered, and what it acknowledges has its row.                        *)
(***************************************************************************)
EXTENDS LogStream, FiniteSetTheorems, TLAPS

\* Nothing is handled that was not handed out.
Handed == \A t \in Threads : work[t] \subseteq 1 .. delivered

\* A goroutine about to acknowledge an entry has seen its row written.
Acking ==
  \A t \in Threads : stage[t] = "ack" => \E i \in Entries : Current(t, i) /\ rows[i] = 1

IInv == TypeOK /\ Handed /\ Acking /\ AckedIsStored

\* What XREADGROUP hands out: entries of the stream not yet delivered, and
\* none between them that the stream still has is passed over.
LEMMA ReadsWithoutGaps ==
  ASSUME TypeOK, StreamAssumption,
         NEW last \in NextEntries, NEW i \in delivered + 1 .. last, i >= first
  PROVE  i \in NextEntries
<1> DEFINE Upto(n) == {j \in delivered + 1 .. n : j >= first}
<1>1. last \in Nat /\ i \in Nat /\ delivered \in Nat /\ published \in Nat
      /\ last <= published
  BY StreamAssumption DEF TypeOK, NextEntries, StreamAssumption
<1>2. Upto(i) \subseteq Upto(last)
  BY <1>1
<1>3. IsFiniteSet(Upto(last))
  <2>1. IsFiniteSet(delivered + 1 .. last)
    BY <1>1, FS_Interval
  <2>2. Upto(last) \subseteq delivered + 1 .. last
    OBVIOUS
  <2> QED
    BY <2>1, <2>2, FS_Subset
<1>4. IsFiniteSet(Upto(i)) /\ Cardinality(Upto(i)) <= Cardinality(Upto(last))
  BY <1>2, <1>3, FS_Subset
<1>5. Cardinality(Upto(i)) \in Nat /\ Cardinality(Upto(last)) \in Nat
  BY <1>3, <1>4, FS_CardinalityType
<1>6. Cardinality(Upto(last)) <= Count
  BY DEF NextEntries
<1> QED
  BY <1>1, <1>4, <1>5, <1>6, StreamAssumption DEF NextEntries, StreamAssumption

LEMMA InitIInv == Init => IInv
BY StreamAssumption
   DEF StreamAssumption, Init, IInv, TypeOK, Handed, Acking, AckedIsStored,
       Entries, Start

LEMMA DeliverIInv ==
  ASSUME IInv, NEW w \in Workers, Read(w) \/ ReadFails(w)
  PROVE  IInv'
<1> USE StreamAssumption DEF StreamAssumption, IInv, TypeOK, Entries, Threads
<1>1. /\ delivered' \in NextEntries
      /\ pending' = pending \union NextEntries
      /\ UNCHANGED <<published, first, stale, rows, stage>>
      /\ \A i \in NextEntries : i <= delivered'
  BY DEF Read, ReadFails, Deliver, Collect
<1>2. NextEntries \subseteq delivered + 1 .. published
  BY DEF NextEntries
<1>3. delivered' \in Nat /\ delivered < delivered' /\ delivered' <= published
  BY <1>1, <1>2
<1>4. <<w, "read">> \in Threads
  OBVIOUS
<1> DEFINE t == <<w, "read">>
<1>5. \/ work' = work
      \/ work' = [work EXCEPT ![t] = NextEntries]
  BY DEF Read, ReadFails, Collect
<1>6. NextEntries \subseteq 1 .. delivered' /\ 1 .. delivered \subseteq 1 .. delivered'
  BY <1>1, <1>2, <1>3
<1>7. TypeOK'
  <2>1. faults' \in 0 .. MaxFaults
    BY DEF Read, ReadFails, Fault
  <2>2. NextEntries \in SUBSET Entries
    BY <1>2
  <2>3. work' \in [Threads -> SUBSET Entries]
    BY <1>5, <2>2
  <2> QED
    BY <1>1, <1>3, <1>6, <2>1, <2>3
<1>8. Handed'
  BY <1>5, <1>6 DEF Handed
<1>9. Acking'
  <2> SUFFICES ASSUME NEW s \in Threads, stage'[s] = "ack"
               PROVE  \E i \in Entries : Current(s, i)' /\ rows'[i] = 1
    BY DEF Acking
  <2>1. PICK i \in Entries : Current(s, i) /\ rows[i] = 1
    BY <1>1 DEF Acking
  <2>2. work'[s] = work[s]
    BY <2>1 DEF Read, ReadFails, Collect, Current
  <2> QED
    BY <1>1, <2>1, <2>2 DEF Current
<1>10. AckedIsStored'
  <2> SUFFICES ASSUME NEW i \in 1 .. delivered', i \notin pending'
               PROVE  rows[i] = 1 \/ i < first
    BY <1>1 DEF AckedIsStored
  <2>1. CASE i <= delivered
    BY <1>1, <1>3, <2>1 DEF AckedIsStored
  <2>2. CASE i > delivered
    BY <1>1, <1>3, <2>2, ReadsWithoutGaps
  <2> QED
    BY <1>3, <2>1, <2>2
<1> QED
  BY <1>7, <1>8, <1>9, <1>10

\* The steps of a loop over one entry.
LEMMA HandleIInv ==
  ASSUME IInv, NEW t \in Threads, NEW i \in Entries, Handle(t, i)
  PROVE  IInv'
<1> USE StreamAssumption DEF StreamAssumption, Entries
<1>1. /\ UNCHANGED <<published, first, delivered>>
      /\ \/ rows' = rows
         \/ rows' = [rows EXCEPT ![i] = 1]
      /\ \/ work' = work
         \/ work' = [work EXCEPT ![t] = @ \ {i}]
      /\ \E to \in {"claim", "handle", "ack"} : stage' = [stage EXCEPT ![t] = to]
      /\ Current(t, i)
  BY DEF Handle, Claim, ClaimNothing, ClaimFails, Store, StoreTwice, StoreFails,
         Ack, AckFails, Proceed, Finish, Start, groupVars
<1>2. /\ pending' \subseteq pending
      /\ stale' \subseteq pending'
      /\ faults' \in 0 .. MaxFaults
  <2>1. stale \subseteq pending /\ faults \in 0 .. MaxFaults
    BY DEF IInv, TypeOK
  <2>2. pending' \subseteq pending /\ stale' \subseteq pending'
    BY <2>1 DEF Handle, Claim, ClaimNothing, ClaimFails, Store, StoreTwice,
            StoreFails, Ack, AckFails, groupVars
  <2>3. faults' = faults \/ Fault
    BY DEF Handle, Claim, ClaimNothing, ClaimFails, Store, StoreTwice, StoreFails,
           Ack, AckFails
  <2> QED
    BY <2>1, <2>2, <2>3 DEF Fault
<1>3. TypeOK'
  <2> USE DEF IInv, TypeOK
  <2>1. rows' \in [Entries -> 0 .. 1]
    BY <1>1
  <2>2. work' \in [Threads -> SUBSET Entries]
    BY <1>1
  <2>3. stage' \in [Threads -> {"claim", "handle", "ack"}]
    BY <1>1
  <2> QED
    BY <1>1, <1>2, <2>1, <2>2, <2>3
<1>4. Handed'
  BY <1>1 DEF IInv, TypeOK, Handed
<1>5. Acking'
  <2> SUFFICES ASSUME NEW s \in Threads, stage'[s] = "ack"
               PROVE  \E j \in Entries : Current(s, j)' /\ rows'[j] = 1
    BY DEF Acking
  <2>1. CASE s # t
    <3>1. stage[s] = "ack" /\ work'[s] = work[s]
      BY <1>1, <2>1 DEF IInv, TypeOK
    <3>2. PICK j \in Entries : Current(s, j) /\ rows[j] = 1
      BY <3>1 DEF IInv, Acking
    <3>3. rows'[j] = 1
      BY <1>1, <3>2 DEF IInv, TypeOK
    <3> QED
      BY <3>1, <3>2, <3>3 DEF Current
  <2>2. CASE s = t
    <3>1. Store(t, i)
      BY <2>2 DEF Handle, Claim, ClaimNothing, ClaimFails, Store, StoreTwice,
              StoreFails, Ack, AckFails, Proceed, Finish, Start, IInv, TypeOK
    <3> QED
      BY <1>1, <2>2, <3>1 DEF Store, Proceed, Current, IInv, TypeOK
  <2> QED
    BY <2>1, <2>2
<1>6. AckedIsStored'
  <2> SUFFICES ASSUME NEW j \in 1 .. delivered, j \notin pending'
               PROVE  rows'[j] = 1 \/ j < first
    BY <1>1 DEF AckedIsStored
  <2>1. j \in Entries
    BY DEF IInv, TypeOK
  <2>2. CASE j \notin pending
    BY <1>1, <2>1, <2>2 DEF IInv, TypeOK, AckedIsStored
  <2>3. CASE j \in pending
    <3>1. j = i /\ (Ack(t, i) \/ i < first)
      BY <2>3 DEF Handle, Claim, ClaimNothing, ClaimFails, Store, StoreTwice,
              StoreFails, Ack, AckFails, groupVars
    <3>2. CASE Ack(t, i)
      <4>1. PICK k \in Entries : Current(t, k) /\ rows[k] = 1
        BY <3>2 DEF Ack, IInv, Acking
      <4>2. k = i
        BY <1>1, <4>1 DEF Current
      <4> QED
        BY <3>1, <3>2, <4>1, <4>2 DEF Ack
    <3> QED
      BY <3>1, <3>2
  <2> QED
    BY <2>2, <2>3
<1> QED
  BY <1>3, <1>4, <1>5, <1>6 DEF IInv

LEMMA NextIInv == IInv /\ [Next]_vars => IInv'
<1> SUFFICES ASSUME IInv, [Next]_vars PROVE IInv'
  OBVIOUS
<1> USE StreamAssumption DEF StreamAssumption, groupVars
<1>1. CASE Publish
  BY <1>1 DEF Publish, Trimmed, IInv, TypeOK, Entries, Handed, Acking,
              AckedIsStored, Current
<1>2. ASSUME NEW w \in Workers, List(w) PROVE IInv'
  <2> DEFINE t == <<w, "recover">>
  <2>1. t \in Threads
    BY DEF Threads
  <2>2. /\ work' = [work EXCEPT ![t] = IdleEntries] /\ work[t] = {}
        /\ UNCHANGED <<published, first, delivered, pending, stale, rows, stage,
                       faults>>
    BY <1>2 DEF List, Collect
  <2>3. IdleEntries \subseteq 1 .. delivered /\ IdleEntries \in SUBSET Entries
    <3>1. stale \subseteq 1 .. delivered /\ stale \subseteq Entries
      BY DEF IInv, TypeOK, Entries
    <3>2. IdleEntries \subseteq stale
      BY DEF IdleEntries
    <3> QED
      BY <3>1, <3>2
  <2>4. TypeOK' /\ Handed'
    BY <2>1, <2>2, <2>3 DEF IInv, TypeOK, Handed
  <2>5. Acking'
    BY <2>1, <2>2 DEF IInv, TypeOK, Acking, Current
  <2> QED
    BY <2>2, <2>4, <2>5 DEF IInv, AckedIsStored
<1>3. ASSUME NEW w \in Workers, Crash(w) PROVE IInv'
  BY <1>3 DEF Crash, Fault, Start, IInv, TypeOK, Entries, Handed, Acking,
              AckedIsStored, Current
<1>4. ASSUME NEW i \in Entries, Idle(i) PROVE IInv'
  BY <1>4 DEF Idle, IInv, TypeOK, Entries, Handed, Acking, AckedIsStored, Current
<1>5. CASE UNCHANGED vars
  BY <1>5 DEF vars, IInv, TypeOK, Entries, Handed, Acking, AckedIsStored, Current
<1> QED
  BY <1>1, <1>2, <1>3, <1>4, <1>5, DeliverIInv, HandleIInv DEF Next

LEMMA Inductive == Safety => []IInv
BY InitIInv, NextIInv, PTL DEF Safety

\* Every reachable state is well typed; in particular no entry has two rows.
THEOREM TypeCorrect == Safety => []TypeOK
BY Inductive, PTL DEF IInv

\* Whatever crashes and fails, an entry leaves the pending list only with its
\* row written or by having been trimmed.
THEOREM NothingAckedIsLost == Safety => []AckedIsStored
BY Inductive, PTL DEF IInv

\* Every step of workers, stream and database adds an entry, stores one that
\* was not stored before, or changes nothing the abstract log shows.
THEOREM RefinesLogSpec == Safety => Promise!Safety
<1>1. Init => Promise!Init
  BY DEF Init, Promise!Init, Entries
<1>2. IInv /\ [Next]_vars => [Promise!Next]_Promise!vars
  <2> SUFFICES ASSUME IInv, [Next]_vars
               PROVE  [Promise!Next]_Promise!vars
    OBVIOUS
  <2> USE StreamAssumption
      DEF StreamAssumption, IInv, TypeOK, Entries, Promise!vars, groupVars
  <2>1. CASE Publish
    BY <2>1 DEF Publish, Trimmed, Promise!Next, Promise!Add
  <2>2. ASSUME NEW t \in Threads, NEW i \in Entries, Handle(t, i)
        PROVE  [Promise!Next]_Promise!vars
    <3>1. i <= published
      BY <2>2 DEF Handle, Claim, ClaimNothing, ClaimFails, Store, StoreTwice,
              StoreFails, Ack, AckFails, Current, Handed
    <3>2. CASE rows' = rows
      BY <2>2, <3>2 DEF Handle, Claim, ClaimNothing, ClaimFails, Store, StoreTwice,
              StoreFails, Ack, AckFails
    <3>3. CASE rows' = [rows EXCEPT ![i] = 1] /\ rows[i] = 0
      <4>1. {j \in Entries : rows'[j] > 0} = {j \in Entries : rows[j] > 0} \union {i}
        BY <3>3
      <4>2. UNCHANGED <<published, first>>
        BY <2>2 DEF Handle, Claim, ClaimNothing, ClaimFails, Store, StoreTwice,
                StoreFails, Ack, AckFails
      <4> QED
        BY <3>1, <3>3, <4>1, <4>2 DEF Promise!Next, Promise!Store, Promise!Entries
    <3> QED
      BY <2>2, <3>2, <3>3 DEF Handle, Claim, ClaimNothing, ClaimFails, Store,
              StoreTwice, StoreFails, Ack, AckFails
  <2>3. ASSUME NEW w \in Workers, Read(w) \/ ReadFails(w) \/ List(w) \/ Crash(w)
        PROVE  UNCHANGED Promise!vars
    BY <2>3 DEF Read, ReadFails, Deliver, List, Crash
  <2>4. ASSUME NEW i \in Entries, Idle(i)
        PROVE  UNCHANGED Promise!vars
    BY <2>4 DEF Idle
  <2>5. CASE UNCHANGED vars
    BY <2>5 DEF vars
  <2> QED
    BY <2>1, <2>2, <2>3, <2>4, <2>5 DEF Next
<1> QED
  BY <1>1, <1>2, Inductive, PTL DEF Safety, Promise!Safety
=============================================================================
