----------------------- MODULE TransactionFlowProofs ------------------------
(***************************************************************************)
(* Proofs about TransactionFlow: the queues of one controller never lose,  *)
(* duplicate or reorder a transaction, for every configuration, set of     *)
(* addresses and bound on outstanding transactions.                        *)
(***************************************************************************)
EXTENDS TransactionFlow, SequenceTheorems, WellFoundedInduction, TLAPS

-----------------------------------------------------------------------------
(* Sequences. *)

(* A non-empty set of naturals has a least element: the loops that look for *)
(* the first match are defined.                                             *)
LEMMA MinExists ==
  ASSUME NEW S \in SUBSET Nat, S # {}
  PROVE \E i \in S : \A j \in S : i <= j
<1>1. IsWellFoundedOn(OpToRel(<, Nat), Nat)
  BY Zenon, NatLessThanWellFounded
<1>2. PICK i \in S : \A j \in S : ~(<<j, i>> \in OpToRel(<, Nat))
  BY Zenon, <1>1, WFMin
<1>3. \A j \in S : ~(j < i)
  BY Zenon, <1>2 DEF OpToRel
<1> QED BY <1>3

(* push_back adds one element. *)
LEMMA RangeAppend ==
  ASSUME NEW T, NEW s \in Seq(T), NEW e \in T
  PROVE  /\ Append(s, e) \in Seq(T)
         /\ Len(Append(s, e)) = Len(s) + 1
         /\ Range(Append(s, e)) = Range(s) \cup {e}
         /\ IsInjective(s) /\ e \notin Range(s) => IsInjective(Append(s, e))
  BY DEF Range, IsInjective

(* erase moves the later elements forward. *)
LEMMA RemoveAtElements ==
  ASSUME NEW T, NEW s \in Seq(T), NEW i \in DOMAIN s
  PROVE  /\ RemoveAt(s, i) \in Seq(T)
         /\ Len(RemoveAt(s, i)) = Len(s) - 1
         /\ \A j \in 1 .. Len(s) - 1 :
              RemoveAt(s, i)[j] = IF j < i THEN s[j] ELSE s[j + 1]
<1> DEFINE l == SubSeq(s, 1, i - 1)
           r == SubSeq(s, i + 1, Len(s))
<1>0. Len(s) \in Nat /\ i \in 1 .. Len(s)
  OBVIOUS
<1>1. l \in Seq(T) /\ Len(l) = i - 1 /\ \A j \in 1 .. i - 1 : l[j] = s[j]
  BY <1>0, SubSeqProperties
<1>2. r \in Seq(T) /\ Len(r) = Len(s) - i
        /\ \A j \in 1 .. Len(s) - i : r[j] = s[i + j]
  BY <1>0, SubSeqProperties
<1> HIDE DEF l, r
<1>3. /\ l \o r \in Seq(T) /\ Len(l \o r) = Len(s) - 1
      /\ \A j \in 1 .. Len(s) - 1 :
           (l \o r)[j] = IF j < i THEN s[j] ELSE s[j + 1]
  BY <1>0, <1>1, <1>2, ConcatProperties
<1> QED BY Zenon, <1>3 DEF RemoveAt, l, r

(* erase removes the one element it is asked to remove. *)
LEMMA RangeRemoveAt ==
  ASSUME NEW T, NEW s \in Seq(T), NEW i \in DOMAIN s, IsInjective(s)
  PROVE  /\ Range(RemoveAt(s, i)) = Range(s) \ {s[i]}
         /\ IsInjective(RemoveAt(s, i))
<1> DEFINE r == RemoveAt(s, i)
<1>1. /\ r \in Seq(T) /\ Len(r) = Len(s) - 1
      /\ \A j \in 1 .. Len(s) - 1 : r[j] = IF j < i THEN s[j] ELSE s[j + 1]
  BY RemoveAtElements
<1>2. DOMAIN r = 1 .. Len(s) - 1 /\ DOMAIN s = 1 .. Len(s) /\ Len(s) \in Nat /\ i \in 1 .. Len(s)
  BY <1>1
<1> HIDE DEF r
<1> DEFINE from(j) == IF j < i THEN j ELSE j + 1
<1>a. \A j \in DOMAIN r : from(j) \in DOMAIN s \ {i} /\ r[j] = s[from(j)]
  BY <1>1, <1>2
<1>b. \A j, k \in DOMAIN r : from(j) = from(k) => j = k
  BY <1>2
<1> HIDE DEF from
<1>3. IsInjective(r)
  BY <1>a, <1>b DEF IsInjective
<1>4. ASSUME NEW x \in Range(r) PROVE x \in Range(s) \ {s[i]}
  BY <1>a DEF Range, IsInjective
<1>5. ASSUME NEW x \in Range(s), x # s[i] PROVE x \in Range(r)
  <2>1. PICK k \in DOMAIN s : x = s[k]
    BY DEF Range
  <2>2. CASE k < i
    BY <2>1, <2>2, <1>1, <1>2 DEF Range
  <2>3. CASE k > i
    <3>1. r[k - 1] = x /\ k - 1 \in DOMAIN r
      BY <2>1, <2>3, <1>1, <1>2
    <3> QED BY <3>1 DEF Range
  <2> QED BY <2>1, <2>2, <2>3, <1>5, <1>2
<1> QED BY <1>3, <1>4, <1>5 DEF r

-----------------------------------------------------------------------------
(* Transactions and their order in a queue. *)

(* A transaction is determined by its address and kind. *)
LEMMA TransactionFacts ==
  /\ \A a \in Addr, w \in BOOLEAN :
       /\ Transaction(a, w) \in Transactions
       /\ Transaction(a, w).addr = a /\ Transaction(a, w).is_write = w
  /\ \A t \in Transactions :
       /\ t.addr \in Addr /\ t.is_write \in BOOLEAN
       /\ t = Transaction(t.addr, t.is_write)
       /\ \A a \in Addr, w \in BOOLEAN :
            Transaction(a, w) = t <=> a = t.addr /\ w = t.is_write
  BY DEF Transaction, Transactions

(* Appending keeps reads ahead of writes, unless a read is appended behind  *)
(* a write of its address.                                                  *)
LEMMA OrderedAppend ==
  ASSUME NEW s \in Seq(Transactions), NEW t \in Transactions, NEW a \in Addr,
         Ordered(s, a),
         t = Transaction(a, FALSE) => Transaction(a, TRUE) \notin Range(s)
  PROVE  Ordered(Append(s, t), a)
<1> SUFFICES ASSUME NEW i \in DOMAIN Append(s, t), NEW j \in DOMAIN Append(s, t),
                    Append(s, t)[i] = Transaction(a, TRUE),
                    Append(s, t)[j] = Transaction(a, FALSE)
             PROVE  j < i
  BY Zenon DEF Ordered
<1>1. Transaction(a, TRUE) # Transaction(a, FALSE)
  BY Zenon, TransactionFacts
<1>2. i \in 1 .. Len(s) + 1 /\ j \in 1 .. Len(s) + 1 /\ Len(s) \in Nat
        /\ DOMAIN s = 1 .. Len(s)
  OBVIOUS
<1>3. \A k \in 1 .. Len(s) : Append(s, t)[k] = s[k]
  OBVIOUS
<1>4. Append(s, t)[Len(s) + 1] = t
  OBVIOUS
<1>5. CASE i \in 1 .. Len(s) /\ j \in 1 .. Len(s)
  BY Zenon, <1>2, <1>3, <1>5 DEF Ordered
<1>6. CASE i \in 1 .. Len(s) /\ j = Len(s) + 1
  <2>1. Transaction(a, TRUE) \in Range(s)
    BY Zenon, <1>2, <1>3, <1>6 DEF Range
  <2> QED BY Zenon, <2>1, <1>4, <1>6
<1>7. CASE i = Len(s) + 1 /\ j \in 1 .. Len(s)
  BY <1>2, <1>7
<1>8. CASE i = Len(s) + 1 /\ j = Len(s) + 1
  BY Zenon, <1>1, <1>8
<1> QED BY <1>2, <1>5, <1>6, <1>7, <1>8

(* Erasing keeps the order of the rest. *)
LEMMA OrderedRemoveAt ==
  ASSUME NEW s \in Seq(Transactions), NEW k \in DOMAIN s, NEW a \in Addr,
         Ordered(s, a)
  PROVE  Ordered(RemoveAt(s, k), a)
<1> DEFINE r == RemoveAt(s, k)
           from(j) == IF j < k THEN j ELSE j + 1
<1>1. /\ r \in Seq(Transactions) /\ Len(r) = Len(s) - 1
      /\ \A j \in 1 .. Len(s) - 1 : r[j] = IF j < k THEN s[j] ELSE s[j + 1]
  BY RemoveAtElements
<1>2. Len(s) \in Nat /\ k \in 1 .. Len(s) /\ DOMAIN s = 1 .. Len(s)
        /\ DOMAIN r = 1 .. Len(s) - 1
  BY <1>1
<1> HIDE DEF r
<1>3. \A j \in DOMAIN r : from(j) \in DOMAIN s /\ r[j] = s[from(j)]
  BY <1>1, <1>2
<1>4. \A i, j \in DOMAIN r : from(j) < from(i) => j < i
  BY SMTT(30), <1>2
<1> HIDE DEF from
<1> QED BY Zenon, <1>3, <1>4 DEF Ordered, r

(* GetQueueIndex names one of the num_queues_ command queues. *)
LEMMA QueueIndexInRange ==
  ASSUME NEW a \in Addr
  PROVE  /\ GetQueueIndex(a) \in Queues
         /\ Config.AddressMapping[a].bank[1] \in Ranks
<1> DEFINE R == Config.ranks
           G == Config.bankgroups
           P == Config.banks_per_group
           x == Config.AddressMapping[a].bank
<1>1. R \in Nat \ {0} /\ G \in Nat \ {0} /\ P \in Nat \ {0} /\ x \in Banks
  BY StructureAssumption
<1>2. x[1] \in 0 .. R - 1 /\ x[2] \in 0 .. G - 1 /\ x[3] \in 0 .. P - 1
  BY <1>1 DEF Banks, Ranks, Bankgroups, BanksPerGroup
<1> HIDE DEF R, G, P, x
<1>3. \A m, n, d \in Nat : m <= n => m * d <= n * d
  OBVIOUS
<1>4. x[2] * P + x[3] \in 0 .. G * P - 1
  <2>1. x[2] * P <= (G - 1) * P
    BY <1>1, <1>2, <1>3
  <2>2. (G - 1) * P = G * P - P
    BY <1>1
  <2>3. x[2] * P \in Nat /\ G * P \in Nat
    BY <1>1, <1>2
  <2> QED BY <2>1, <2>2, <2>3, <1>1, <1>2
<1>5. x[1] * (G * P) + (x[2] * P + x[3]) \in 0 .. (G * P) * R - 1
  <2>1. G * P \in Nat /\ R - 1 \in Nat /\ x[1] \in Nat
    BY <1>1, <1>2
  <2> DEFINE B == G * P
  <2>2. x[1] * B <= (R - 1) * B
    BY <2>1, <1>2, <1>3
  <2>3. (R - 1) * B = B * R - B
    BY <2>1, <1>1
  <2>4. x[1] * B \in Nat /\ B * R \in Nat
    BY <2>1, <1>1
  <2> HIDE DEF B
  <2>5. x[2] * P + x[3] \in 0 .. B - 1
    BY <1>4 DEF B
  <2>6. x[1] * B + (x[2] * P + x[3]) \in 0 .. B * R - 1
    BY <2>1, <2>2, <2>3, <2>4, <2>5 DEF B
  <2> QED BY <2>6 DEF B
<1>6. x[1] * (G * P) + x[2] * P + x[3] = x[1] * (G * P) + (x[2] * P + x[3])
  BY <1>1, <1>2
<1>7. Config.queue_structure \in {"PER_BANK", "PER_RANK"}
  BY QueueAssumption
<1> QED
  BY Zenon, <1>2, <1>5, <1>6, <1>7
     DEF GetQueueIndex, QueueIndexOfBank, Queues, num_queues, banks, Ranks, R, G, P, x

-----------------------------------------------------------------------------
(* AddTransaction. *)

(* What push_back onto the transaction's own queue does, for a transaction  *)
(* that is in no queue yet and, if a read, has no write of its address      *)
(* ahead of it.                                                             *)
LEMMA PushFacts ==
  ASSUME NEW q \in QueueRecord, NEW t \in Transactions,
         OnlyOnce(q), Bounded(q), KindsSeparate(q), ReadAhead(q),
         WillAcceptTransaction(q, t.is_write),
         t \notin Waiting(q) \cup Queued(q),
         ~t.is_write => Transaction(t.addr, TRUE) \notin Waiting(q) \cup Queued(q)
  PROVE  LET p == PushTransaction(q, t)
         IN /\ p \in QueueRecord
            /\ p.queues = q.queues /\ p.exited = q.exited
            /\ p.pending_rd_q = q.pending_rd_q /\ p.pending_wr_q = q.pending_wr_q
            /\ Waiting(p) = Waiting(q) \cup {t} /\ Queued(p) = Queued(q)
            /\ OnlyOnce(p) /\ Bounded(p) /\ KindsSeparate(p) /\ ReadAhead(p)
<1> DEFINE p == PushTransaction(q, t)
<1> USE TransactionFacts
<1> DEFINE s == IF Config.unified_queue THEN q.unified_queue
                ELSE IF t.is_write THEN q.write_buffer ELSE q.read_queue
           u == Append(s, t)
<1>1. Len(s) < Config.trans_queue_size
  BY Zenon DEF WillAcceptTransaction
<1>2. s \in Seq(Transactions) /\ Range(s) \subseteq Waiting(q) /\ IsInjective(s)
  BY DEF QueueRecord, Waiting, OnlyOnce
<1>3. /\ u \in Seq(Transactions) /\ Len(u) = Len(s) + 1
      /\ Range(u) = Range(s) \cup {t} /\ IsInjective(u)
  BY <1>2, RangeAppend
<1>4. /\ p \in QueueRecord
      /\ p.queues = q.queues /\ p.exited = q.exited /\ p.write_draining = q.write_draining
      /\ p.pending_rd_q = q.pending_rd_q /\ p.pending_wr_q = q.pending_wr_q
      /\ p.unified_queue = IF Config.unified_queue THEN u ELSE q.unified_queue
      /\ p.write_buffer = IF ~Config.unified_queue /\ t.is_write
                          THEN u ELSE q.write_buffer
      /\ p.read_queue = IF ~Config.unified_queue /\ ~t.is_write
                        THEN u ELSE q.read_queue
  <2>1. CASE Config.unified_queue
    <3>1. p = [q EXCEPT !.unified_queue = u]
      BY <2>1 DEF PushTransaction, QueueRecord
    <3> HIDE DEF p, u, s
    <3> QED BY Zenon, <2>1, <3>1, <1>3 DEF QueueRecord
  <2>2. CASE ~Config.unified_queue /\ t.is_write
    <3>1. p = [q EXCEPT !.write_buffer = u]
      BY <2>2 DEF PushTransaction, QueueRecord
    <3> HIDE DEF p, u, s
    <3> QED BY Zenon, <2>2, <3>1, <1>3 DEF QueueRecord
  <2>3. CASE ~Config.unified_queue /\ ~t.is_write
    <3>1. p = [q EXCEPT !.read_queue = u]
      BY <2>3 DEF PushTransaction, QueueRecord
    <3> HIDE DEF p, u, s
    <3> QED BY Zenon, <2>3, <3>1, <1>3 DEF QueueRecord
  <2> QED BY <2>1, <2>2, <2>3
<1> HIDE DEF p, u
<1>5. Queued(p) = Queued(q)
  BY <1>4 DEF Queued
<1>6. Waiting(p) = Waiting(q) \cup {t}
  <2>1. CASE Config.unified_queue
    BY <2>1, <1>3, <1>4 DEF Waiting
  <2>2. CASE ~Config.unified_queue /\ t.is_write
    BY <2>2, <1>3, <1>4 DEF Waiting
  <2>3. CASE ~Config.unified_queue /\ ~t.is_write
    BY <2>3, <1>3, <1>4 DEF Waiting
  <2> QED BY <2>1, <2>2, <2>3
<1>7. OnlyOnce(p)
  BY <1>3, <1>4, <1>5, <1>6 DEF OnlyOnce
<1>8. Bounded(p)
  <2>1. Len(u) <= Config.trans_queue_size
    BY <1>1, <1>2, <1>3, QueueAssumption
  <2>2. p.write_draining <= Len(p.write_buffer)
    <3>1. CASE ~Config.unified_queue /\ t.is_write
      <4>1. q.write_draining <= Len(s) /\ q.write_draining \in Nat
        BY <3>1 DEF Bounded, QueueRecord
      <4>2. Len(s) \in Nat
        BY <1>2
      <4> HIDE DEF s
      <4>3. q.write_draining <= Len(u)
        BY <4>1, <4>2, <1>3
      <4> QED BY <3>1, <4>3, <1>4
    <3>2. CASE ~(~Config.unified_queue /\ t.is_write)
      BY <3>2, <1>4 DEF Bounded
    <3> QED BY <3>1, <3>2
  <2> QED BY <2>1, <2>2, <1>4 DEF Bounded
<1>9. KindsSeparate(p)
  <2>1. CASE Config.unified_queue
    BY <2>1, <1>4 DEF KindsSeparate
  <2>2. CASE ~Config.unified_queue /\ t.is_write
    BY <2>2, <1>3, <1>4 DEF KindsSeparate
  <2>3. CASE ~Config.unified_queue /\ ~t.is_write
    BY <2>3, <1>3, <1>4 DEF KindsSeparate
  <2> QED BY <2>1, <2>2, <2>3
<1>10. ReadAhead(p)
  <2> SUFFICES ASSUME NEW a \in Addr
               PROVE  /\ Transaction(a, TRUE) \in Queued(p) =>
                             Transaction(a, FALSE) \notin Waiting(p)
                      /\ Ordered(p.unified_queue, a)
                      /\ \A k \in Queues : Ordered(p.queues[k], a)
    BY Zenon DEF ReadAhead
  <2>1. Transaction(a, TRUE) \in Queued(p) => Transaction(a, FALSE) \notin Waiting(p)
    BY Zenon, <1>5, <1>6 DEF ReadAhead
  <2>2. \A k \in Queues : Ordered(p.queues[k], a)
    BY Zenon, <1>4 DEF ReadAhead
  <2>3. Ordered(p.unified_queue, a)
    <3>1. Ordered(q.unified_queue, a)
      BY Zenon DEF ReadAhead
    <3>2. CASE Config.unified_queue
      <4>1. t = Transaction(a, FALSE) => Transaction(a, TRUE) \notin Range(s)
        BY ZenonT(40), <1>2
      <4>2. Ordered(s, a)
        BY <3>1, <3>2
      <4> HIDE DEF s
      <4>3. Ordered(u, a)
        BY Zenon, <1>2, <4>1, <4>2, OrderedAppend DEF u
      <4> QED BY <1>4, <3>2, <4>3
    <3>3. CASE ~Config.unified_queue
      BY <1>4, <3>1, <3>3
    <3> QED BY <3>2, <3>3
  <2> QED BY Zenon, <2>1, <2>2, <2>3
<1> QED BY <1>4, <1>5, <1>6, <1>7, <1>8, <1>9, <1>10 DEF p

SameQueues(p, q) ==
  /\ p.read_queue = q.read_queue /\ p.write_buffer = q.write_buffer
  /\ p.unified_queue = q.unified_queue /\ p.queues = q.queues
  /\ p.write_draining = q.write_draining

SamePending(p, q) ==
  /\ p.pending_rd_q = q.pending_rd_q /\ p.pending_wr_q = q.pending_wr_q
  /\ p.exited = q.exited

(* The structural parts of the invariant depend on the queues only. *)
LEMMA SameQueuesFacts ==
  ASSUME NEW q, NEW p, SameQueues(p, q)
  PROVE  /\ Waiting(p) = Waiting(q) /\ Queued(p) = Queued(q)
         /\ OnlyOnce(q) => OnlyOnce(p)
         /\ Bounded(q) => Bounded(p)
         /\ KindsSeparate(q) => KindsSeparate(p)
         /\ ReadAhead(q) => ReadAhead(p)
<1>1. Waiting(p) = Waiting(q) /\ Queued(p) = Queued(q)
  BY DEF SameQueues, Waiting, Queued
<1>2. OnlyOnce(q) => OnlyOnce(p)
  BY <1>1 DEF SameQueues, OnlyOnce
<1>3. Bounded(q) => Bounded(p)
  BY DEF SameQueues, Bounded
<1>4. KindsSeparate(q) => KindsSeparate(p)
  BY DEF SameQueues, KindsSeparate
<1>5. ReadAhead(q) => ReadAhead(p)
  BY Zenon, <1>1 DEF SameQueues, ReadAhead
<1> QED BY <1>1, <1>2, <1>3, <1>4, <1>5

(* A step that changes neither the queues nor what is pending, such as one  *)
(* on the return queue, preserves the invariant.                            *)
LEMMA FramePreserves ==
  ASSUME NEW q, NEW p, QueueInv(q), p \in QueueRecord,
         SameQueues(p, q), SamePending(p, q)
  PROVE  QueueInv(p)
<1>1. Waiting(p) = Waiting(q) /\ Queued(p) = Queued(q)
  BY SameQueuesFacts
<1>2. PendingMatches(p)
  BY Zenon, <1>1 DEF PendingMatches, QueueInv, SamePending
<1> QED BY <1>2, SameQueuesFacts DEF QueueInv, SamePending

(* Scheduling a completion touches the return queue only. *)
LEMMA PushReturnFacts ==
  ASSUME NEW q \in QueueRecord, NEW t \in Transactions, NEW count \in Nat,
         NEW delay \in 0 .. Config.read_delay
  PROVE  LET p == PushReturn(q, t, count, delay)
         IN p \in QueueRecord /\ SameQueues(p, q) /\ SamePending(p, q)
<1> DEFINE slot == <<t.addr, t.is_write, delay>>
           r == [q.return_queue EXCEPT ![slot] = @ + count]
           p == PushReturn(q, t, count, delay)
<1>1. slot \in ReturnSlots
  BY TransactionFacts DEF ReturnSlots
<1>2. q.return_queue \in [ReturnSlots -> Nat]
  BY DEF QueueRecord
<1>3. r \in [ReturnSlots -> Nat]
  <2> HIDE DEF slot
  <2> QED BY <1>1, <1>2
<1>4. p = [q EXCEPT !.return_queue = r]
  BY DEF PushReturn, QueueRecord
<1> HIDE DEF p, r
<1>5. p \in QueueRecord /\ SameQueues(p, q) /\ SamePending(p, q)
  BY Zenon, <1>3, <1>4 DEF QueueRecord, SameQueues, SamePending
<1> QED BY <1>5 DEF p

(* AddTransaction preserves the invariant when WillAcceptTransaction said   *)
(* yes.                                                                     *)
LEMMA AddPreserves ==
  ASSUME NEW q, QueueInv(q), NEW t \in Transactions,
         WillAcceptTransaction(q, t.is_write)
  PROVE  /\ QueueInv(AddTransaction(q, t))
         /\ q.pending_wr_q \subseteq AddTransaction(q, t).pending_wr_q
<1> USE TransactionFacts
<1>0. q \in QueueRecord /\ 1 \in 0 .. Config.read_delay
  BY QueueAssumption DEF QueueInv
<1>1. ASSUME NEW p, QueueInv(p), p \in QueueRecord
      PROVE  LET r == PushReturn(p, t, 1, 1)
             IN QueueInv(r) /\ r.pending_wr_q = p.pending_wr_q
  BY <1>0, <1>1, PushReturnFacts, FramePreserves DEF SamePending
<1>2. CASE t.addr \in q.pending_wr_q
  <2>1. AddTransaction(q, t) = PushReturn(q, t, 1, 1)
    BY <1>2 DEF AddTransaction, AddWrite, AddRead
  <2> QED BY <2>1, <1>0, <1>1
<1>3. CASE t.is_write /\ t.addr \notin q.pending_wr_q
  <2> DEFINE q1 == [q EXCEPT !.pending_wr_q = @ \cup {t.addr}]
             p == PushTransaction(q1, t)
  <2>1. /\ q1 \in QueueRecord /\ SameQueues(q1, q) /\ q1.exited = q.exited
        /\ q1.pending_wr_q = q.pending_wr_q \cup {t.addr}
        /\ q1.pending_rd_q = q.pending_rd_q
    <3> DEFINE w == q.pending_wr_q \cup {t.addr}
    <3>1. w \in SUBSET Addr
      BY <1>0 DEF QueueRecord
    <3>2. q1 = [q EXCEPT !.pending_wr_q = w]
      BY <1>0 DEF QueueRecord
    <3> HIDE DEF w, q1
    <3>3. /\ q1 \in QueueRecord /\ SameQueues(q1, q) /\ q1.exited = q.exited
          /\ q1.pending_wr_q = w /\ q1.pending_rd_q = q.pending_rd_q
      BY ONLY Zenon, <1>0, <3>1, <3>2 DEF QueueRecord, SameQueues
    <3> QED BY <3>3 DEF w
  <2>2. AddTransaction(q, t) = PushReturn(p, t, 1, 1)
    BY <1>3 DEF AddTransaction, AddWrite
  <2> HIDE DEF q1
  <2>3. t \notin Waiting(q) \cup Queued(q)
    <3>1. Transaction(t.addr, TRUE) \notin Waiting(q) \cup Queued(q)
      BY Zenon, <1>3 DEF QueueInv, PendingMatches
    <3> QED BY Zenon, <3>1, <1>3
  <2>4. WillAcceptTransaction(q1, t.is_write)
    BY Zenon, <2>1 DEF WillAcceptTransaction, SameQueues
  <2>5. /\ p \in QueueRecord /\ p.exited = q1.exited
        /\ p.pending_rd_q = q1.pending_rd_q /\ p.pending_wr_q = q1.pending_wr_q
        /\ Waiting(p) = Waiting(q) \cup {t} /\ Queued(p) = Queued(q)
        /\ OnlyOnce(p) /\ Bounded(p) /\ KindsSeparate(p) /\ ReadAhead(p)
    <3>1. /\ OnlyOnce(q1) /\ Bounded(q1) /\ KindsSeparate(q1) /\ ReadAhead(q1)
          /\ Waiting(q1) = Waiting(q) /\ Queued(q1) = Queued(q)
      BY <2>1, SameQueuesFacts DEF QueueInv
    <3>2. t \notin Waiting(q1) \cup Queued(q1)
      BY <2>3, <3>1
    <3>3. q1 \in QueueRecord
      BY <2>1
    <3>4. ~t.is_write => Transaction(t.addr, TRUE) \notin Waiting(q1) \cup Queued(q1)
      BY <1>3
    <3>5. /\ p \in QueueRecord /\ p.exited = q1.exited
          /\ p.pending_rd_q = q1.pending_rd_q /\ p.pending_wr_q = q1.pending_wr_q
          /\ Waiting(p) = Waiting(q1) \cup {t} /\ Queued(p) = Queued(q1)
          /\ OnlyOnce(p) /\ Bounded(p) /\ KindsSeparate(p) /\ ReadAhead(p)
      BY ONLY Zenon, <3>1, <3>2, <3>3, <3>4, <2>4, t \in Transactions, PushFacts
    <3> QED BY <3>1, <3>5
  <2> HIDE DEF p
  <2>6. PendingMatches(p)
    <3> SUFFICES ASSUME NEW a \in Addr
                 PROVE  /\ a \in p.pending_wr_q <=>
                             Transaction(a, TRUE) \in Waiting(p) \cup Queued(p)
                        /\ p.pending_rd_q[a] > 0 <=>
                             Transaction(a, FALSE) \in Waiting(p) \cup Queued(p)
      BY Zenon DEF PendingMatches
    <3>1. Transaction(a, TRUE) = t <=> a = t.addr
      BY Zenon, <1>3
    <3>2. Transaction(a, FALSE) # t
      BY Zenon, <1>3
    <3>3. /\ a \in q.pending_wr_q <=> Transaction(a, TRUE) \in Waiting(q) \cup Queued(q)
          /\ q.pending_rd_q[a] > 0 <=> Transaction(a, FALSE) \in Waiting(q) \cup Queued(q)
      BY Zenon DEF QueueInv, PendingMatches
    <3> QED BY Zenon, <2>1, <2>5, <3>1, <3>2, <3>3
  <2>7. QueueInv(p)
    BY <2>1, <2>5, <2>6 DEF QueueInv
  <2> QED BY SMTT(30), <2>1, <2>2, <2>5, <2>7, <1>1
<1>4. CASE ~t.is_write /\ t.addr \notin q.pending_wr_q
  <2> DEFINE q1 == [q EXCEPT !.pending_rd_q[t.addr] = @ + 1]
             p == PushTransaction(q1, t)
  <2>0. q.pending_rd_q \in [Addr -> Nat]
    BY <1>0 DEF QueueRecord
  <2>1. /\ q1 \in QueueRecord /\ SameQueues(q1, q) /\ q1.exited = q.exited
        /\ q1.pending_wr_q = q.pending_wr_q
        /\ q1.pending_rd_q = [q.pending_rd_q EXCEPT ![t.addr] = @ + 1]
    <3> DEFINE r == [q.pending_rd_q EXCEPT ![t.addr] = @ + 1]
    <3>1. r \in [Addr -> Nat]
      BY <2>0
    <3>2. q1 = [q EXCEPT !.pending_rd_q = r]
      BY <1>0 DEF QueueRecord
    <3> HIDE DEF r, q1
    <3>3. /\ q1 \in QueueRecord /\ SameQueues(q1, q) /\ q1.exited = q.exited
          /\ q1.pending_wr_q = q.pending_wr_q /\ q1.pending_rd_q = r
      BY Zenon, <1>0, <3>1, <3>2 DEF QueueRecord, SameQueues
    <3> QED BY <3>3 DEF r
  <2>2. AddTransaction(q, t) = IF q1.pending_rd_q[t.addr] = 1 THEN p ELSE q1
    BY <1>4 DEF AddTransaction, AddRead
  <2> HIDE DEF q1
  <2>3. Waiting(q1) = Waiting(q) /\ Queued(q1) = Queued(q)
    BY <2>1, SameQueuesFacts
  <2>4. CASE q.pending_rd_q[t.addr] = 0
    <3>1. t \notin Waiting(q) \cup Queued(q)
      <4>1. Transaction(t.addr, FALSE) \notin Waiting(q) \cup Queued(q)
        <5>1. ~(q.pending_rd_q[t.addr] > 0)
          BY <2>4
        <5> QED BY Zenon, <5>1 DEF QueueInv, PendingMatches
      <4> QED BY ZenonT(40), <4>1, <1>4
    <3>2. Transaction(t.addr, TRUE) \notin Waiting(q) \cup Queued(q)
      BY Zenon, <1>4 DEF QueueInv, PendingMatches
    <3>3. WillAcceptTransaction(q1, t.is_write)
      BY Zenon, <2>1 DEF WillAcceptTransaction, SameQueues
    <3>4. /\ p \in QueueRecord /\ p.exited = q1.exited
          /\ p.pending_rd_q = q1.pending_rd_q /\ p.pending_wr_q = q1.pending_wr_q
          /\ Waiting(p) = Waiting(q) \cup {t} /\ Queued(p) = Queued(q)
          /\ OnlyOnce(p) /\ Bounded(p) /\ KindsSeparate(p) /\ ReadAhead(p)
      <4>1. OnlyOnce(q1) /\ Bounded(q1) /\ KindsSeparate(q1) /\ ReadAhead(q1)
        BY <2>1, SameQueuesFacts DEF QueueInv
      <4>2. /\ t \notin Waiting(q1) \cup Queued(q1)
            /\ Transaction(t.addr, TRUE) \notin Waiting(q1) \cup Queued(q1)
        BY Zenon, <2>3, <3>1, <3>2
      <4>3. q1 \in QueueRecord
        BY <2>1
      <4>4. /\ p \in QueueRecord /\ p.exited = q1.exited
            /\ p.pending_rd_q = q1.pending_rd_q /\ p.pending_wr_q = q1.pending_wr_q
            /\ Waiting(p) = Waiting(q1) \cup {t} /\ Queued(p) = Queued(q1)
            /\ OnlyOnce(p) /\ Bounded(p) /\ KindsSeparate(p) /\ ReadAhead(p)
        BY ONLY Zenon, <4>1, <4>2, <4>3, <3>3, t \in Transactions, PushFacts
      <4> QED BY <4>4, <2>3
    <3> HIDE DEF p
    <3>5. PendingMatches(p)
      <4> SUFFICES ASSUME NEW a \in Addr
                   PROVE  /\ a \in p.pending_wr_q <=>
                               Transaction(a, TRUE) \in Waiting(p) \cup Queued(p)
                          /\ p.pending_rd_q[a] > 0 <=>
                               Transaction(a, FALSE) \in Waiting(p) \cup Queued(p)
        BY Zenon DEF PendingMatches
      <4>1. Transaction(a, FALSE) = t <=> a = t.addr
        BY Zenon, <1>4
      <4>2. Transaction(a, TRUE) # t
        BY Zenon, <1>4
      <4>3. /\ a \in q.pending_wr_q <=> Transaction(a, TRUE) \in Waiting(q) \cup Queued(q)
            /\ q.pending_rd_q[a] > 0 <=> Transaction(a, FALSE) \in Waiting(q) \cup Queued(q)
        BY Zenon DEF QueueInv, PendingMatches
      <4>4. p.pending_rd_q[a] > 0 <=> (q.pending_rd_q[a] > 0 \/ a = t.addr)
        BY <2>0, <2>1, <3>4
      <4> QED BY Zenon, <2>1, <3>4, <4>1, <4>2, <4>3, <4>4
    <3>6. QueueInv(p) /\ q.pending_wr_q \subseteq p.pending_wr_q
      BY <2>1, <3>4, <3>5 DEF QueueInv
    <3>7. q1.pending_rd_q[t.addr] = 1
      BY <2>0, <2>1, <2>4
    <3> QED BY <2>2, <3>6, <3>7
  <2>5. CASE q.pending_rd_q[t.addr] # 0
    <3>1. q1.pending_rd_q[t.addr] # 1
      BY <2>0, <2>1, <2>5
    <3>2. \A a \in Addr : q1.pending_rd_q[a] > 0 <=> q.pending_rd_q[a] > 0
      BY <2>0, <2>1, <2>5
    <3>3. PendingMatches(q1)
      BY Zenon, <2>1, <2>3, <3>2 DEF PendingMatches, QueueInv
    <3>4. QueueInv(q1)
      BY SMTT(30), <2>1, <3>3, SameQueuesFacts DEF QueueInv
    <3> QED BY <2>1, <2>2, <3>1, <3>4
  <2> QED BY <2>4, <2>5
<1> QED BY <1>2, <1>3, <1>4

-----------------------------------------------------------------------------
(* ScheduleTransaction. *)

(* Moving the first acceptable transaction from its queue to the command    *)
(* queue of its bank preserves everything; a write is moved only when no    *)
(* read of its address is pending (split queues).                           *)
LEMMA MoveFacts ==
  ASSUME NEW q, QueueInv(q), NEW i \in Acceptable(q),
         \A j \in Acceptable(q) : i <= j,
         ~Config.unified_queue /\ SourceQueue(q)[i].is_write =>
           ~(q.pending_rd_q[SourceQueue(q)[i].addr] > 0)
  PROVE  LET t == SourceQueue(q)[i]
             p == AddCommand(EraseFromSource(q, i), t)
         IN /\ p \in QueueRecord /\ SamePending(p, q)
            /\ p.write_draining = q.write_draining
            /\ Waiting(p) \cup Queued(p) = Waiting(q) \cup Queued(q)
            /\ OnlyOnce(p) /\ KindsSeparate(p) /\ ReadAhead(p)
            /\ Len(p.read_queue) <= Config.trans_queue_size
            /\ Len(p.unified_queue) <= Config.trans_queue_size
            /\ \A k \in Queues : Len(p.queues[k]) <= Config.cmd_queue_size
            /\ p.write_draining > 0 => t.is_write
            /\ t.is_write /\ ~Config.unified_queue =>
                 p.write_draining > 0 /\ Len(p.write_buffer) = Len(q.write_buffer) - 1
            /\ ~(t.is_write /\ ~Config.unified_queue) =>
                 p.write_buffer = q.write_buffer
<1> DEFINE s == SourceQueue(q)
           t == s[i]
           u == RemoveAt(s, i)
           e == EraseFromSource(q, i)
           k == GetQueueIndex(t.addr)
           c == Append(q.queues[k], t)
           p == AddCommand(e, t)
<1>1. q \in QueueRecord /\ OnlyOnce(q) /\ Bounded(q) /\ KindsSeparate(q) /\ ReadAhead(q)
        /\ PendingMatches(q)
  BY DEF QueueInv
<1>2. /\ s \in Seq(Transactions) /\ IsInjective(s) /\ Range(s) \subseteq Waiting(q)
      /\ Len(s) <= Config.trans_queue_size
  BY <1>1 DEF QueueRecord, Waiting, OnlyOnce, Bounded, SourceQueue
<1>3. i \in DOMAIN s /\ t \in Transactions /\ t \in Range(s) /\ t \in Waiting(q)
        /\ Len(q.queues[k]) < Config.cmd_queue_size
  BY <1>2 DEF Acceptable, WillAcceptCommand, Range
<1>4. k \in Queues /\ t.addr \in Addr /\ Config.AddressMapping[t.addr].bank[1] \in Ranks
  BY <1>3, QueueIndexInRange, TransactionFacts
<1>5. /\ u \in Seq(Transactions) /\ Len(u) = Len(s) - 1
      /\ Range(u) = Range(s) \ {t} /\ IsInjective(u)
  BY SMTT(30), <1>2, <1>3, RemoveAtElements, RangeRemoveAt
<1>6. q.queues[k] \in Seq(Transactions) /\ t \notin Queued(q) /\ t \notin Range(q.queues[k])
  BY SMTT(30), <1>1, <1>3, <1>4 DEF QueueRecord, OnlyOnce, Queued
<1>7. /\ c \in Seq(Transactions) /\ Len(c) = Len(q.queues[k]) + 1
      /\ Range(c) = Range(q.queues[k]) \cup {t} /\ IsInjective(c)
  BY SMTT(30), <1>1, <1>3, <1>4, <1>6, RangeAppend DEF OnlyOnce
<1>8. /\ e \in QueueRecord /\ SamePending(e, q) /\ e.queues = q.queues
      /\ e.write_draining = q.write_draining
      /\ e.unified_queue = IF Config.unified_queue THEN u ELSE q.unified_queue
      /\ e.write_buffer = IF ~Config.unified_queue /\ q.write_draining > 0
                          THEN u ELSE q.write_buffer
      /\ e.read_queue = IF ~Config.unified_queue /\ ~(q.write_draining > 0)
                        THEN u ELSE q.read_queue
  <2>1. CASE Config.unified_queue
    <3>1. e = [q EXCEPT !.unified_queue = u]
      BY <2>1, <1>1 DEF EraseFromSource, SourceQueue, QueueRecord
    <3> HIDE DEF e, u
    <3> QED BY Zenon, <2>1, <3>1, <1>1, <1>5 DEF QueueRecord, SamePending
  <2>2. CASE ~Config.unified_queue /\ q.write_draining > 0
    <3>1. e = [q EXCEPT !.write_buffer = u]
      BY <2>2, <1>1 DEF EraseFromSource, SourceQueue, QueueRecord
    <3> HIDE DEF e, u
    <3> QED BY Zenon, <2>2, <3>1, <1>1, <1>5 DEF QueueRecord, SamePending
  <2>3. CASE ~Config.unified_queue /\ ~(q.write_draining > 0)
    <3>1. e = [q EXCEPT !.read_queue = u]
      BY <2>3, <1>1 DEF EraseFromSource, SourceQueue, QueueRecord
    <3> HIDE DEF e, u
    <3> QED BY Zenon, <2>3, <3>1, <1>1, <1>5 DEF QueueRecord, SamePending
  <2> QED BY <2>1, <2>2, <2>3
<1> HIDE DEF e, u, c
<1>9. /\ p \in QueueRecord /\ SamePending(p, q)
      /\ p.queues = [q.queues EXCEPT ![k] = c]
      /\ p.write_draining = q.write_draining /\ p.unified_queue = e.unified_queue
      /\ p.write_buffer = e.write_buffer /\ p.read_queue = e.read_queue
  <2> DEFINE g == [q.queues EXCEPT ![k] = c]
             b == [e.rank_q_empty EXCEPT ![Config.AddressMapping[t.addr].bank[1]] = FALSE]
  <2>1. g \in [Queues -> Seq(Transactions)]
    <3>1. q.queues \in [Queues -> Seq(Transactions)]
      BY <1>1 DEF QueueRecord
    <3> HIDE DEF k
    <3> QED BY Zenon, <3>1, <1>7
  <2>2. b \in [Ranks -> BOOLEAN]
    <3>1. e.rank_q_empty \in [Ranks -> BOOLEAN]
      BY <1>8 DEF QueueRecord
    <3> QED BY Zenon, <3>1
  <2>3. p = [e EXCEPT !.queues = g, !.rank_q_empty = b]
    BY <1>8 DEF AddCommand, QueueRecord, c
  <2> HIDE DEF g, b, p, k, t
  <2>4. /\ p \in QueueRecord /\ SamePending(p, e) /\ p.queues = g
        /\ p.write_draining = e.write_draining /\ p.unified_queue = e.unified_queue
        /\ p.write_buffer = e.write_buffer /\ p.read_queue = e.read_queue
    BY ONLY ZenonT(40), <1>8, <2>1, <2>2, <2>3 DEF QueueRecord, SamePending
  <2> QED BY <2>4, <1>8 DEF g, SamePending
<1> HIDE DEF p
<1>10. \A x \in Queues : p.queues[x] = IF x = k THEN c ELSE q.queues[x]
  BY <1>1, <1>4, <1>9 DEF QueueRecord
<1>11. Queued(p) = Queued(q) \cup {t}
  <2>1. ASSUME NEW y \in Queued(p) PROVE y \in Queued(q) \cup {t}
    BY <1>7, <1>10 DEF Queued
  <2>2. ASSUME NEW y \in Queued(q) PROVE y \in Queued(p)
    BY SMTT(30), <1>7, <1>10 DEF Queued
  <2>3. t \in Queued(p)
    BY <1>4, <1>7, <1>10 DEF Queued
  <2> QED BY <2>1, <2>2, <2>3
<1>12. /\ q.write_draining \in Nat
       /\ Config.unified_queue => q.write_draining = 0
       /\ ~Config.unified_queue => (t.is_write <=> q.write_draining > 0)
  <2>1. q.write_draining \in Nat /\ q.write_draining <= Len(q.write_buffer)
    BY <1>1 DEF QueueRecord, Bounded
  <2>2. Config.unified_queue => q.write_draining = 0
    BY <2>1, <1>1 DEF KindsSeparate
  <2>3. ~Config.unified_queue => (t.is_write <=> q.write_draining > 0)
    BY <1>1, <1>3 DEF KindsSeparate, SourceQueue
  <2> QED BY <2>1, <2>2, <2>3
<1>13. Waiting(p) = Waiting(q) \ {t}
  <2>1. CASE Config.unified_queue
    <3>1. Waiting(q) = Range(s)
      BY <2>1, <1>1 DEF Waiting, KindsSeparate, SourceQueue, Range
    <3>2. p.read_queue = <<>> /\ p.write_buffer = <<>> /\ p.unified_queue = u
      BY SMTT(30), <2>1, <1>1, <1>8, <1>9 DEF KindsSeparate
    <3>3. Waiting(p) = Range(u)
      BY SMTT(20), <3>2 DEF Waiting, Range
    <3> QED BY <3>1, <3>3, <1>5
  <2>2. CASE ~Config.unified_queue /\ q.write_draining > 0
    <3>1. t \notin Range(q.read_queue) /\ t \notin Range(q.unified_queue)
      BY SMTT(20), <2>2, <1>1, <1>12 DEF KindsSeparate, Range
    <3> QED BY SMTT(90), <3>1, <2>2, <1>5, <1>8, <1>9 DEF Waiting, SourceQueue
  <2>3. CASE ~Config.unified_queue /\ ~(q.write_draining > 0)
    <3>1. t \notin Range(q.write_buffer) /\ t \notin Range(q.unified_queue)
      BY <2>3, <1>1, <1>12 DEF KindsSeparate, Range
    <3> QED BY SMTT(30), <3>1, <2>3, <1>5, <1>8, <1>9 DEF Waiting, SourceQueue
  <2> QED BY <2>1, <2>2, <2>3
<1>14. Waiting(p) \cup Queued(p) = Waiting(q) \cup Queued(q)
  BY <1>3, <1>11, <1>13
<1>15. OnlyOnce(p)
  <2>1. /\ IsInjective(p.read_queue) /\ IsInjective(p.write_buffer)
        /\ IsInjective(p.unified_queue)
    BY SMTT(30), <1>1, <1>5, <1>8, <1>9 DEF OnlyOnce
  <2>2. \A x \in Queues : IsInjective(p.queues[x])
    BY <1>1, <1>7, <1>10 DEF OnlyOnce
  <2>3. Waiting(p) \cap Queued(p) = {}
    BY SMTT(30), <1>1, <1>11, <1>13 DEF OnlyOnce
  <2>4. \A x \in Queues : \A y \in Range(p.queues[x]) : GetQueueIndex(y.addr) = x
    BY <1>1, <1>7, <1>10 DEF OnlyOnce
  <2> QED BY SMTT(30), <2>1, <2>2, <2>3, <2>4 DEF OnlyOnce
<1>16. KindsSeparate(p)
  <2>1. CASE Config.unified_queue
    BY SMTT(30), <2>1, <1>1, <1>8, <1>9 DEF KindsSeparate
  <2>2. CASE ~Config.unified_queue /\ q.write_draining > 0
    BY <2>2, <1>1, <1>5, <1>8, <1>9 DEF KindsSeparate, SourceQueue
  <2>3. CASE ~Config.unified_queue /\ ~(q.write_draining > 0)
    BY SMTT(30), <2>3, <1>1, <1>5, <1>8, <1>9 DEF KindsSeparate, SourceQueue
  <2> QED BY SMTT(30), <2>1, <2>2, <2>3
<1>17. /\ Len(p.read_queue) <= Config.trans_queue_size
       /\ Len(p.unified_queue) <= Config.trans_queue_size
       /\ \A x \in Queues : Len(p.queues[x]) <= Config.cmd_queue_size
  <2>1. Len(u) <= Config.trans_queue_size
    BY <1>2, <1>5, QueueAssumption
  <2>2. Len(c) <= Config.cmd_queue_size
    BY <1>3, <1>6, <1>7, QueueAssumption
  <2> QED BY SMTT(30), <2>1, <2>2, <1>1, <1>8, <1>9, <1>10 DEF Bounded
<1>18. ReadAhead(p)
  <2> SUFFICES ASSUME NEW a \in Addr
               PROVE  /\ Transaction(a, TRUE) \in Queued(p) =>
                             Transaction(a, FALSE) \notin Waiting(p)
                      /\ Ordered(p.unified_queue, a)
                      /\ \A x \in Queues : Ordered(p.queues[x], a)
    BY Zenon DEF ReadAhead
  <2>1. /\ Transaction(a, TRUE) \in Queued(q) => Transaction(a, FALSE) \notin Waiting(q)
        /\ Ordered(q.unified_queue, a)
        /\ \A x \in Queues : Ordered(q.queues[x], a)
    BY Zenon, <1>1 DEF ReadAhead
  <2>2. Ordered(p.unified_queue, a)
    <3>1. CASE Config.unified_queue
      <4>1. Ordered(s, a)
        BY <2>1, <3>1 DEF SourceQueue
      <4>2. Ordered(u, a)
        BY <1>2, <1>3, <4>1, OrderedRemoveAt DEF u
      <4> QED BY <3>1, <4>2, <1>8, <1>9
    <3>2. CASE ~Config.unified_queue
      BY <2>1, <3>2, <1>8, <1>9
    <3> QED BY <3>1, <3>2
  <2>3. ASSUME NEW x \in Queues PROVE Ordered(p.queues[x], a)
    <3>1. CASE x = k
      <4>1. t = Transaction(a, FALSE) => Transaction(a, TRUE) \notin Range(q.queues[k])
        BY Zenon, <1>3, <1>4, <2>1 DEF Queued
      <4>2. Ordered(c, a)
        BY Zenon, <1>3, <1>4, <1>6, <2>1, <4>1, OrderedAppend DEF c
      <4> QED BY <3>1, <4>2, <1>10
    <3>2. CASE x # k
      BY <3>2, <2>1, <1>10
    <3> QED BY <3>1, <3>2
  <2>4. ASSUME t = Transaction(a, TRUE) PROVE Transaction(a, FALSE) \notin Waiting(q)
    <3>1. t.is_write /\ t.addr = a
      BY Zenon, <2>4, TransactionFacts
    <3>2. CASE ~Config.unified_queue
      BY Zenon, <3>1, <3>2, <1>1 DEF PendingMatches
    <3>3. CASE Config.unified_queue
      <4>1. ASSUME Transaction(a, FALSE) \in Waiting(q) PROVE FALSE
        <5>0. Waiting(q) = Range(s)
          BY <3>3, <1>1 DEF Waiting, KindsSeparate, SourceQueue, Range
        <5>1. Transaction(a, FALSE) \in Range(s)
          BY Zenon, <4>1, <5>0
        <5>2. PICK j \in DOMAIN s : s[j] = Transaction(a, FALSE)
          BY Zenon, <5>1 DEF Range
        <5>a. Ordered(s, a)
          BY <2>1, <3>3 DEF SourceQueue
        <5>3. j < i
          BY Zenon, <2>4, <5>2, <5>a, <1>3 DEF Ordered
        <5>4. s[j].addr = t.addr
          <6>1. Transaction(a, FALSE).addr = a
            BY ONLY DEF Transaction
          <6> QED BY ONLY Zenon, <5>2, <3>1, <6>1
        <5>5. j \in Acceptable(q)
          <6>1. WillAcceptCommand(q, s[j].addr)
            BY ONLY <5>4, <1>3 DEF WillAcceptCommand
          <6>2. j \in DOMAIN s
            BY <5>2
          <6> QED BY ONLY <6>1, <6>2 DEF Acceptable
        <5>6. i \in Nat /\ j \in Nat
          BY <1>2, <1>3
        <5> QED BY <5>3, <5>5, <5>6
      <4> QED BY Zenon, <4>1
    <3> QED BY Zenon, <3>2, <3>3
  <2>5. Transaction(a, TRUE) \in Queued(p) => Transaction(a, FALSE) \notin Waiting(p)
    BY Zenon, <2>1, <2>4, <1>11, <1>13
  <2> QED BY Zenon, <2>2, <2>3, <2>5
<1>19. /\ p.write_draining > 0 => t.is_write
       /\ t.is_write /\ ~Config.unified_queue =>
            p.write_draining > 0 /\ Len(p.write_buffer) = Len(q.write_buffer) - 1
       /\ ~(t.is_write /\ ~Config.unified_queue) => p.write_buffer = q.write_buffer
  <2>1. CASE Config.unified_queue
    BY SMTT(30), <2>1, <1>8, <1>9, <1>12
  <2>2. CASE ~Config.unified_queue
    BY SMTT(90), <2>2, <1>5, <1>8, <1>9, <1>12 DEF SourceQueue
  <2> QED BY <2>1, <2>2
<1> QED
  BY <1>9, <1>14, <1>15, <1>16, <1>17, <1>18, <1>19 DEF p, e

(* The drain counter may be set to anything the write buffer can pay for. *)
LEMMA SetDraining ==
  ASSUME NEW q \in QueueRecord, NEW d \in Nat, d <= Len(q.write_buffer),
         PendingMatches(q), OnlyOnce(q), KindsSeparate(q), ReadAhead(q), ~q.exited,
         Len(q.read_queue) <= Config.trans_queue_size,
         Len(q.write_buffer) <= Config.trans_queue_size,
         Len(q.unified_queue) <= Config.trans_queue_size,
         \A k \in Queues : Len(q.queues[k]) <= Config.cmd_queue_size
  PROVE  LET p == [q EXCEPT !.write_draining = d]
         IN QueueInv(p) /\ SamePending(p, q)
<1> DEFINE p == [q EXCEPT !.write_draining = d]
<1>1. /\ p \in QueueRecord /\ SamePending(p, q) /\ p.write_draining = d
      /\ p.read_queue = q.read_queue /\ p.write_buffer = q.write_buffer
      /\ p.unified_queue = q.unified_queue /\ p.queues = q.queues
  BY Zenon DEF QueueRecord, SamePending
<1> HIDE DEF p
<1>2. Waiting(p) = Waiting(q) /\ Queued(p) = Queued(q)
  BY <1>1 DEF Waiting, Queued
<1>3. PendingMatches(p)
  BY Zenon, <1>1, <1>2 DEF PendingMatches, SamePending
<1>4. OnlyOnce(p)
  BY <1>1, <1>2 DEF OnlyOnce
<1>5. KindsSeparate(p) /\ ReadAhead(p)
  BY Zenon, <1>1, <1>2 DEF KindsSeparate, ReadAhead
<1>6. Bounded(p)
  BY <1>1 DEF Bounded
<1>7. QueueInv(p)
  BY <1>1, <1>3, <1>4, <1>5, <1>6 DEF QueueInv, SamePending
<1> QED BY <1>1, <1>7 DEF p

(* The loop body of ScheduleTransaction for the first acceptable            *)
(* transaction preserves the invariant and completes nothing.               *)
LEMMA ScheduleFirstPreserves ==
  ASSUME NEW q, QueueInv(q), NEW i \in Acceptable(q),
         \A j \in Acceptable(q) : i <= j
  PROVE  QueueInv(ScheduleFirst(q, i)) /\ SamePending(ScheduleFirst(q, i), q)
<1> DEFINE t == SourceQueue(q)[i]
           drains == ~Config.unified_queue /\ t.is_write
           p == AddCommand(EraseFromSource(q, i), t)
<1>1. /\ q \in QueueRecord /\ PendingMatches(q) /\ OnlyOnce(q) /\ Bounded(q)
      /\ KindsSeparate(q) /\ ReadAhead(q) /\ ~q.exited
  BY DEF QueueInv
<1>2. CASE drains /\ q.pending_rd_q[t.addr] > 0
  <2>1. ScheduleFirst(q, i) = [q EXCEPT !.write_draining = 0]
    BY <1>2 DEF ScheduleFirst
  <2>2. 0 \in Nat /\ 0 <= Len(q.write_buffer)
    BY <1>1 DEF QueueRecord
  <2> QED BY Zenon, <2>1, <2>2, <1>1, SetDraining DEF Bounded
<1>3. CASE ~(drains /\ q.pending_rd_q[t.addr] > 0)
  <2>1. /\ p \in QueueRecord /\ SamePending(p, q)
        /\ p.write_draining = q.write_draining
        /\ Waiting(p) \cup Queued(p) = Waiting(q) \cup Queued(q)
        /\ OnlyOnce(p) /\ KindsSeparate(p) /\ ReadAhead(p)
        /\ Len(p.read_queue) <= Config.trans_queue_size
        /\ Len(p.unified_queue) <= Config.trans_queue_size
        /\ \A k \in Queues : Len(p.queues[k]) <= Config.cmd_queue_size
        /\ p.write_draining > 0 => t.is_write
        /\ drains => p.write_draining > 0 /\ Len(p.write_buffer) = Len(q.write_buffer) - 1
        /\ ~drains => p.write_buffer = q.write_buffer
    BY Zenon, <1>3, MoveFacts
  <2>2. ScheduleFirst(q, i) =
          IF drains THEN [p EXCEPT !.write_draining = @ - 1] ELSE p
    BY SMTT(20), <1>3 DEF ScheduleFirst
  <2>4. PendingMatches(p) /\ ~p.exited
    BY Zenon, <2>1, <1>1 DEF PendingMatches, SamePending
  <2> HIDE DEF p, t
  <2>3. /\ q.write_draining \in Nat /\ q.write_draining <= Len(q.write_buffer)
        /\ Len(q.write_buffer) \in Nat /\ Len(q.write_buffer) <= Config.trans_queue_size
        /\ Len(p.write_buffer) \in Nat
    <3>1. ASSUME NEW r \in QueueRecord
          PROVE  r.write_draining \in Nat /\ Len(r.write_buffer) \in Nat
      BY ONLY r \in QueueRecord DEF QueueRecord
    <3>2. q.write_draining <= Len(q.write_buffer) /\ Len(q.write_buffer) <= Config.trans_queue_size
      BY ONLY <1>1 DEF Bounded
    <3>3. q \in QueueRecord /\ p \in QueueRecord
      BY ONLY <1>1, <2>1
    <3> QED BY ONLY <3>1, <3>2, <3>3
  <2>5. CASE drains
    <3> DEFINE d == p.write_draining - 1
    <3>1. d \in Nat /\ d <= Len(p.write_buffer) /\ Len(p.write_buffer) <= Config.trans_queue_size
      BY <2>1, <2>3, <2>5, QueueAssumption
    <3>2. ScheduleFirst(q, i) = [p EXCEPT !.write_draining = d]
      BY <2>1, <2>2, <2>5
    <3> HIDE DEF d
    <3>3. QueueInv(ScheduleFirst(q, i)) /\ SamePending(ScheduleFirst(q, i), p)
      BY ONLY <2>1, <2>4, <3>1, <3>2, SetDraining
    <3> QED BY <3>3, <2>1 DEF SamePending
  <2>6. CASE ~drains
    <3>1. Bounded(p)
      BY <2>1, <2>3, <2>6 DEF Bounded
    <3> QED BY SMTT(30), <2>1, <2>2, <2>4, <2>6, <3>1 DEF QueueInv
  <2> QED BY SMTT(20), <2>5, <2>6
<1> QED BY <1>2, <1>3

(* ScheduleTransaction preserves the invariant and completes nothing. *)
LEMMA SchedulePreserves ==
  ASSUME NEW q, QueueInv(q)
  PROVE  QueueInv(ScheduleTransaction(q)) /\ SamePending(ScheduleTransaction(q), q)
<1> DEFINE r == IF DrainStarts(q)
                THEN [q EXCEPT !.write_draining = Len(q.write_buffer)] ELSE q
           i == CHOOSE i \in Acceptable(r) : \A j \in Acceptable(r) : i <= j
<1>1. QueueInv(r) /\ SamePending(r, q)
  <2>1. Len(q.write_buffer) \in Nat /\ q \in QueueRecord
    BY DEF QueueInv, QueueRecord
  <2>2. CASE DrainStarts(q)
    <3> DEFINE d == Len(q.write_buffer)
    <3>1. d \in Nat /\ d <= Len(q.write_buffer)
      BY <2>1
    <3>2. r = [q EXCEPT !.write_draining = d]
      BY <2>2
    <3> HIDE DEF d, r
    <3> QED BY <2>1, <3>1, <3>2, SetDraining DEF QueueInv, Bounded
  <2>3. CASE ~DrainStarts(q)
    BY <2>3 DEF SamePending
  <2> QED BY <2>2, <2>3
<1>2. ScheduleTransaction(q) = IF Acceptable(r) = {} THEN r ELSE ScheduleFirst(r, i)
  BY DEF ScheduleTransaction
<1> HIDE DEF r
<1>3. CASE Acceptable(r) = {}
  BY <1>1, <1>2, <1>3
<1>4. CASE Acceptable(r) # {}
  <2>1. SourceQueue(r) \in Seq(Transactions)
    BY <1>1 DEF QueueInv, QueueRecord, SourceQueue
  <2>2. Acceptable(r) \in SUBSET Nat
    BY <2>1 DEF Acceptable
  <2>3. i \in Acceptable(r) /\ \A j \in Acceptable(r) : i <= j
    BY <2>2, <1>4, MinExists
  <2> HIDE DEF i
  <2>4. QueueInv(ScheduleFirst(r, i)) /\ SamePending(ScheduleFirst(r, i), r)
    BY SMTT(30), <2>3, <1>1, ScheduleFirstPreserves
  <2> QED BY SMTT(30), <2>4, <1>1, <1>2, <1>4 DEF SamePending
<1> QED BY <1>3, <1>4

-----------------------------------------------------------------------------
(* Issuing a queued command. *)

(* Erasing the i-th command of queue k leaves everything else in place. *)
LEMMA EraseFacts ==
  ASSUME NEW q, QueueInv(q), NEW k \in Queues, NEW i \in DOMAIN q.queues[k]
  PROVE  LET t == q.queues[k][i]
             e == EraseRWCommand(q, t)
         IN /\ t \in Transactions /\ t \in Queued(q)
            /\ e \in QueueRecord /\ SamePending(e, q)
            /\ Waiting(e) = Waiting(q) /\ Queued(e) = Queued(q) \ {t}
            /\ OnlyOnce(e) /\ Bounded(e) /\ KindsSeparate(e) /\ ReadAhead(e)
<1> DEFINE s == q.queues[k]
           t == s[i]
           u == RemoveAt(s, i)
           e == EraseRWCommand(q, t)
<1>1. /\ q \in QueueRecord /\ OnlyOnce(q) /\ Bounded(q) /\ KindsSeparate(q)
      /\ ReadAhead(q)
  BY DEF QueueInv
<1>2. q.queues \in [Queues -> Seq(Transactions)]
  BY <1>1 DEF QueueRecord
<1>3. s \in Seq(Transactions) /\ IsInjective(s)
  BY <1>1, <1>2 DEF OnlyOnce
<1>4. t \in Transactions /\ t \in Range(s) /\ t \in Queued(q)
  BY <1>3 DEF Range, Queued
<1>5. GetQueueIndex(t.addr) = k
  BY <1>1, <1>4 DEF OnlyOnce
<1>6. \A j \in DOMAIN s : s[j] = t <=> j = i
  BY <1>3 DEF IsInjective
<1>7. (CHOOSE j \in DOMAIN s : s[j] = t /\ \A l \in 1 .. j - 1 : s[l] # t) = i
  <2>1. \A l \in 1 .. i - 1 : l \in DOMAIN s /\ l # i
    BY <1>3
  <2> QED BY <1>6, <2>1
<1>8. /\ u \in Seq(Transactions) /\ Len(u) = Len(s) - 1
      /\ Range(u) = Range(s) \ {t} /\ IsInjective(u)
  BY <1>3, RemoveAtElements, RangeRemoveAt
<1> DEFINE g == [q.queues EXCEPT ![k] = u]
<1>9. e = [q EXCEPT !.queues = g]
  <2>1. e = [q EXCEPT !.queues[k] = RemoveAt(@, CHOOSE j \in DOMAIN @ :
                           @[j] = t /\ \A l \in 1 .. j - 1 : @[l] # t)]
    BY <1>5 DEF EraseRWCommand
  <2> QED BY Zenon, <2>1, <1>1, <1>2, <1>7 DEF QueueRecord
<1>10. g \in [Queues -> Seq(Transactions)]
  <2> HIDE DEF u
  <2> QED BY <1>2, <1>8
<1> HIDE DEF g, e
<1>11. /\ e \in QueueRecord /\ SamePending(e, q) /\ e.queues = g
       /\ e.read_queue = q.read_queue /\ e.write_buffer = q.write_buffer
       /\ e.unified_queue = q.unified_queue /\ e.write_draining = q.write_draining
  BY ONLY Zenon, <1>1, <1>9, <1>10 DEF QueueRecord, SamePending
<1>12. \A x \in Queues : e.queues[x] = IF x = k THEN u ELSE q.queues[x]
  <2> HIDE DEF u
  <2> QED BY <1>2, <1>11 DEF g
<1> HIDE DEF u
<1>13. Waiting(e) = Waiting(q)
  BY <1>11 DEF Waiting
<1>14. \A x \in Queues : t \in Range(q.queues[x]) => x = k
  BY <1>1, <1>5 DEF OnlyOnce
<1>15. Queued(e) = Queued(q) \ {t}
  <2>1. ASSUME NEW y \in Queued(e) PROVE y \in Queued(q) \ {t}
    <3>1. PICK x \in Queues : y \in Range(e.queues[x])
      BY DEF Queued
    <3>2. y \in Range(q.queues[x]) /\ y # t
      BY SMTT(30), <3>1, <1>8, <1>12, <1>14
    <3> QED BY <3>2 DEF Queued
  <2>2. ASSUME NEW y \in Queued(q), y # t PROVE y \in Queued(e)
    <3>1. PICK x \in Queues : y \in Range(q.queues[x])
      BY DEF Queued
    <3>2. y \in Range(e.queues[x])
      BY SMTT(30), <2>2, <3>1, <1>8, <1>12
    <3> QED BY <3>2 DEF Queued
  <2> QED BY <2>1, <2>2
<1>16. OnlyOnce(e)
  <2>1. \A x \in Queues : IsInjective(e.queues[x])
    BY SMTT(30), <1>1, <1>8, <1>12 DEF OnlyOnce
  <2>2. Waiting(e) \cap Queued(e) = {}
    BY SMTT(30), <1>1, <1>13, <1>15 DEF OnlyOnce
  <2>3. \A x \in Queues : \A y \in Range(e.queues[x]) : GetQueueIndex(y.addr) = x
    BY <1>1, <1>8, <1>12 DEF OnlyOnce
  <2> QED BY SMTT(30), <2>1, <2>2, <2>3, <1>1, <1>11 DEF OnlyOnce
<1>17. Bounded(e) /\ KindsSeparate(e)
  <2>1. Len(u) <= Config.cmd_queue_size
    BY <1>1, <1>3, <1>8, QueueAssumption DEF Bounded
  <2> QED BY <2>1, <1>1, <1>11, <1>12 DEF Bounded, KindsSeparate
<1>18. ReadAhead(e)
  <2>1. ASSUME NEW a \in Addr, NEW x \in Queues PROVE Ordered(e.queues[x], a)
    <3>1. Ordered(q.queues[x], a)
      BY Zenon, <1>1 DEF ReadAhead
    <3>2. CASE x = k
      <4>1. Ordered(u, a)
        BY SMTT(30), <1>3, <3>1, <3>2, OrderedRemoveAt DEF u
      <4> QED BY <4>1, <3>2, <1>12
    <3>3. CASE x # k
      BY SMTT(30), <3>1, <3>3, <1>12
    <3> QED BY <3>2, <3>3
  <2> QED BY Zenon, <2>1, <1>1, <1>11, <1>13, <1>15 DEF ReadAhead
<1> QED
  BY <1>4, <1>11, <1>13, <1>15, <1>16, <1>17, <1>18 DEF e

(* A write that may be issued has no pending read of its address: an older  *)
(* read would be ahead of it in the same command queue, where               *)
(* HasRWDependency sees it.                                                 *)
LEMMA NoReadBehindWrite ==
  ASSUME NEW q, QueueInv(q), NEW k \in Queues, NEW i \in DOMAIN q.queues[k],
         q.queues[k][i].is_write, ~HasRWDependency(q.queues[k], i)
  PROVE  q.pending_rd_q[q.queues[k][i].addr] = 0
<1> DEFINE s == q.queues[k]
           t == s[i]
           a == t.addr
           rd == Transaction(a, FALSE)
<1>1. /\ q \in QueueRecord /\ OnlyOnce(q) /\ ReadAhead(q) /\ PendingMatches(q)
  BY DEF QueueInv
<1>2. t \in Transactions /\ t \in Queued(q)
  BY EraseFacts
<1>3. a \in Addr /\ t = Transaction(a, TRUE)
  BY ONLY Zenon, <1>2, t.is_write, TransactionFacts
<1>4. rd \in Transactions /\ rd.addr = a /\ ~rd.is_write
  BY ONLY Zenon, <1>3, TransactionFacts
<1>5. rd \notin Waiting(q)
  BY Zenon, <1>1, <1>2, <1>3 DEF ReadAhead
<1>6. s \in Seq(Transactions)
  BY <1>1 DEF QueueRecord
<1>7. ASSUME rd \in Queued(q) PROVE FALSE
  <2>1. PICK x \in Queues : rd \in Range(q.queues[x])
    BY Zenon, <1>7 DEF Queued
  <2>2. GetQueueIndex(rd.addr) = x /\ GetQueueIndex(t.addr) = k
    <3>1. t \in Range(s)
      BY DEF Range
    <3> QED BY Zenon, <1>1, <2>1, <3>1 DEF OnlyOnce
  <2>3. x = k
    BY Zenon, <2>2, <1>4
  <2>4. PICK j \in DOMAIN s : s[j] = rd
    BY Zenon, <2>1, <2>3 DEF Range
  <2>5. Ordered(s, a)
    BY Zenon, <1>1, <1>3 DEF ReadAhead
  <2>6. j < i
    BY Zenon, <1>3, <2>4, <2>5 DEF Ordered
  <2>7. j \in 1 .. i - 1
    BY <2>6, <1>6
  <2>8. ~s[j].is_write /\ s[j].addr = t.addr
    BY ONLY Zenon, <1>4, <2>4
  <2>9. HasRWDependency(s, i)
    BY Zenon, <2>7, <2>8 DEF HasRWDependency
  <2> QED BY <2>9
<1>8. q.pending_rd_q[a] \in Nat /\ ~(q.pending_rd_q[a] > 0)
  BY Zenon, <1>1, <1>3, <1>5, <1>7 DEF PendingMatches, QueueRecord
<1> QED BY <1>8

(* Issuing a command preserves the invariant: IssueCommand finds what it    *)
(* looks for in the pending queues and removes exactly that.                *)
LEMMA IssuePreserves ==
  ASSUME NEW q, QueueInv(q), NEW p \in Issued(q)
  PROVE  /\ QueueInv(p)
         /\ \A a \in q.pending_wr_q \ p.pending_wr_q : q.pending_rd_q[a] = 0
<1>1. CASE p = q
  BY <1>1
<1>2. ASSUME NEW k \in Queues, NEW i \in DOMAIN q.queues[k],
             q.queues[k][i].is_write => ~HasRWDependency(q.queues[k], i),
             p = CompleteRW(EraseRWCommand(q, q.queues[k][i]), q.queues[k][i], FALSE)
      PROVE  /\ QueueInv(p)
             /\ \A a \in q.pending_wr_q \ p.pending_wr_q : q.pending_rd_q[a] = 0
  <2> DEFINE t == q.queues[k][i]
             e == EraseRWCommand(q, t)
             b == t.addr
  <2>1. /\ t \in Transactions /\ t \in Queued(q)
        /\ e \in QueueRecord /\ SamePending(e, q)
        /\ Waiting(e) = Waiting(q) /\ Queued(e) = Queued(q) \ {t}
        /\ OnlyOnce(e) /\ Bounded(e) /\ KindsSeparate(e) /\ ReadAhead(e)
    BY SMTT(30), EraseFacts
  <2>2. t.is_write => q.pending_rd_q[b] = 0
    BY <1>2, NoReadBehindWrite
  <2>3. p = CompleteRW(e, t, FALSE)
    BY SMTT(20), <1>2
  <2>4. t \notin Waiting(q) /\ PendingMatches(q) /\ ~q.exited /\ q \in QueueRecord
    BY Zenon, <2>1 DEF QueueInv, OnlyOnce
  <2> HIDE DEF t, e
  <2>5. b \in Addr /\ t.is_write \in BOOLEAN /\ t = Transaction(b, t.is_write)
          /\ \A a \in Addr, w \in BOOLEAN :
               Transaction(a, w) = t <=> a = b /\ w = t.is_write
    BY ONLY <2>1, TransactionFacts
  <2>6. \A a \in Addr :
          /\ Transaction(a, TRUE) \in Waiting(e) \cup Queued(e)
                <=> a \in q.pending_wr_q /\ ~(t.is_write /\ a = b)
          /\ Transaction(a, FALSE) \in Waiting(e) \cup Queued(e)
                <=> q.pending_rd_q[a] > 0 /\ ~(~t.is_write /\ a = b)
    BY ONLY Zenon, <2>1, <2>4, <2>5 DEF PendingMatches
  <2>7. CASE t.is_write
    <3> DEFINE w == e.pending_wr_q \ {b}
    <3>1. b \in e.pending_wr_q /\ e.exited = FALSE
      BY Zenon, <2>1, <2>4, <2>5, <2>7 DEF PendingMatches, SamePending, QueueRecord
    <3>2. p = [e EXCEPT !.pending_wr_q = w, !.exited = FALSE]
      BY Zenon, <2>1, <2>3, <2>7, <3>1 DEF CompleteRW, QueueRecord
    <3>3. w \in SUBSET Addr
      BY <2>1 DEF QueueRecord
    <3> HIDE DEF w
    <3>4. /\ p \in QueueRecord /\ SameQueues(p, e) /\ ~p.exited
          /\ p.pending_wr_q = w /\ p.pending_rd_q = e.pending_rd_q
      BY ONLY Zenon, <2>1, <3>2, <3>3 DEF QueueRecord, SameQueues
    <3>5. PendingMatches(p)
      <4>1. Waiting(p) = Waiting(e) /\ Queued(p) = Queued(e)
        BY <3>4, SameQueuesFacts
      <4> QED BY Zenon, <4>1, <2>1, <2>6, <2>7, <3>4 DEF PendingMatches, SamePending, w
    <3>6. QueueInv(p)
      BY SMTT(30), <2>1, <3>4, <3>5, SameQueuesFacts DEF QueueInv
    <3>7. \A a \in q.pending_wr_q \ p.pending_wr_q : a = b
      BY <2>1, <3>4 DEF w, SamePending
    <3> QED BY <3>6, <3>7, <2>2, <2>7
  <2>8. CASE ~t.is_write
    <3> DEFINE n == e.pending_rd_q[b]
               r == PushReturn(e, t, n, Config.read_delay)
               f == [e.pending_rd_q EXCEPT ![b] = 0]
    <3>1. n \in Nat /\ n # 0 /\ e.exited = FALSE
      <4>1. q.pending_rd_q[b] \in Nat /\ q.pending_rd_q[b] > 0
        BY Zenon, <2>1, <2>4, <2>5, <2>8 DEF PendingMatches, QueueRecord
      <4> QED BY SMTT(20), <4>1, <2>1, <2>4 DEF SamePending, QueueRecord
    <3>2. Config.read_delay \in 0 .. Config.read_delay
      BY SMTT(30), QueueAssumption
    <3>3. r \in QueueRecord /\ SameQueues(r, e) /\ SamePending(r, e)
      BY <2>1, <3>1, <3>2, PushReturnFacts
    <3>4. f \in [Addr -> Nat]
      BY <2>1, <2>5 DEF QueueRecord
    <3>5. p = [r EXCEPT !.pending_rd_q = f, !.exited = FALSE]
      <4>1. p = [r EXCEPT !.pending_rd_q[b] = 0,
                          !.exited = @ \/ (~FALSE /\ e.pending_rd_q[b] = 0)]
        BY <2>3, <2>8 DEF CompleteRW
      <4>2. r.pending_rd_q = e.pending_rd_q /\ r.exited = FALSE
        BY <3>1, <3>3 DEF SamePending
      <4> HIDE DEF r
      <4> QED BY Zenon, <4>1, <4>2, <3>1, <3>3 DEF QueueRecord
    <3> HIDE DEF r, f, n
    <3>6. /\ p \in QueueRecord /\ SameQueues(p, e) /\ ~p.exited
          /\ p.pending_rd_q = f /\ p.pending_wr_q = e.pending_wr_q
      BY ONLY Zenon, <3>3, <3>4, <3>5 DEF QueueRecord, SameQueues, SamePending
    <3>7. \A a \in Addr : p.pending_rd_q[a] = IF a = b THEN 0 ELSE q.pending_rd_q[a]
      BY Zenon, <2>1, <2>4, <3>6 DEF f, SamePending, QueueRecord
    <3>8. PendingMatches(p)
      <4>1. Waiting(p) = Waiting(e) /\ Queued(p) = Queued(e)
        BY <3>6, SameQueuesFacts
      <4>2. \A a \in Addr : p.pending_rd_q[a] > 0 <=> q.pending_rd_q[a] > 0 /\ a # b
        BY ONLY SMTT(20), <3>7
      <4>3. p.pending_wr_q = q.pending_wr_q
        BY SMTT(20), <2>1, <3>6 DEF SamePending
      <4> QED BY ONLY Zenon, <4>1, <4>2, <4>3, <2>6, <2>8 DEF PendingMatches
    <3>9. QueueInv(p)
      BY <2>1, <3>6, <3>8, SameQueuesFacts DEF QueueInv
    <3> QED BY SMTT(30), <3>9, <3>6, <2>1 DEF SamePending
  <2> QED BY SMTT(30), <2>7, <2>8
<1> QED BY Zenon, <1>1, <1>2 DEF Issued

-----------------------------------------------------------------------------
(* The theorems. *)

(* Returning what is due and advancing the clock touch the return queue only. *)
LEMMA ReturnPreserves ==
  ASSUME NEW q, QueueInv(q)
  PROVE  /\ QueueInv(ReturnDone(q)) /\ SamePending(ReturnDone(q), q)
         /\ QueueInv(ReturnAged(q)) /\ SamePending(ReturnAged(q), q)
<1> DEFINE r == q.return_queue
           D == [s \in ReturnSlots |-> IF s[3] = 0 THEN 0 ELSE r[s]]
           A == [s \in ReturnSlots |->
                   (IF s[3] < Config.read_delay THEN r[<<s[1], s[2], s[3] + 1>>] ELSE 0)
                     + (IF s[3] = 0 THEN r[s] ELSE 0)]
<1>1. q \in QueueRecord /\ r \in [ReturnSlots -> Nat]
  BY DEF QueueInv, QueueRecord
<1>2. D \in [ReturnSlots -> Nat]
  BY <1>1
<1>3. A \in [ReturnSlots -> Nat]
  <2> SUFFICES ASSUME NEW s \in ReturnSlots
               PROVE  (IF s[3] < Config.read_delay THEN r[<<s[1], s[2], s[3] + 1>>] ELSE 0)
                        + (IF s[3] = 0 THEN r[s] ELSE 0) \in Nat
    OBVIOUS
  <2>1. s[1] \in Addr /\ s[2] \in BOOLEAN /\ s[3] \in 0 .. Config.read_delay
    BY DEF ReturnSlots
  <2>2. s[3] < Config.read_delay => <<s[1], s[2], s[3] + 1>> \in ReturnSlots
    BY <2>1, QueueAssumption DEF ReturnSlots
  <2> HIDE DEF r
  <2>3. s[3] < Config.read_delay => r[<<s[1], s[2], s[3] + 1>>] \in Nat
    BY <2>2, <1>1
  <2>4. r[s] \in Nat
    BY <1>1
  <2> QED BY <2>3, <2>4
<1>4. ASSUME NEW f \in [ReturnSlots -> Nat]
      PROVE  LET p == [q EXCEPT !.return_queue = f]
             IN QueueInv(p) /\ SamePending(p, q)
  <2> DEFINE p == [q EXCEPT !.return_queue = f]
  <2>1. p \in QueueRecord /\ SameQueues(p, q) /\ SamePending(p, q)
    BY Zenon, <1>1 DEF QueueRecord, SameQueues, SamePending
  <2> HIDE DEF p
  <2>2. QueueInv(p)
    BY <2>1, FramePreserves
  <2> QED BY <2>1, <2>2 DEF p
<1>5. ReturnDone(q) = [q EXCEPT !.return_queue = D]
  BY <1>1 DEF ReturnDone, QueueRecord
<1>6. ReturnAged(q) = [q EXCEPT !.return_queue = A]
  BY <1>1 DEF ReturnAged, QueueRecord
<1> HIDE DEF D, A
<1> QED BY SMTT(20), <1>2, <1>3, <1>4, <1>5, <1>6

(* A new controller satisfies the invariant. *)
LEMMA InitInvariant == Init => IInv
<1> SUFFICES ASSUME Init PROVE IInv
  OBVIOUS
<1>1. tq = InitQueues /\ callbacks \in [Kinds -> Nat]
  BY DEF Init, NoCallbacks
<1>2. tq \in QueueRecord
  <2>1. <<>> \in Seq(Transactions)
    OBVIOUS
  <2>2. [q \in Queues |-> <<>>] \in [Queues -> Seq(Transactions)]
    BY <2>1
  <2>3. /\ [a \in Addr |-> 0] \in [Addr -> Nat] /\ {} \in SUBSET Addr
        /\ [r \in Ranks |-> TRUE] \in [Ranks -> BOOLEAN]
        /\ [s \in ReturnSlots |-> 0] \in [ReturnSlots -> Nat]
        /\ 0 \in Nat /\ FALSE \in BOOLEAN
    OBVIOUS
  <2> QED BY ONLY <1>1, <2>1, <2>2, <2>3 DEF InitQueues, QueueRecord
<1>3. /\ tq.read_queue = <<>> /\ tq.write_buffer = <<>> /\ tq.unified_queue = <<>>
      /\ tq.pending_rd_q = [a \in Addr |-> 0] /\ tq.pending_wr_q = {}
      /\ \A k \in Queues : tq.queues[k] = <<>>
      /\ tq.write_draining = 0 /\ ~tq.exited
  BY Zenon, <1>1 DEF InitQueues
<1>4. Waiting(tq) = {} /\ Queued(tq) = {}
  <2>1. Range(<<>>) = {}
    BY DEF Range
  <2>2. Waiting(tq) = {}
    BY <1>3, <2>1 DEF Waiting
  <2>3. ASSUME NEW y \in Queued(tq) PROVE FALSE
    BY <1>3, <2>1 DEF Queued
  <2> QED BY <2>2, <2>3
<1>5. PendingMatches(tq)
  BY <1>3, <1>4 DEF PendingMatches
<1>6. OnlyOnce(tq)
  <2>1. IsInjective(<<>>) /\ Range(<<>>) = {}
    BY DEF IsInjective, Range
  <2> QED BY <1>3, <1>4, <2>1 DEF OnlyOnce
<1>7. Bounded(tq)
  BY <1>3, QueueAssumption DEF Bounded
<1>8. KindsSeparate(tq)
  BY <1>3 DEF KindsSeparate, Range
<1>9. ReadAhead(tq)
  <2>1. \A i \in DOMAIN <<>> : FALSE
    OBVIOUS
  <2>2. \A a \in Addr : Ordered(<<>>, a)
    BY <2>1 DEF Ordered
  <2> QED BY <1>3, <1>4, <2>2 DEF ReadAhead
<1> QED BY SMTT(30), <1>1, <1>2, <1>3, <1>5, <1>6, <1>7, <1>8, <1>9 DEF IInv, QueueInv

(* Every call of AddTransaction and every cycle preserves the invariant,    *)
(* and a write completes only when no read of its address is pending.       *)
LEMMA NextInvariant ==
  ASSUME IInv, [Next]_vars
  PROVE  /\ IInv'
         /\ \A a \in tq.pending_wr_q \ tq'.pending_wr_q : tq.pending_rd_q[a] = 0
<1>0. QueueInv(tq)
  BY DEF IInv
<1>1. ASSUME NEW t \in Transactions, Add(t)
      PROVE  /\ IInv'
             /\ \A a \in tq.pending_wr_q \ tq'.pending_wr_q : tq.pending_rd_q[a] = 0
  <2>1. QueueInv(tq') /\ tq.pending_wr_q \subseteq tq'.pending_wr_q
    BY <1>0, <1>1, AddPreserves DEF Add
  <2>2. callbacks' \in [Kinds -> Nat]
    BY <1>1 DEF Add, NoCallbacks
  <2>3. IInv'
    BY <2>1, <2>2 DEF IInv
  <2> QED BY <2>1, <2>3
<1>2. CASE Tick
  <2>1. PICK q1 \in Issued(ReturnDone(tq)) : tq' = ReturnAged(ScheduleTransaction(q1))
    BY <1>2 DEF Tick
  <2>2. QueueInv(ReturnDone(tq)) /\ SamePending(ReturnDone(tq), tq)
    BY <1>0, ReturnPreserves
  <2>3. /\ QueueInv(q1)
        /\ \A a \in tq.pending_wr_q \ q1.pending_wr_q : tq.pending_rd_q[a] = 0
    BY <2>1, <2>2, IssuePreserves DEF SamePending
  <2>4. QueueInv(ScheduleTransaction(q1)) /\ SamePending(ScheduleTransaction(q1), q1)
    BY SMTT(20), <2>3, SchedulePreserves
  <2>5. QueueInv(tq') /\ SamePending(tq', q1)
    BY <2>1, <2>4, ReturnPreserves DEF SamePending
  <2>6. callbacks' \in [Kinds -> Nat]
    <3>1. tq.return_queue \in [ReturnSlots -> Nat]
      BY <1>0 DEF QueueInv, QueueRecord
    <3>2. \A k \in Kinds : <<k[1], k[2], 0>> \in ReturnSlots
      BY QueueAssumption DEF Kinds, ReturnSlots
    <3> QED BY <1>2, <3>1, <3>2 DEF Tick
  <2>7. IInv'
    BY <2>5, <2>6 DEF IInv
  <2> QED BY <2>3, <2>5, <2>7 DEF SamePending
<1>3. CASE UNCHANGED vars
  <2>1. tq' = tq /\ callbacks' = callbacks
    BY <1>3 DEF vars
  <2> QED BY <2>1 DEF IInv
<1> QED BY <1>1, <1>2, <1>3 DEF Next

(* The accounting invariant holds in every reachable state. *)
THEOREM Invariance == Spec => []IInv
<1>1. Init => IInv
  BY InitInvariant
<1>2. IInv /\ [Next]_vars => IInv'
  BY NextInvariant
<1> QED BY <1>1, <1>2, PTL DEF Spec

(* The queues and counters of a controller keep their types. *)
THEOREM TypeCorrect == Spec => []TypeOK
<1>1. IInv => TypeOK
  BY DEF IInv, QueueInv, TypeOK
<1> QED BY <1>1, Invariance, PTL

(* A transaction is pending exactly while it is in a transaction or command *)
(* queue: controller.cc never loses one between its containers.             *)
THEOREM PendingCorrect == Spec => []PendingIsQueued
<1>1. IInv => PendingIsQueued
  BY DEF IInv, QueueInv, PendingIsQueued
<1> QED BY <1>1, Invariance, PTL

(* No transaction is ever in two places, and a queued command is in the     *)
(* queue of its own bank or rank.                                           *)
THEOREM QueuedOnceCorrect == Spec => []QueuedOnce
<1>1. IInv => QueuedOnce
  BY DEF IInv, QueueInv, QueuedOnce
<1> QED BY <1>1, Invariance, PTL

(* No queue outgrows its configured size and a write drain counts no more   *)
(* writes than are buffered.                                                *)
THEOREM BoundsCorrect == Spec => []QueuesBounded
<1>1. IInv => QueuesBounded
  BY DEF IInv, QueueInv, QueuesBounded
<1> QED BY <1>1, Invariance, PTL

(* The exit(1) calls of EraseRWCommand and IssueCommand are unreachable.    *)
THEOREM NeverExits == Spec => []NoExit
<1>1. IInv => NoExit
  BY DEF IInv, QueueInv, NoExit
<1> QED BY <1>1, Invariance, PTL

(* A pending read is always ahead of a write of its address.                *)
THEOREM ReadsAheadCorrect == Spec => []ReadsStayAhead
<1>1. IInv => ReadsStayAhead
  BY DEF IInv, QueueInv, ReadsStayAhead
<1> QED BY <1>1, Invariance, PTL

(* No write is issued while a read of its address is pending.               *)
THEOREM WriteAfterReadCorrect == Spec => WriteAfterRead
<1>1. IInv /\ [Next]_vars =>
        [\A a \in tq.pending_wr_q \ tq'.pending_wr_q : tq.pending_rd_q[a] = 0]_vars
  BY NextInvariant
<1> QED BY <1>1, Invariance, PTL DEF Spec, WriteAfterRead
=============================================================================
