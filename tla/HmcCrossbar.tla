---------------------------- MODULE HmcCrossbar -----------------------------
(***************************************************************************)
(* HMCMemorySystem (src/src/hmc.cc): links, a two-layer crossbar of input  *)
(* and output buffers, and vaults.  A vault controller is abstracted to    *)
(* what TransactionFlow guarantees: it accepts a transaction when it has   *)
(* room and hands each accepted one back once, in some later DRAM cycle.   *)
(* exit_time is kept as the remaining number of logic cycles `wait'.       *)
(***************************************************************************)
EXTENDS SequencesExt, Integers

CONSTANTS Addr,
          VaultOf,         \* address -> vault (GetChannel)
          Requests,        \* the <<addr, is_write>> the client sends
          block_size,      \* bytes per transaction
          links,           \* config_.num_links
          quads,           \* 4 in the code
          queue_depth,     \* config_.xbar_queue_depth
          VaultDepth,      \* bound: transactions a vault holds
          ps_per_dram, ps_per_logic,
          MaxOutstanding   \* bound: unanswered transactions per kind

VARIABLES h,               \* the crossbar, see Init
          callbacks        \* <<addr, is_write>> -> callbacks made by this step

vars == <<h, callbacks>>

Links == 0 .. links - 1
Quads == 0 .. quads - 1
Kinds == Addr \X BOOLEAN
NoCallbacks == [k \in Kinds |-> 0]

ASSUME HmcAssumption ==
  /\ links \in Nat \ {0} /\ quads \in Nat \ {0} /\ queue_depth \in Nat \ {0}
  /\ ps_per_logic \in 1 .. ps_per_dram
  /\ block_size \in {0, 32, 64, 128, 256}      \* AbruptExit otherwise
  /\ VaultOf \in [Addr -> Nat] /\ Requests \subseteq Kinds

(* Flits of the request and of the response: data of block_size bytes takes *)
(* a flit per 16 bytes on top of the header; block_size 0 is free.          *)
DataFlits == IF block_size = 0 THEN 0 ELSE 1 + block_size \div 16
HeaderFlits == IF block_size = 0 THEN 0 ELSE 1
RequestFlits(is_write) == IF is_write THEN DataFlits ELSE HeaderFlits
ResponseFlits(is_write) == IF is_write THEN HeaderFlits ELSE DataFlits

QuadOf(addr) == VaultOf[addr] % quads

(* Age counters are only ever compared with link and quad indices           *)
(* (BuildAgeQueue): they saturate above the largest index.                  *)
MaxAge == IF links > quads THEN links ELSE quads
Stalled(age) == IF age = MaxAge THEN age ELSE age + 1

(* logic_clk_ is only used modulo the numbers of links and of quads. *)
RoundRobin == links * quads

Init ==
  /\ h = [link_req_queues |-> [l \in Links |-> <<>>],
          quad_req_queues |-> [q \in Quads |-> <<>>],
          quad_resp_queues |-> [q \in Quads |-> <<>>],
          link_resp_queues |-> [l \in Links |-> <<>>],
          link_busy |-> [l \in Links |-> 0], quad_busy |-> [q \in Quads |-> 0],
          link_age_counter |-> [l \in Links |-> 0],
          quad_age_counter |-> [q \in Quads |-> 0],
          resp_lookup_table |-> [a \in Addr |-> <<>>],
          dram |-> [k \in Kinds |-> 0],      \* accepted by a vault, not returned
          next_link |-> 0, logic_clk |-> 0,
          phase |-> 0,                       \* logic_ps_ - dram_ps_
          answers |-> NoCallbacks]           \* callbacks of the current tick
  /\ callbacks = NoCallbacks

-----------------------------------------------------------------------------
(* How many entries of a queue, or of all queues of a layer, are of kind k. *)
CountIn(queue, k) ==
  Cardinality({i \in DOMAIN queue : <<queue[i].addr, queue[i].is_write>> = k})
CountAll(queues, k) ==
  SumFunction([x \in DOMAIN queues |-> CountIn(queues[x], k)])

(* Requests on their way to a vault or inside it; responses waiting for the *)
(* vault; responses on their way back.                                      *)
Requested(k) == CountAll(h.link_req_queues, k) + CountAll(h.quad_req_queues, k) + h.dram[k]
Awaited(k) == CountIn(h.resp_lookup_table[k[1]], k)
Returning(k) == CountAll(h.quad_resp_queues, k) + CountAll(h.link_resp_queues, k)
Outstanding(k) == Awaited(k) + Returning(k)

-----------------------------------------------------------------------------
WillAcceptTransaction == \E l \in Links : Len(h.link_req_queues[l]) < queue_depth

(* InsertReqToLink, with the IterateNextLink that follows it. *)
InsertReqToLink(req, link) ==
  [h EXCEPT !.link_req_queues[link] = Append(@, req),
            !.resp_lookup_table[req.addr] =
              Append(@, [addr |-> req.addr, is_write |-> req.is_write, link |-> link]),
            !.link_age_counter[link] = 1,
            !.next_link = (link + 1) % links]

(* AddTransaction and InsertHMCReq: the first link with room, round robin. *)
AddTransaction(k) ==
  /\ WillAcceptTransaction
  /\ Outstanding(k) < MaxOutstanding
  /\ LET room == {n \in 0 .. links - 1 :
                    Len(h.link_req_queues[(h.next_link + n) % links]) < queue_depth}
         n == CHOOSE n \in room : \A m \in room : n <= m
     IN h' = InsertReqToLink([addr |-> k[1], is_write |-> k[2]],
                             (h.next_link + n) % links)
  /\ callbacks' = NoCallbacks

-----------------------------------------------------------------------------
(* The order in which inputs with a positive age are served.  An input is   *)
(* inserted before the first one whose INDEX is below its age.              *)
BuildAgeQueue(age_counter, count, clk) ==
  LET Insert(queue, pos) ==
        LET before == {i \in DOMAIN queue : age_counter[pos] > queue[i]}
        IN IF age_counter[pos] = 0 THEN queue
           ELSE IF before = {} THEN Append(queue, pos)
           ELSE InsertAt(queue, CHOOSE i \in before : \A j \in before : i <= j, pos)
  IN FoldLeft(Insert, <<>>, [i \in 1 .. count |-> (clk + i - 1) % count])

(* Mutant: a last single flit is never drained. *)
DrainXbarOffByOne(busy) ==
  [x \in DOMAIN busy |-> IF busy[x] > 1 THEN busy[x] - 2 ELSE busy[x]]

DrainXbar(busy) == [x \in DOMAIN busy |-> IF busy[x] > 0 THEN busy[x] - 2 ELSE busy[x]]

(* From the head of an input queue to an output that has room and is not    *)
(* busy; a packet occupies the output for as many cycles as it has flits.   *)
LinkToQuad(g, l) ==
  LET req == Head(g.link_req_queues[l])
      q == QuadOf(req.addr)
      flits == RequestFlits(req.is_write)
  IN IF Len(g.quad_req_queues[q]) < queue_depth /\ g.quad_busy[q] <= 0
     THEN [g EXCEPT !.link_req_queues[l] = Tail(@),
                    !.quad_req_queues[q] =
                      Append(@, [addr |-> req.addr, is_write |-> req.is_write, wait |-> flits]),
                    !.quad_busy[q] = flits,
                    !.link_age_counter[l] = IF Len(g.link_req_queues[l]) = 1 THEN 0 ELSE 1]
     ELSE [g EXCEPT !.link_age_counter[l] = Stalled(@)]

(* Mutant: the age counter is cleared although more responses wait. *)
QuadToLinkForgets(g, q) ==
  LET resp == Head(g.quad_resp_queues[q])
      l == resp.link
      flits == ResponseFlits(resp.is_write)
  IN IF Len(g.link_resp_queues[l]) < queue_depth /\ g.link_busy[l] <= 0
     THEN [g EXCEPT !.quad_resp_queues[q] = Tail(@),
                    !.link_resp_queues[l] =
                      Append(@, [addr |-> resp.addr, is_write |-> resp.is_write, wait |-> flits]),
                    !.link_busy[l] = flits,
                    !.quad_age_counter[q] = 0]
     ELSE [g EXCEPT !.quad_age_counter[q] = Stalled(@)]

(* Mutant: the output buffer is not asked for room. *)
QuadToLinkOverfills(g, q) ==
  LET resp == Head(g.quad_resp_queues[q])
      l == resp.link
      flits == ResponseFlits(resp.is_write)
  IN [g EXCEPT !.quad_resp_queues[q] = Tail(@),
               !.link_resp_queues[l] =
                 Append(@, [addr |-> resp.addr, is_write |-> resp.is_write, wait |-> flits]),
               !.link_busy[l] = flits,
               !.quad_age_counter[q] = IF Len(g.quad_resp_queues[q]) = 1 THEN 0 ELSE 1]

QuadToLink(g, q) ==
  LET resp == Head(g.quad_resp_queues[q])
      l == resp.link
      flits == ResponseFlits(resp.is_write)
  IN IF Len(g.link_resp_queues[l]) < queue_depth /\ g.link_busy[l] <= 0
     THEN [g EXCEPT !.quad_resp_queues[q] = Tail(@),
                    !.link_resp_queues[l] =
                      Append(@, [addr |-> resp.addr, is_write |-> resp.is_write, wait |-> flits]),
                    !.link_busy[l] = flits,
                    !.quad_age_counter[q] = IF Len(g.quad_resp_queues[q]) = 1 THEN 0 ELSE 1]
     ELSE [g EXCEPT !.quad_age_counter[q] = Stalled(@)]

-----------------------------------------------------------------------------
VaultLoad(g, v) ==
  SumFunctionOnSet(g.dram, {k \in Kinds : VaultOf[k[1]] = v})

(* InsertReqToDRAM for the head of quad q, if its vault will have it. *)
QuadToVault(g, q) ==
  LET req == Head(g.quad_req_queues[q])
  IN IF /\ g.quad_req_queues[q] # <<>> /\ Len(g.quad_resp_queues[q]) < queue_depth
        /\ req.wait = 0 /\ VaultLoad(g, VaultOf[req.addr]) < VaultDepth
     THEN [g EXCEPT !.quad_req_queues[q] = Tail(@),
                    !.dram[<<req.addr, req.is_write>>] = @ + 1]
     ELSE g

DrainRequests(g) ==
  LET g1 == FoldLeft(QuadToVault, g, [i \in 1 .. quads |-> i - 1])
      g2 == [g1 EXCEPT !.quad_busy = DrainXbar(@)]
  IN FoldLeft(LinkToQuad, g2, BuildAgeQueue(g2.link_age_counter, links, g2.logic_clk))

(* The head of a link's response queue reaches the CPU. *)
LinkToCpu(g, l) ==
  LET resp == Head(g.link_resp_queues[l])
  IN IF g.link_resp_queues[l] # <<>> /\ resp.wait = 0
     THEN [g EXCEPT !.link_resp_queues[l] = Tail(@),
                    !.answers[<<resp.addr, resp.is_write>>] = @ + 1]
     ELSE g

DrainResponses(g) ==
  LET g1 == FoldLeft(LinkToCpu, g, [i \in 1 .. links |-> i - 1])
      g2 == [g1 EXCEPT !.link_busy = DrainXbar(@)]
  IN FoldLeft(QuadToLink, g2, BuildAgeQueue(g2.quad_age_counter, quads, g2.logic_clk))

(* logic_clk_ += 1 *)
LogicClock(g) ==
  LET AgedAll(queues) ==
        [x \in DOMAIN queues |->
           [i \in DOMAIN queues[x] |->
              [queues[x][i] EXCEPT !.wait = IF @ = 0 THEN 0 ELSE @ - 1]]]
  IN [g EXCEPT !.quad_req_queues = AgedAll(@), !.link_resp_queues = AgedAll(@),
               !.logic_clk = (@ + 1) % RoundRobin,
               !.phase = @ + ps_per_logic]

(* Mutant: the entry is not erased. *)
VaultCallbackKeepsEntry(g, addr) ==
  LET resp == Head(g.resp_lookup_table[addr])
  IN [g EXCEPT !.quad_resp_queues[QuadOf(addr)] = Append(@, resp),
               !.quad_age_counter[QuadOf(addr)] = 1]

(* The multimap is searched by address alone: the response entered first is *)
(* taken, whichever request the vault has finished.                         *)
VaultCallback(g, addr) ==
  LET resp == Head(g.resp_lookup_table[addr])
  IN [g EXCEPT !.resp_lookup_table[addr] = Tail(@),
               !.quad_resp_queues[QuadOf(addr)] = Append(@, resp),
               !.quad_age_counter[QuadOf(addr)] = 1]

(* The vaults finish the transactions of the sequence done, then the vault  *)
(* controllers take a cycle.                                                *)
DRAMClockTick(g, done) ==
  LET Finish(f, d) == VaultCallback([f EXCEPT !.dram[d[1]] = @ - 1], d[1][1])
  IN FoldLeft(Finish, g, done)

(* The logic cycles that fit before the next DRAM cycle; one of them comes  *)
(* around the DRAM cycle when the two clocks are aligned.                   *)
ClockTick(done) ==
  LET g0 == [h EXCEPT !.answers = NoCallbacks]
      aligned == h.phase = 0
      g1 == IF aligned
            THEN LogicClock(DrainRequests(DRAMClockTick(DrainResponses(g0), done)))
            ELSE DRAMClockTick(g0, done)
      cycles == (ps_per_dram - g1.phase + ps_per_logic - 1) \div ps_per_logic
      Cycle(g, i) == LogicClock(DrainRequests(DrainResponses(g)))
      g2 == FoldLeft(Cycle, g1, [i \in 1 .. cycles |-> i])
  IN /\ h' = [g2 EXCEPT !.phase = @ - ps_per_dram, !.answers = NoCallbacks]
     /\ callbacks' = g2.answers

(* What the vaults may finish in one cycle: any of what they hold. *)
InDram == {<<k, n>> \in Kinds \X (1 .. VaultDepth) : n <= h.dram[k]}

Next ==
  \/ \E k \in Requests : AddTransaction(k)
  \/ \E done \in UNION {SetToSeqs(S) : S \in SUBSET InDram} : ClockTick(done)

Spec == Init /\ [][Next]_vars

(* ClockTick is called in every cycle; being always enabled, its weak        *)
(* fairness is that it is taken again and again.                             *)
ClockAdvances == []<><<h'.logic_clk # h.logic_clk>>_vars

(* A vault finishes what it has accepted (ReadsAnswered of ControllerSystem).*)
VaultFinishes(a) ==
  []<><<\/ \A w \in BOOLEAN : h.dram[<<a, w>>] = 0
       \/ Len(h'.resp_lookup_table[a]) < Len(h.resp_lookup_table[a])>>_vars

FairSpec == Spec /\ ClockAdvances /\ \A a \in Addr : VaultFinishes(a)

-----------------------------------------------------------------------------
(* No buffer outgrows its depth.  A quad's response buffer is only looked   *)
(* at before a request enters a vault, so it may exceed it by what the      *)
(* quad's vaults hold, and by no more.                                      *)
BuffersBounded ==
  /\ \A l \in Links : /\ Len(h.link_req_queues[l]) <= queue_depth
                      /\ Len(h.link_resp_queues[l]) <= queue_depth
  /\ \A q \in Quads :
       /\ Len(h.quad_req_queues[q]) <= queue_depth
       /\ Len(h.quad_resp_queues[q])
            + SumFunctionOnSet(h.dram, {k \in Kinds : QuadOf(k[1]) = q})
            <= queue_depth - 1 + VaultDepth * Cardinality({VaultOf[a] : a \in {b \in Addr : QuadOf(b) = q}})

(* An input with waiting packets has a positive age and one without has     *)
(* none: otherwise the arbiter would pass it over for ever, or take the     *)
(* front of an empty queue.                                                 *)
AgesMatchQueues ==
  /\ \A l \in Links : h.link_age_counter[l] > 0 <=> h.link_req_queues[l] # <<>>
  /\ \A q \in Quads : h.quad_age_counter[q] > 0 <=> h.quad_resp_queues[q] # <<>>

Interface ==
  INSTANCE MemoryInterface WITH outstanding <- [k \in Kinds |-> Outstanding(k)]

(* Every accepted transaction is answered by exactly one callback of its    *)
(* address and kind.                                                        *)
AnsweredOnce == Interface!Spec

(* Every accepted transaction is answered, whatever else is sent: the age   *)
(* arbiter starves no link and no quad, and no two full buffers wait for    *)
(* each other.                                                              *)
AllAnswered == \A k \in Requests : Outstanding(k) > 0 ~> callbacks[k] > 0

(* `all data from dram received, put packet in xbar and return': there is   *)
(* one awaited response for each request the vaults have not finished.      *)
ResponseAfterData == \A k \in Kinds : Awaited(k) = Requested(k)

(* BuildAgeQueue: `the oldest age link/quad should be processed first'.     *)
OldestFirst ==
  LET queue == BuildAgeQueue(h.link_age_counter, links, h.logic_clk)
  IN \A i, j \in DOMAIN queue :
       i < j => h.link_age_counter[queue[i]] >= h.link_age_counter[queue[j]]
=============================================================================
