------------------------------ MODULE IoStats ------------------------------
(***************************************************************************)
(* The per-thread DNS counters and their two users.                        *)
(*                                                                         *)
(* dnspacket.c: each I/O thread registers a zeroed dnspacket_stats_t in    *)
(* dnspacket_stats[] under stats_init_mutex and signals stats_init_cond    *)
(* (dnspacket_init_stats); the main thread waits on the condition until    *)
(* every thread has registered (dnspacket_wait_stats) before it starts     *)
(* serving, statio included.  Then each thread bumps its own counters,     *)
(* one satom_inc() at a time, in the order process_dns_query() reaches     *)
(* them.                                                                   *)
(*                                                                         *)
(* statio.c: populate_stats() re-sums the counters at most once a second   *)
(* (unless realtime_stats): it zeroes the static stats_t and calls         *)
(* accumulate_stats() for each thread, which reads that thread's counters  *)
(* one satom_get() at a time while the thread keeps counting.  Each read   *)
(* is a step, so every interleaving of reads and increments is explored.   *)
(***************************************************************************)
EXTENDS Naturals, Sequences, FiniteSets, Functions, FiniteSetsExt

CONSTANTS
    NumIoThreads,    \* gconfig.num_io_threads
    UdpThreads,      \* thread numbers created with is_udp
    UdpRequests,     \* counter sequences a request on a UDP thread bumps
    TcpRequests,     \* the same for a TCP thread
    MaxReqs,         \* bound: requests each thread handles
    Tracked,         \* the fields some modelled request bumps
    RealtimeStats    \* gconfig.realtime_stats

Threads == 0..NumIoThreads - 1

\* The fields of dnspacket_stats_t, in the order accumulate_stats() reads
\* them: the rcode counters into locals, the arm of the p union the thread
\* uses, then v6, edns and edns_clientsub.
Rcodes == <<"noerror", "refused", "nxdomain", "notimp", "badvers", "formerr", "dropped">>
UdpArm == <<"recvfail", "sendfail", "tc", "edns_big", "edns_tc">>
TcpArm == <<"recvfail", "recvsize", "sendfail">>
Common == <<"v6", "edns", "edns_clientsub">>
Arm(t) == IF t \in UdpThreads THEN UdpArm ELSE TcpArm
\* The reads of accumulate_stats(t).  A field no modelled request bumps
\* stays 0, and reading it changes nothing, so its read is left out.
Read(k) == k \in Tracked
ReadSeq(t) == SelectSeq(Rcodes \o Arm(t) \o Common, Read)
\* The read after which the locals are added up (l_dropped in the code).
LastRcode(t) == ReadSeq(t)[Len(SelectSeq(Rcodes, Read))]
RcodeSet == Range(Rcodes)
BlockKeys == RcodeSet \cup Range(UdpArm) \cup Range(TcpArm) \cup Range(Common)

\* The stats_t fields the page shows; an arm field is prefixed by its arm.
Prefix(t) == IF t \in UdpThreads THEN "udp_" ELSE "tcp_"
PageKey(t, k) == IF k \in Range(Arm(t)) THEN Prefix(t) \o k ELSE k
PageKeys == RcodeSet \cup Range(Common) \cup {"udp_reqs", "tcp_reqs"}
            \cup {"udp_" \o k : k \in Range(UdpArm)} \cup {"tcp_" \o k : k \in Range(TcpArm)}
Reqs(t) == IF t \in UdpThreads THEN "udp_reqs" ELSE "tcp_reqs"
ZeroPage == [k \in PageKeys |-> 0]
ZeroLoc == [k \in RcodeSet |-> 0]
ZeroBlock == [k \in BlockKeys |-> 0]

VARIABLES
    reg,          \* thread -> dnspacket_stats[t] is set (not NULL)
    initialized,  \* stats_initialized
    mpc,          \* the main thread: "wait" (checks the count), "sleep"
                  \* (in pthread_cond_wait) or "serve" (barrier passed)
    cnt,          \* thread -> its dnspacket_stats_t
    cur,          \* thread -> the increments left of the request it handles
    nreq,         \* thread -> requests handled
    fresh,        \* time(NULL) > pop_stats_time
    at,           \* accumulate_stats(at - 1) is running; 0: populate idle
    pos,          \* the next satom_get() of it, an index into ReadSeq
    loc,          \* its l_noerror .. l_dropped locals
    stats,        \* the static stats_t
    lo            \* (ghost) the true totals when the running re-sum began

vars == <<reg, initialized, mpc, cnt, cur, nreq, fresh, at, pos, loc, stats, lo>>

\* What the counters add up to now, for each field of the page.
ReqsOf(t) == SumFunctionOnSet(cnt[t], RcodeSet)
\* What thread t contributes to a page field.
Part(t, key) ==
    CASE key \in RcodeSet \cup Range(Common) -> cnt[t][key]
      [] key = Reqs(t) -> ReqsOf(t)
      [] key \in {PageKey(t, k) : k \in Range(Arm(t))} ->
            cnt[t][CHOOSE k \in Range(Arm(t)) : PageKey(t, k) = key]
      [] OTHER -> 0
TruthOf(key) == MapThenSumSet(LAMBDA t : Part(t, key), Threads)
Truth == [k \in PageKeys |-> TruthOf(k)]

-----------------------------------------------------------------------------
(***************************************************************************)
(* The registration barrier.                                               *)
(***************************************************************************)
\* Mutant of InitStats: the cond_signal() is left out.
InitStatsNoSignal(t) ==
    /\ ~reg[t]
    /\ reg' = [reg EXCEPT ![t] = TRUE]
    /\ initialized' = initialized + 1
    /\ UNCHANGED <<mpc, cnt, cur, nreq, fresh, at, pos, loc, stats, lo>>

\* dnspacket_init_stats(t), all under stats_init_mutex: a zeroed block is
\* stored in dnspacket_stats[t], the count goes up and the waiter, if it
\* sleeps, is woken to re-check.
InitStats(t) ==
    /\ ~reg[t]
    /\ reg' = [reg EXCEPT ![t] = TRUE]
    /\ initialized' = initialized + 1
    /\ mpc' = IF mpc = "sleep" THEN "wait" ELSE mpc
    /\ UNCHANGED <<cnt, cur, nreq, fresh, at, pos, loc, stats, lo>>

\* Mutant of WaitStats: waits for one thread fewer.
WaitStatsOffByOne ==
    /\ mpc = "wait"
    /\ mpc' = IF initialized < NumIoThreads - 1 THEN "sleep" ELSE "serve"
    /\ UNCHANGED <<reg, initialized, cnt, cur, nreq, fresh, at, pos, loc, stats, lo>>

\* dnspacket_wait_stats(): with the mutex held, test the count; below the
\* thread count, pthread_cond_wait() (unlock and sleep in one step),
\* otherwise return and go on to serve.
WaitStats ==
    /\ mpc = "wait"
    /\ mpc' = IF initialized < NumIoThreads THEN "sleep" ELSE "serve"
    /\ UNCHANGED <<reg, initialized, cnt, cur, nreq, fresh, at, pos, loc, stats, lo>>

\* pthread_cond_wait() may also return with no signal, and the while loop
\* re-checks. That step is not an action: it leads back to mpc = "wait"
\* with the count unchanged, a state the waiter was in before it slept.

-----------------------------------------------------------------------------
(***************************************************************************)
(* An I/O thread's requests: process_dns_query() bumps v6, edns,           *)
(* edns_clientsub, the truncation counters and one rcode counter, in that *)
(* order, each by its own satom_inc().                                     *)
(***************************************************************************)
StartRequest(t) ==
    /\ reg[t] /\ cur[t] = << >> /\ nreq[t] < MaxReqs
    /\ \E r \in IF t \in UdpThreads THEN UdpRequests ELSE TcpRequests :
          cur' = [cur EXCEPT ![t] = r]
    /\ nreq' = [nreq EXCEPT ![t] = @ + 1]
    /\ UNCHANGED <<reg, initialized, mpc, cnt, fresh, at, pos, loc, stats, lo>>

Increment(t) ==
    /\ cur[t] # << >>
    /\ cnt' = [cnt EXCEPT ![t][Head(cur[t])] = @ + 1]
    /\ cur' = [cur EXCEPT ![t] = Tail(@)]
    /\ UNCHANGED <<reg, initialized, mpc, nreq, fresh, at, pos, loc, stats, lo>>

-----------------------------------------------------------------------------
(***************************************************************************)
(* The statio thread (started once the barrier is passed).                 *)
(***************************************************************************)
\* A second passes: time(NULL) moves past pop_stats_time.
Tick ==
    /\ ~fresh
    /\ fresh' = TRUE
    /\ UNCHANGED <<reg, initialized, mpc, cnt, cur, nreq, at, pos, loc, stats, lo>>

\* Mutant of PopulateStats: the memset() of stats is left out.
PopulateStatsNoMemset ==
    /\ mpc = "serve" /\ at = 0
    /\ RealtimeStats \/ fresh
    /\ at' = 1 /\ pos' = 1 /\ fresh' = FALSE /\ lo' = Truth
    /\ UNCHANGED <<reg, initialized, mpc, cnt, cur, nreq, loc, stats>>

\* populate_stats(), from the stats page or the log timer: at most once a
\* second (now > pop_stats_time) unless realtime_stats, zero stats and
\* accumulate every thread from thread 0; pop_stats_time takes the "now"
\* read at the start, so a second passing meanwhile leaves fresh set.
\* Otherwise the caller uses stats as they are.
PopulateStats ==
    /\ mpc = "serve" /\ at = 0
    /\ RealtimeStats \/ fresh
    /\ at' = 1 /\ pos' = 1 /\ fresh' = FALSE /\ lo' = Truth
    /\ stats' = ZeroPage
    /\ UNCHANGED <<reg, initialized, mpc, cnt, cur, nreq, loc>>

\* After a thread's last read its locals are dead; then the next thread,
\* or the end of the loop, where stats is what the caller formats.
\* Mutant of NextThread: the loop runs one thread past the end.
NextThreadPastEnd ==
    /\ at' = at + 1 /\ pos' = 1
    /\ lo' = lo

\* Mutant of NextThread: the loop stops before the last thread.
NextThreadSkipLast ==
    /\ at' = IF at + 1 >= NumIoThreads THEN 0 ELSE at + 1
    /\ pos' = 1
    /\ lo' = IF at + 1 >= NumIoThreads THEN ZeroPage ELSE lo

NextThread ==
    /\ at' = IF at = NumIoThreads THEN 0 ELSE at + 1
    /\ pos' = 1
    /\ lo' = IF at = NumIoThreads THEN ZeroPage ELSE lo

\* After reading l_dropped: add the locals to stats and their sum to the
\* thread's reqs counter.
\* Mutant of AddLocals: this_reqs from the counters read again.
AddLocalsReread(t, l) ==
    [k \in PageKeys |-> IF k \in RcodeSet THEN stats[k] + l[k]
                        ELSE IF k = Reqs(t) THEN stats[k] + ReqsOf(t)
                        ELSE stats[k]]

AddLocals(t, l) ==
    [k \in PageKeys |-> IF k \in RcodeSet THEN stats[k] + l[k]
                        ELSE IF k = Reqs(t) THEN stats[k] + SumFunctionOnSet(l, RcodeSet)
                        ELSE stats[k]]

\* One satom_get() of accumulate_stats(t): an rcode counter goes to its
\* local (the last one also adds the locals up), any other field is added
\* to stats directly.
ReadInto(t, k, l) ==
    IF k \in RcodeSet
    THEN IF k = LastRcode(t) THEN AddLocals(t, l) ELSE stats
    ELSE [stats EXCEPT ![PageKey(t, k)] = @ + cnt[t][k]]

AccumulateRead ==
    /\ at # 0
    /\ \E t \in {at - 1} : \E k \in {ReadSeq(t)[pos]} :
       \E l \in {IF k \in RcodeSet THEN [loc EXCEPT ![k] = cnt[t][k]] ELSE loc} :
       \E s \in {ReadInto(t, k, l)} :
          /\ stats' = s
          /\ IF pos = Len(ReadSeq(t)) THEN NextThread /\ loc' = ZeroLoc
             ELSE pos' = pos + 1 /\ loc' = l /\ UNCHANGED <<at, lo>>
    /\ UNCHANGED <<reg, initialized, mpc, cnt, cur, nreq, fresh>>

-----------------------------------------------------------------------------
\* dnspacket_global_setup() has calloc'ed dnspacket_stats[] and started the
\* threads; main calls dnspacket_wait_stats().  pop_stats_time is 0, so the
\* first populate re-sums.
Init ==
    /\ reg = [t \in Threads |-> FALSE]
    /\ initialized = 0
    /\ mpc = "wait"
    /\ cnt = [t \in Threads |-> ZeroBlock]
    /\ cur = [t \in Threads |-> << >>]
    /\ nreq = [t \in Threads |-> 0]
    /\ fresh = TRUE
    /\ at = 0 /\ pos = 1
    /\ loc = ZeroLoc
    /\ stats = ZeroPage
    /\ lo = ZeroPage

Next ==
    \/ \E t \in Threads : InitStats(t) \/ StartRequest(t) \/ Increment(t)
    \/ WaitStats
    \/ Tick \/ PopulateStats \/ AccumulateRead

\* Threads run once runnable: each I/O thread registers, finishes the
\* increments of a request it started, and the main thread re-checks when
\* woken.  The statio thread runs its loop; its log timer (log_stats is at
\* least 1 s) keeps calling populate_stats(), and time passes.  Neither
\* clients (new requests) nor spurious wakeups are assumed.
Fairness ==
    /\ \A t \in Threads : WF_vars(InitStats(t)) /\ WF_vars(Increment(t))
    /\ WF_vars(WaitStats)
    /\ WF_vars(Tick) /\ WF_vars(PopulateStats) /\ WF_vars(AccumulateRead)

Spec == Init /\ [][Next]_vars /\ Fairness

-----------------------------------------------------------------------------
TypeOK ==
    /\ reg \in [Threads -> BOOLEAN]
    /\ initialized \in 0..NumIoThreads
    /\ mpc \in {"wait", "sleep", "serve"}
    /\ cnt \in [Threads -> [BlockKeys -> 0..MaxReqs]]
    /\ nreq \in [Threads -> 0..MaxReqs]
    /\ at \in 0..NumIoThreads
    /\ pos \in 1..Len(Rcodes \o UdpArm \o Common)
    /\ stats \in [PageKeys -> Nat]

\* accumulate_stats(i) only runs on a registered block: the statio thread
\* starts after dnspacket_wait_stats() returns, and that returns only once
\* every I/O thread has stored its dnspacket_stats[i].
StatsReadAfterRegistration == at # 0 => reg[at - 1]

\* Every field of a finished re-sum lies between the true total when the
\* re-sum began and the true total when it ended: counters read one at a
\* time while threads count give no snapshot, but nothing is lost or
\* counted twice.
Finishes == at # 0 /\ at' = 0
PageWithinBounds ==
    [][Finishes => \A k \in PageKeys : lo[k] <= stats'[k] /\ stats'[k] <= Truth'[k]]_vars

\* When no re-sum runs, the request totals in stats equal the sum of its
\* rcode counters, though the counters changed while they were read:
\* this_reqs is summed from the same locals added to the rcode fields.
PageReqsMatchRcodes ==
    at = 0 => stats["udp_reqs"] + stats["tcp_reqs"] = SumFunctionOnSet(stats, RcodeSet)

\* The main thread gets past dnspacket_wait_stats(), whichever order the
\* threads register and it sleeps in.
BarrierPasses == <>(mpc = "serve")

\* Once the threads have stopped counting, stats eventually shows the
\* exact totals: the log timer's populate_stats() re-sums after a second.
AllDone == \A t \in Threads : nreq[t] = MaxReqs /\ cur[t] = << >>
StatsEventuallyAccurate == AllDone ~> (at = 0 /\ stats = Truth)

=============================================================================
