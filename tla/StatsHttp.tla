----------------------------- MODULE StatsHttp -----------------------------
(***************************************************************************)
(* The HTTP stats server of statio.c: the statio thread's libev callbacks *)
(* for each connection (accept_cb, read_cb, write_cb, timeout_cb and      *)
(* cleanup_conn_watchers) and the accept throttle at max_http_clients,    *)
(* against clients that send their request in pieces, close, or reset,    *)
(* and a kernel that accepts any part of a writev().                      *)
(*                                                                         *)
(* The response is two buffers, the header (hdr_buf or http_404_hdr) and  *)
(* the body (data_buf or http_404_data); every response page gives the    *)
(* same two-iovec shape, so the page is abstracted away.  A byte is named *)
(* by its buffer and offset, so bytes writev() takes from the wrong place *)
(* show in what the client receives.  The callbacks run one at a time on  *)
(* the statio thread; each is one action.                                  *)
(***************************************************************************)
EXTENDS Naturals, Sequences, FiniteSets

CONSTANTS
    Conns,           \* connection slots (http_data_t)
    MaxHttpClients,  \* gconfig.max_http_clients
    HdrLen,          \* outbufs[0].iov_len as process_http_query() fills it
    BodyLen,         \* outbufs[1].iov_len as process_http_query() fills it
    ChunkSizes,      \* sizes of the pieces a client sends
    MaxSend          \* bound on the bytes a client sends

\* The request bytes read_cb() waits for (read_buffer[8]).
ReqLen == 8

VARIABLES
    conn,               \* slot -> the http_data_t, or a closed slot
    peer,               \* slot -> the client: bytes sent, unread, FIN, RST, received
    num_conn_watchers,  \* open connections, as statio.c counts them
    accepting           \* the accept watchers are started

vars == <<conn, peer, num_conn_watchers, accepting>>

Iov(b, o, l) == [buf |-> b, off |-> o, len |-> l]
NoIov == Iov("none", 0, 0)

Closed == [st |-> "closed", read_done |-> 0, iov |-> <<NoIov, NoIov>>,
           iovcnt |-> 0, timer |-> FALSE]

\* The bytes of an iovec, named by buffer and offset.
IovBytes(v) == [i \in 1..v.len |-> <<v.buf, v.off + i - 1>>]

\* What a correct server sends: the header, then the body.
Response == IovBytes(Iov("hdr", 0, HdrLen)) \o IovBytes(Iov("data", 0, BodyLen))

(***************************************************************************)
(* cleanup_conn_watchers(): close the socket, free the connection, and    *)
(* restart the accept watchers when the count drops from the limit.       *)
(***************************************************************************)
\* Mutant of AfterCleanup: pre-decrement in the limit test.
AfterCleanupPreDec(n, acc) ==
    [num |-> n - 1, acc |-> IF n - 1 = MaxHttpClients THEN TRUE ELSE acc]

AfterCleanup(n, acc) ==
    [num |-> n - 1, acc |-> IF n = MaxHttpClients THEN TRUE ELSE acc]

Cleanup(c) ==
    /\ conn' = [conn EXCEPT ![c] = Closed]
    /\ num_conn_watchers' = AfterCleanup(num_conn_watchers, accepting).num
    /\ accepting' = AfterCleanup(num_conn_watchers, accepting).acc

(***************************************************************************)
(* read_cb() on connection record k with client p: the result's k and p,  *)
(* and whether it ends in cleanup_conn_watchers().  recv() returns what   *)
(* is buffered up to the size asked, 0 at end of stream, -1 (ECONNRESET)  *)
(* after a reset, and EAGAIN when nothing is there.                       *)
(***************************************************************************)
\* Mutant of ProcessHttpQuery: read_done is not reset.
ProcessHttpQueryKeepDone(k) ==
    [k EXCEPT !.iov = <<Iov("hdr", 0, HdrLen), Iov("data", 0, BodyLen)>>,
              !.st = "res"]

ProcessHttpQuery(k) ==
    [k EXCEPT !.iov = <<Iov("hdr", 0, HdrLen), Iov("data", 0, BodyLen)>>,
              !.st = "res", !.read_done = 0]

ReadReq(k, p) ==
    IF p.rst THEN [k |-> k, p |-> p, close |-> TRUE]
    ELSE LET got == IF p.avail < ReqLen - k.read_done THEN p.avail
                    ELSE ReqLen - k.read_done
             k1 == [k EXCEPT !.read_done = @ + got]
             p1 == [p EXCEPT !.avail = @ - got]
         IN [k |-> IF k1.read_done < ReqLen THEN k1 ELSE ProcessHttpQuery(k1),
             p |-> p1, close |-> FALSE]

ReadJunk(k, p) ==
    [k |-> k, p |-> [p EXCEPT !.avail = 0], close |-> p.rst \/ p.avail = 0]

ReadCb(k, p) == IF k.st = "junk" THEN ReadJunk(k, p) ELSE ReadReq(k, p)

\* The read watcher fires when recv() would not return EAGAIN.
Readable(p) == p.avail > 0 \/ p.fin \/ p.rst

\* Apply a read_cb() result to slot c, the count being n and the accept
\* watchers acc beforehand.
ApplyRead(c, r, n, acc) ==
    /\ conn' = [conn EXCEPT ![c] = IF r.close THEN Closed ELSE r.k]
    /\ peer' = [peer EXCEPT ![c] = r.p]
    /\ num_conn_watchers' = IF r.close THEN AfterCleanup(n, acc).num ELSE n
    /\ accepting' = IF r.close THEN AfterCleanup(n, acc).acc ELSE acc

ReadEv(c) ==
    /\ conn[c].st \in {"req", "junk"}
    /\ Readable(peer[c])
    /\ ApplyRead(c, ReadCb(conn[c], peer[c]), num_conn_watchers, accepting)

(***************************************************************************)
(* accept_cb(): a new connection with its timeout started, counted, the   *)
(* accept watchers stopped at the limit, and (TCP_DEFER_ACCEPT, as on     *)
(* Linux) read_cb() invoked at once.                                       *)
(***************************************************************************)
Opened == [Closed EXCEPT !.st = "req", !.iovcnt = 2, !.timer = TRUE]

NewPeer(first) == [sent |-> first, avail |-> first, fin |-> FALSE,
                   rst |-> FALSE, got |-> <<>>]

\* Mutant of AcceptCb: the timeout watcher is never started.
AcceptCbNoTimer(c) ==
    /\ accepting
    /\ conn[c].st = "closed"
    /\ \E first \in {0} \cup ChunkSizes :
         LET n == num_conn_watchers + 1
         IN ApplyRead(c, ReadCb([Opened EXCEPT !.timer = FALSE], NewPeer(first)),
                      n, IF n = MaxHttpClients THEN FALSE ELSE accepting)

AcceptCb(c) ==
    /\ accepting
    /\ conn[c].st = "closed"
    /\ \E first \in {0} \cup ChunkSizes :
         LET n == num_conn_watchers + 1
         IN ApplyRead(c, ReadCb(Opened, NewPeer(first)),
                      n, IF n = MaxHttpClients THEN FALSE ELSE accepting)

(***************************************************************************)
(* write_cb(): writev() of both iovecs, or of outbufs[1] alone once the   *)
(* header is out (iovcnt = 1), against tosend, which is outbufs[0]'s      *)
(* length plus outbufs[1]'s when iovcnt = 2.  The kernel takes any        *)
(* non-empty prefix; a reset peer gives -1 and the connection is dropped. *)
(***************************************************************************)
SendIovs(k) == IF k.iovcnt = 2 THEN <<k.iov[1], k.iov[2]>> ELSE <<k.iov[2]>>

ToSend(k) == k.iov[1].len + (IF k.iovcnt = 2 THEN k.iov[2].len ELSE 0)

Flat(vs) == IF Len(vs) = 1 THEN IovBytes(vs[1]) ELSE IovBytes(vs[1]) \o IovBytes(vs[2])

\* The connection record after writev() returned w.
AfterWrite(k, w) ==
    IF w = ToSend(k) THEN [k EXCEPT !.st = "junk"]
    ELSE IF w < k.iov[1].len
    THEN [k EXCEPT !.iov[1] = Iov(@.buf, @.off + w, @.len - w)]
    ELSE LET adj == w - k.iov[1].len
         IN [k EXCEPT !.iov[2] = Iov(k.iov[1].buf, k.iov[1].off + adj, @.len - adj),
                      !.iovcnt = 1]

WriteCb(c) ==
    /\ conn[c].st = "res"
    /\ IF peer[c].rst
       THEN Cleanup(c) /\ UNCHANGED peer
       ELSE \E w \in 1..Len(Flat(SendIovs(conn[c]))) :
              /\ conn' = [conn EXCEPT ![c] = AfterWrite(@, w)]
              /\ peer' = [peer EXCEPT ![c].got =
                            @ \o SubSeq(Flat(SendIovs(conn[c])), 1, w)]
              /\ UNCHANGED <<num_conn_watchers, accepting>>

\* timeout_cb(): http_timeout after accept, whatever the state.
TimeoutCb(c) ==
    /\ conn[c].timer
    /\ Cleanup(c)
    /\ UNCHANGED peer

(***************************************************************************)
(* The client: send a piece of the request (or more), half-close, or      *)
(* reset, while the connection is open.                                    *)
(***************************************************************************)
ClientSend(c) ==
    /\ conn[c].st # "closed" /\ ~peer[c].fin /\ ~peer[c].rst
    /\ \E k \in ChunkSizes :
         /\ peer[c].sent + k <= MaxSend
         /\ peer' = [peer EXCEPT ![c].sent = @ + k, ![c].avail = @ + k]
    /\ UNCHANGED <<conn, num_conn_watchers, accepting>>

ClientClose(c) ==
    /\ conn[c].st # "closed" /\ ~peer[c].fin /\ ~peer[c].rst
    /\ peer' = [peer EXCEPT ![c].fin = TRUE]
    /\ UNCHANGED <<conn, num_conn_watchers, accepting>>

ClientReset(c) ==
    /\ conn[c].st # "closed" /\ ~peer[c].rst
    /\ peer' = [peer EXCEPT ![c].rst = TRUE, ![c].avail = 0]
    /\ UNCHANGED <<conn, num_conn_watchers, accepting>>

Next ==
    \E c \in Conns :
        \/ AcceptCb(c) \/ ReadEv(c) \/ WriteCb(c) \/ TimeoutCb(c)
        \/ ClientSend(c) \/ ClientClose(c) \/ ClientReset(c)

\* statio_start(): no connections, accept watchers started.
Init ==
    /\ conn = [c \in Conns |-> Closed]
    /\ peer = [c \in Conns |-> NewPeer(0)]
    /\ num_conn_watchers = 0
    /\ accepting = TRUE

\* The connection timer fires http_timeout seconds after accept, and libev
\* calls every expired timer (the lower priority only orders the calls
\* within one loop iteration), so each slot's timeout is weakly fair.
Spec == Init /\ [][Next]_vars /\ \A c \in Conns : WF_vars(TimeoutCb(c))

-----------------------------------------------------------------------------
Open == {c \in Conns : conn[c].st # "closed"}

IovT == [buf : {"none", "hdr", "data"}, off : 0..HdrLen + BodyLen,
         len : 0..HdrLen + BodyLen]

TypeOK ==
    /\ conn \in [Conns -> [st : {"closed", "req", "res", "junk"},
                           read_done : 0..ReqLen - 1, iov : IovT \X IovT,
                           iovcnt : 0..2, timer : BOOLEAN]]
    /\ \A c \in Conns : (conn[c].st = "closed") = (conn[c] = Closed)
    /\ peer \in [Conns -> [sent : 0..MaxSend, avail : 0..MaxSend, fin : BOOLEAN,
                           rst : BOOLEAN, got : Seq({"hdr", "data"} \X Nat)]]
    /\ num_conn_watchers \in Nat
    /\ accepting \in BOOLEAN

\* accept_cb() and cleanup_conn_watchers() keep num_conn_watchers equal to
\* the open connections, never let more than max_http_clients be open, and
\* keep the accept watchers running exactly while there is room, through
\* any order of accepts, timeouts, resets and closes.
ConnLimit ==
    /\ num_conn_watchers = Cardinality(Open)
    /\ num_conn_watchers <= MaxHttpClients
    /\ accepting = (num_conn_watchers < MaxHttpClients)

\* Every connection is eventually closed and its slot freed, whatever the
\* client does: one that sends part of a request and then closes leaves
\* read_cb() reading 0 bytes on every call, and only the timeout started in
\* accept_cb() ends it.
ConnectionsClose == \A c \in Conns : conn[c].st # "closed" ~> conn[c].st = "closed"

\* The client receives a prefix of the header followed by the body: every
\* partial writev() that write_cb() resumes continues at the next byte.
ResponseIntact ==
    \A c \in Conns : Len(peer[c].got) <= Len(Response)
                      /\ peer[c].got = SubSeq(Response, 1, Len(peer[c].got))

=============================================================================
