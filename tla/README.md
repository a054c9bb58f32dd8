# TLA+ models of gdnsd

This directory holds TLA+ models of the authoritative DNS server gdnsd
(`src/gdnsd/`), the TLC configurations that check them, and `PROJECT.json`.
`PROJECT.json` lists the components, the runs, the mutants, the map from
definitions to source lines, the findings and the hazards.

## The system

- **I/O threads**, one per UDP or TCP listener, call `process_dns_query()`
  (`dnspacket.c`) for each request, on a per-thread `dnspacket_context_t` and
  a packet buffer the thread reuses. The request steps are:
  - `decode_query()` checks the header, parses the question and the EDNS OPT
    RR, including its client-subnet option, and sets `this_max_response`.
  - `answer_from_db()` walks the zone tree with `search_ltree()` and follows
    CNAMEs up to `max_cname_depth`.
  - The encoders write the answer and authority sections into the packet.
    Additional data goes to a side buffer with unwind records.
  - `answer_from_db_outer()` truncates (TC) or trims the side buffer to fit,
    then copies it.
  - The OPT RR is echoed and the header counts are filled in.

  Each thread counts outcomes in its own `dnspacket_stats_t`, registered at
  startup behind a barrier the main thread waits on (`dnspacket_wait_stats()`).
- **Plugins** (`src/plugins/meta`, `src/plugins/trivial/null.c`) answer dynamic
  address (DYNA) and dynamic CNAME (DYNC) RR-sets through resolve callbacks
  that the encoders call for each request.
- **The zone-file watcher** (`zsrc_rfc1035.c`) is driven by a 30 s periodic
  scan of the zones directory:
  - Each file has a `zfile_t` in an open-addressing hash.
  - A quiescence timer waits for a changed file to settle before reloading it.
  - A reloaded zone is published with `zlist_update()`.
- **The HTTP stats server** (`statio.c`) runs a small libev state machine per
  connection and sums the I/O threads' counters.
- **`conf.c`** parses the configuration once at startup into `gconfig`. It
  decides the DNS listeners and numbers their I/O threads (UDP first, then
  TCP), which fixes how many stats blocks the barrier waits for. It also
  builds the zone list and links each zone to its explicit subzones.

The threads interact only through the published zone data and the stats
counters. The engine sees the plugins only as callback results.

## Modules

| Module | Models | State and actions |
|---|---|---|
| `DnsZone` | the ltree and `search_ltree()` | Constants: nodes (names as label sequences), ZROOT and DELEG flags, RR-sets per node. `Walk` is the label-stack loop with the wildcard fallback and `checkroot_crossed`. |
| `MCZoneData` | a zone for model checking | `example.` with addresses, MX and NS with additional data, CNAME chains longer than the depth limit, a CNAME out of the zone, DYNA and DYNC RR-sets, a wildcard and two delegations (one with glue that overflows 512 bytes). |
| `DnsPacket` | one I/O thread running `process_dns_query()` | Variables: `buf` (what the reused packet buffer holds), `c` (the context and stats), `pc`/`s` (the CNAME loop of `answer_from_db()` as steps), `rq`, `resp` (the response sent), `nreq`. Actions: `DropRequest`, `RejectNotimp`, `AnswerError`, `AnswerChaos` and `StartAnswer` for the paths out of `decode_query()`; `CnameStep` and `CnameDepthExceeded` for the CNAME loop; `FinishAnswer` for the rest of `answer_from_db()`, `answer_from_db_outer()` and the end of `process_dns_query()`. |
| `MCDnsPacket` | — | Requests of every kind, plugin results and configuration values for TLC. Also `SearchMatchesReference`: `SearchLtree` equals a declarative reference (deepest zone root, deepest delegation, wildcard child) for every name of up to three labels and every check root. The zone is constant, so this is checked once, in the initial state. |
| `NameCompress` | name compression in `dnspacket.c` | Variables: `pkt` (offset → stored name: labels, then a root byte or a pointer word), `apkt`/`aoff` (the additional store), `ts` (`comptargets`), `off`, `qcomp`/`acomp` (`qname_comp`, `auth_comp`), `qn`, `glue`, `want` (every name written and where), `nrr`, `chain`. Operators: `StoreDname` (`Search`/`Walk` is the candidate loop), `StoreDnameNocomp`, `RepeatName`, `ChaseAuthPtr`. Actions: one per encoder that places names (`EncodeRRsNS`, `EncodeRRsPtr`, `EncodeRRsMx`, `EncodeRRsSrv`, `EncodeRRsNaptr`, `EncodeRRsRfc3597`, `EncodeRRSoa`), and `CnameStep` (`encode_rr_cname` plus the `chase_auth_ptr` update of the CNAME loop). |
| `MCNameCompress` | — | Label lengths, the zone `z`, query names and RDATA names that share suffixes with each other. |
| `StatsHttp` | the connection state machine of `statio.c` | Variables: `conn` (each `http_data_t`: reading the request, writing the response, or draining junk; `read_done`, the two iovecs, `iovcnt`, timer armed), `peer` (each client: bytes sent and unread, FIN, RST, bytes received), `num_conn_watchers`, `accepting`. Actions: `AcceptCb`, `ReadEv` (`read_cb`, with `process_http_query()`), `WriteCb`, `TimeoutCb`, and the client's `ClientSend`, `ClientClose` and `ClientReset`. |
| `MCStatsHttp` | — | Two connection slots and two chunk sizes. |
| `ZoneFileSet` | what the zone-file table promises | A set of names with `Insert` and `Remove`. |
| `ZFHash` | `zfhash` of `zsrc_rfc1035.c` | Variables `zfhash` (slot → NULL, DELETED or a name), `zfhash_alloc`, `zfhash_count`. `ZfhashFind`/`FindProbe` is the triangular probe loop, `ZfhashGrow`/`Rehash` the doubling, `ZfhashAdd` and `ZfhashDel` (tombstones) the updates. Actions `AddNewFile` (from `process_zonefile()`) and `DeleteGoneFile` (from `quiesce_check()`). `Abstract` instantiates `ZoneFileSet` with `files <- Live(zfhash)`. |
| `MCZFHash` | — | Five names whose hashes collide modulo 16 and 32, and sixteen names with distinct home slots. `RotatingFiles` keeps at most one file present at a time. |
| `ZoneWatcher` | the reload thread of `zsrc_rfc1035.c` | Variables: `disk` (each file's lstat stamp, contents version and whether it parses), `zf` (each `zfile_t`: in the table, `pending`, `loaded`, timer armed, timer delay), `pub` (the zone `zlist` holds), `inload` (a `quiesce_check()` between its parse and its `post_check`), `phase` (initial load loop or runtime), `nwrites`. Actions: `PeriodicScan` (`scan_dir` + `check_missing`), `QuiesceCheck(n)` (timer expiry: delete, start a parse, or re-arm), `LoadFinish` (`post_check`: discard or commit), `StartRuntime` (the load loop's `ev_run()` returns), and the writer's `WriteFile(n)` and `RemoveFile(n)`. |
| `MCZoneWatcher` | — | Two files. |
| `Conf` | `conf_load()` of `conf.c` | Stages in `pc`: `LoadOptions` (`disable_tcp`, `late_bind_secs`), `ProcessListen` (`process_listen()`: defaulted from `getifaddrs()` with `dns_addr_is_dupe()`, a listen array, or a listen hash with per-address options), `AssignThreadNums`, `ReadZones` (the zones hash), `ConfigureZone` (one `configure_zone()` call per key, with `make_zone_dname()`), `PostprocZones` (`qsort()` by `dname_cmp()`, the duplicate check and the subzone links). Variables: `def_tcp_disabled`, `def_late_bind`, `lin` (the listen setting read), `dns_addrs`, `num_io_threads`, `zhash` (the keys read), `zones`. |
| `MCConf` | — | Interface lists with a repeat, an any-address and an unknown family. Listen arrays and hashes naming one address as `A` and `A:53`. Zone keys `.`, `a`, `a.`, `b.a.`, the empty key, a wildcard and a 64-byte label. |
| `IoStats` | the per-thread counters (`dnspacket.c`) and their re-sum (`populate_stats()`, `accumulate_stats()` in `statio.c`) | Variables: `reg` (`dnspacket_stats[t]` set), `initialized`, `mpc` (the main thread in `dnspacket_wait_stats()`), `cnt`, `cur`/`nreq` (each thread's current request and count), `fresh`, `at`/`pos` (which thread and which read the re-sum is at), `loc`, `stats`, `lo`. Actions: `InitStats(t)`, `WaitStats`, `StartRequest(t)`, `Increment(t)`, `Tick`, `PopulateStats`, `AccumulateRead`. |
| `MCIoStats` | — | One UDP and one TCP thread, three kinds of UDP request and one of TCP. |

How `DnsPacket` abstracts the code:

- **Data.**
  - Bytes are counted, not stored. The packet body is a sequence of chunks
    (section, RRs, bytes), one per encoder call.
  - The side buffer holds chunks ending at offsets, so the trim loop's unwind
    to `prev_offset` drops exactly the chunks past it.
  - Name compression is folded into constant RR sizes. `NameCompress`
    models it separately.
- **`this_max_response`.** It is an unsigned 32-bit value in the code. The
  model keeps its two's-complement reading and compares with `UGt`, so the
  wrap by client-subnet options shows.
- **Plugin results and rotation.** DYNA and DYNC results are chosen with `\E`
  from small sets. So is the rotation start of `OFFSET_LOOP` (a random draw in
  the code).
- **Short requests.** They overwrite only their own bytes of the buffer
  (`ReadHeader`), because the code reads the rest of the header and question
  from what the buffer last held.

How `NameCompress` abstracts the code:

- **Names and bytes.**
  - A name is a sequence of labels, and a label's wire length comes from
    `LabelLen`.
  - A stored name is a segment: its labels, then a root byte or a 16-bit
    pointer word. The packet maps start offsets to segments.
  - The header occupies offsets 0..11 and holds no segment. A pointer into
    it, or into the middle of a label, decodes as `Garbage`.
  - RDATA other than names, such as MX preference and SRV ports, is a byte
    count.
- **Pointers.**
  - `PtrField(off)` is `htons(0xC000 | off)`, and `PtrTarget` is the
    reader's `& ~0xC000`. An offset of 16384 or more loses bit 14, as it
    does in the code.
- **Decoding.** `DecodeAt` is what a resolver does with the response: it
  follows pointers up to `MaxHops` times. `repeat_name()` uses it for its
  fall-back case (`gdnsd_dname_from_raw`).
- **What the encoders do.**
  - Each action writes one RR: the owner name through `repeat_name()`, then
    the fixed part and the RDATA with its names.
  - A glue A RR goes to the additional store when the RR-set has
    additional data.
  - `Final` places the additional store behind the answer, as
    `answer_from_db_outer()` does.
- **Not modelled.** The A/AAAA/TXT answer encoders place no names other than
  the owner. Truncation is not modelled: an RR that would not fit below
  `max_response` is simply not written, because this module asks where
  names point, not whether they fit.
- **The queries.** `Init` is the state `process_dns_query()` leaves after
  the question: the query name is at offset 12 and is the only target. The
  exception is the root name, which registers no target.

How `StatsHttp` abstracts the code:

- **The page.** Every response is a header iovec and a body iovec (the
  stats page or the 404 page). A byte is named by its buffer and offset.
  So bytes that `writev()` takes from the wrong place show in what the
  client receives.
- **The kernel.** `writev()` may accept any prefix of what is offered.
  `read()` returns any part of what the client has sent, EOF after a FIN,
  or an error after a reset.
- **Throttle.** The accept watchers stop at `max_http_clients` and restart
  in `cleanup_conn_watchers()` when the count drops from the limit.
- **Out of the model.** The page formatting and the log output only
  format numbers. `IoStats` models the counters behind them.

How `IoStats` abstracts the code:

- **Counters.** `cnt[t]` is thread `t`'s `dnspacket_stats_t`, with the union
  arm of its kind (UDP or TCP). A request is the sequence of counters
  `process_dns_query()` bumps for it, in code order, and each `satom_inc()`
  is one `Increment` step. The requests are small constants: a plain UDP
  NOERROR, an EDNS client-subnet NXDOMAIN over IPv6, an EDNS truncation, and
  a dropped TCP request over IPv6.
- **Reads.** Each `satom_get()` of `accumulate_stats()` is one
  `AccumulateRead` step, so increments land between any two reads. The
  reads of fields no modelled request bumps are left out: they read 0 and
  change nothing. `loc` holds the `l_*` locals; the last rcode read adds
  them to `stats`, and their sum to the thread's reqs field.
- **Clock.** `fresh` is `now > pop_stats_time`. `Tick` sets it, and a re-sum
  clears it at its start, because `pop_stats_time` takes the `now` read
  before the loop.
- **Barrier.** The mutex and condition variable are atomic steps. `mpc` is
  the main thread: testing the count, asleep in `pthread_cond_wait()`, or
  past the barrier (the statio thread is then running). A spurious wakeup
  is not a separate action: it returns the waiter to a state it was in
  before it slept.
- **Ghost.** `lo` records the true totals when a re-sum begins, for
  `PageWithinBounds`. `Truth` is the true total of each page field now.

How `Conf` abstracts the code:

- **Input.** The configuration file is the input, chosen stage by stage:
  each action takes the part it reads from the constants with `\E`. The
  zones hash is any sequence of up to three distinct keys, each with or
  without a `default_ttl`.
- **Names.** A key is its labels plus whether it ends in a dot. The
  functions of `libgdnsd` that conf.c calls (`dname_from_string`,
  `dname_cmp`, `dname_isparentof`) are not in this tree. They are modelled
  from the canonical form of spec.md §3: `dname_cmp()` is a `memcmp()` of
  wire forms that starts with the length byte.
- **Addresses.** A listen spec names an address through `SpecAddr`, so
  two specs can name one socket address. `NoAddr` is a spec that
  `gdnsd_anysin_fromstr()` rejects.
- **Numbers.** A `default_ttl` of 2^31 or more is the model value `Over31`,
  because TLC's integers stop below it.
- **Out of the model.** The other numeric and string options are range
  checks whose results are the other modules' constants. Also out:
  `process_http_listen()`, `make_zones_dir()`, the plugins, and the
  monitoring set-up.

How `ZoneWatcher` abstracts the code:

- **Stamps.** `statcmp_t` (mtime, inode, device) is one number: 0 for a
  missing file (`statcmp_set()` zeroes it), a fresh number per write. With
  `SameSecondWrites` a rewrite of a present file may keep its stamp, which is
  what a rewrite in place within one mtime second does.
- **Parsing.** `zone_from_zf()` is a choice the writer made: the contents
  parse or they do not. The parse is split from its `post_check` so that a
  write can land in between, as it can while the real parse reads the file.
- **Timers.** Only whether a timer is armed and the delay it was last set to.
  libev fires an armed timer eventually; durations do not matter to any
  property. The hash table is a function from names here; `ZFHash` checks
  the table itself.

## Runs

| Run | Result | What it shows |
|---|---|---|
| `packet` | pass, about 58 600 states | Over 2 requests of every kind, on a zone where one MX answer's additional data overflows 512 bytes:<br>• every response fits the size the client allowed;<br>• an untruncated response's header counts match its body;<br>• delegation glue is never trimmed;<br>• `dync_store` is never overrun;<br>• each request counts in exactly one rcode counter;<br>• the tree walk agrees with the reference for every name and check root. |
| `ecs_flood` | violation | Repeated client-subnet options wrap `this_max_response`; the response exceeds 512 bytes (code bug). |
| `name_compression` | pass, about 36 700 states | Over up to 3 RRs of every name-carrying type after a query for `www.z` or `z`, including CNAME steps and glue:<br>• every name written, owner or RDATA, in the answer or the additional store, decodes to the name meant;<br>• `store_dname()`'s search finds the longest suffix, in the first target that has it, as a declarative reference does;<br>• the target table never exceeds `COMPTARGETS_MAX`. |
| `name_compression_wrap` | violation | With `max_response` = 17000, which `conf.c` accepts, a name stored at 16382 is compressed against later. The pointer to its second label (16384) wraps to 0, the header (code bug). |
| `zfhash` | pass, 1 989 states | Over every sequence of adds and deletes of five colliding names, through growth from 16 to 32 slots:<br>• whenever `zfhash_find()` returns, it finds exactly the live entries (whether it returns is `zfhash_tombstones`'s question);<br>• the table refines the set `ZoneFileSet`. |
| `zfhash_tombstones` | violation | Sixteen files created and removed one at a time fill the 16-slot table with tombstones; `zfhash_find()` for a new name then never returns (code bug). |
| `zone_watcher` | pass, 5 939 states | With up to 3 writes, removals and unparsable rewrites after startup:<br>• a zone published at the loaded stamp is that file's contents;<br>• `zlist_update()` only publishes the file's current contents, or no zone for a gone file;<br>• once writes stop, every file's current contents are published (liveness). |
| `zone_watcher_initial_load` | violation | A file rewritten after the initial `scan_dir()` re-arms its timer forever; `zsrc_rfc1035_load_zones()` never returns (code bug). |
| `stats_http` | pass, about 467 000 states | Over accepts, requests in pieces, half-closes, resets, partial writes and timeouts on two slots with `max_http_clients` = 1:<br>• the connection count equals the open connections and the accept watchers run exactly when it is below the limit;<br>• every connection is eventually closed (liveness). |
| `io_stats` | pass, about 349 000 states | Two threads register and count up to 2 requests each while `populate_stats()` re-sums:<br>• `accumulate_stats()` only reads a registered block (its `dmn_assert`);<br>• every field of a finished re-sum lies between the true totals at its start and at its end;<br>• between re-sums, `udp_reqs + tcp_reqs` equals the sum of the rcode fields;<br>• the main thread always gets past the barrier (liveness);<br>• once the threads stop counting, `stats` becomes exact (liveness). |
| `conf` | pass, about 53 000 states | Over every configuration built from the constants:<br>• defaulted listeners are exactly the usable interface addresses, once each;<br>• the started threads have the numbers 0..`num_io_threads`-1, one each;<br>• after a load, each zone's subzones are the zones it is the nearest loaded ancestor of;<br>• a zones hash loads exactly when its keys are legal and name distinct zones. |
| `stats_response` | violation | A `writev()` that ends at or past the end of the header makes `write_cb()` resend header bytes, and read past `hdr_buf`, in place of the body (code bug). |

Retired runs are documented here but no longer checked, to keep within
twelve runs:

- `zone_search`: the search check now runs inside `packet`.
- `short_request`: a 10-byte request is answered NOTIMP from the stale
  buffer (`dnspacket.c:326`, a missing `break`). `DnsPacket` still states
  it as `ShortRequestsDropped`. The run was retired for `conf`: only the
  sender of the malformed request gets the answer.
- `conf_late_bind` (never given a run): a listener configured in a
  `listen` hash gets every global default except `late_bind_secs`, which
  stays 0 (`conf.c:498`). `Conf` states the expected behaviour as
  `ListenerOptionsApplied`, and TLC finds it violated: with a global
  `late_bind_secs` of 60, a hash entry without its own gets 0. To
  reproduce, check `MCConf` with that invariant.
- `trunc_counts`: on truncation after CNAMEs were followed, ANCOUNT keeps
  `cname_ancount` (`dnspacket.c:1711`), so the header claims answer RRs the
  body lacks. `DnsPacket` still states it as `HeaderCountsMatchBody`. The
  run was retired for `io_stats`: a client discards a TC response and
  retries over TCP, so the wrong count is never acted on.
- `chaos`: every CH-class query gets the canned version TXT RR, whatever its
  name and type (`dnspacket.c:1792`). spec.md describes that response only
  as the answer to a version query.
- `glue_tc`: glue plus other additional data forces TC where trimming alone
  would fit.
- `zone_watcher_same_second`: a rewrite that keeps the (mtime, inode,
  device) triple is never reloaded.

Every property of a passing run has a mutant in `PROJECT.json`: a plausible
bug in the mapped code that TLC must catch. The mutants are:

- an off-by-one in the CNAME depth check;
- the trim loop forgetting the answer's offset;
- the TC check without glue;
- the rollback keeping `cname_ancount`;
- `dync_count` outside the zeroed region;
- a missing NXDOMAIN counter;
- `checkroot_crossed` not sticky;
- `zfhash_add()` writing to the home slot, and `zfhash_del()` writing NULL or
  skipping the probe;
- a deleted `zfile_t` keeping its fields;
- `post_check` skipped;
- a pending deletion trusted without re-reading the stamp;
- a change seen while the timer runs not recorded in `pending`;
- `process_http_query()` not resetting `read_done`, the throttle restart
  tested after the decrement, and `accept_cb()` without the timer;
- `store_dname_nocomp()` registering a target in a full table,
  `chase_auth_ptr()` stopping at a pointer, and the candidate walk
  preferring a later equal match;
- the barrier without its signal or waiting for one thread fewer, the
  re-sum without its `memset()`, `this_reqs` from re-read counters, and the
  thread loop one past the end or one short;
- in `conf.c`, an option stored though absent, the dupe scan one short,
  TCP thread numbers for listeners without TCP, the parent scan without
  its `break`, and the postproc loop one short.

## Bounds

- **Configuration values.**
  - `MaxResponse` = 16384 is the default. UDP responses are capped at the
    client's EDNS size or 512 bytes, so a larger value changes nothing for
    UDP.
  - `MaxAddtlRRsets` = 16 is the smallest value `conf.c` accepts.
  - `MaxCnameDepth` = 4 is also its minimum. The zone has a chain of exactly 4
    CNAMEs and one of 5, so both the last allowed step and the rollback
    happen.
- **Requests.** `MaxRequests` = 2 covers a short request after a longer one
  and a request after a rollback.
- **Rotation.** The rotation start ranges over 0..1. That gives both orders of
  a two-record NS set, and so both orders of its glue in the side buffer.

- **Zone files.** Two files let one file's timer fire while the other's
  waits, and one file's parse overlap the other's write. `MaxWrites` = 3 is
  enough for a write during a parse followed by a removal and a re-creation
  of the same file.
- **Name compression.**
  - Three RRs cover a name compressed against an RDATA name that was itself
    compressed: a pointer to a pointer.
  - They also cover a CNAME step followed by an SOA whose owner is
    `auth_comp`.
  - `CompTargetsMax` = 4 is reached within three RRs, so the full table is
    met.
  - An RFC3597 RDATA length of 16327 puts the next name just below 16384.
    That is where the 14-bit limit matters.
- **HTTP connections.** Two slots with a limit of 1 make the throttle stop
  and restart. Chunks of 3 and 5 bytes split the 8-byte request in both
  ways. A 2-byte header and a 3-byte body let `writev()` end inside the
  header, at its end, or inside the body.
- **Counters.** Two threads, one of each kind, give both union arms and
  reads of one thread interleaved with increments of the other. Two requests
  each let a thread count a whole request while the re-sum is halfway
  through its reads. The request kinds cover every read that changes
  `stats`: rcode, union arm and common fields.
- **Configuration.** Three zone keys make a chain root, `a`, `b.a`, where
  the `break` decides the parent. They also give two keys for one zone
  sorted first (`a`, `a.`), where the loop bound matters. The first
  interface list repeats an address right after the first listener, which
  catches a dupe scan one short.
- **Hash table.** Five names collide at home slots 0/16/32 and 1/17, so
  probes pass through tombstones and growth moves entries. The tombstone run
  needs sixteen distinct home slots to fill a 16-slot table.

## Fairness

`DnsPacket`, `NameCompress`, `ZFHash` and `Conf` check safety only; no fairness is assumed. The
thread handles requests as they come, and the code promises nothing about
whether more come.

`ZoneWatcher` assumes weak fairness of each reload-thread step:
`PeriodicScan`, `LoadFinish`, `StartRuntime` and each file's `QuiesceCheck`.
The reload thread runs a libev loop that does nothing but these callbacks.
libev calls every expired timer, and the 30 s periodic timer repeats. The
writer gets no fairness. Liveness is checked with writes bounded, and with
no writes during the initial load in the passing run.

`StatsHttp` assumes weak fairness of each slot's `TimeoutCb` only.
`accept_cb()` arms an `http_timeout` timer for every connection. libev calls
every expired timer; the lower priority only orders the calls within one
loop iteration. Clients and the kernel get no fairness. A client may never
read or send, and the timeout is what closes such a connection.

`IoStats` assumes weak fairness of each I/O thread's registration and of
the increments of a request it has started, of the main thread's
`WaitStats`, and of the statio thread's `PopulateStats` and
`AccumulateRead`, and of `Tick`. Threads that are runnable run. The statio
thread's `log_watcher` fires every `log_stats` seconds, and `conf.c` accepts
only values of at least 1, so `populate_stats()` keeps being called; time
keeps passing. Clients (new requests) and spurious wakeups get no fairness.

## Not modelled, and the plan

1. A TCP configuration of `DnsPacket`, for the stats-union aliasing of the
   TC counter (`dnspacket.c:1719`). `dnspacket_stats_t` is declared in a
   header that is not in this tree, so the layout of its union cannot be
   taken from the source.
2. An abstract response specification that `DnsPacket` refines.
3. Composing `NameCompress` with `DnsPacket`'s truncation and trim loop.
   The trim loop unwinds the additional store, and the targets that store
   registered would have to go with it.

The project has twelve runs. New properties should join the existing passing
runs of their module, not add runs of their own.

Left out entirely:

- Most of `conf.c`: range checks whose outputs are the constants.
  `Conf` models what decides the listeners, the threads and the zones.
- The plugins: `metafo.c` and `geoip.c` rely on `meta_core.c`, which is not
  in this tree. `null.c` returns fixed results. The engine sees only their
  callback results, which `DnsPacket` chooses from small sets.
- `zlist` and the readers' grace period: not in this source tree. That
  includes whether the old zone freed right after `zlist_update()` can still
  be read.
- `unload_zones()` at exit.
- The output side of `statio.c`: `fmt_ival`, `statio_fill_outbuf_csv/html/404` and `statio_log_stats`. These are formatting only. Their values come from the counters that `IoStats` checks. Each `fmt_ival` band's widest output stays well under `IVAL_BUFSZ`.
- `statio_init` and `statio_start`. These are socket and watcher setup with no branching state.
- `make_zone_dname` (`zsrc_rfc1035.c:236-290`). This is the filename-to-name conversion (ROOT_ZONE, case folding, '@' to '/'). Its validity checks are the same `dname_from_string`/`dname_iswild` checks that `Conf`'s `ConfigureZone` models.
- `COMPTARGETS_MAX` is defined in a header that is not in this tree. It is
  the constant `CompTargetsMax`.

A note on spec.md: it says `store_dname()` visits targets in LIFO insertion
order. The loop walks `c->comptargets` from index 0 upward (`ctarg++`,
`dnspacket.c:492`), so the first-registered target wins a tie.
`SearchMatchesReference` in `NameCompress` states the code's order.
