---------------------------- MODULE MCStatsHttp ----------------------------
EXTENDS StatsHttp

\* One slot more than max_http_clients, so that an accept past the limit
\* would have a slot to use.
MCConns == {"c1", "c2"}

\* A request in two pieces (3 + 5 bytes) or one, and bytes after it.
MCChunkSizes == {3, 5}

=============================================================================
