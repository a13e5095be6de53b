# TLA+ models of CackDB (inMemDb)

This directory holds TLA+ models of the C server under `src/src/`, the TLC
configurations that check them, and `PROJECT.json`. `PROJECT.json` lists the
components, the runs, the mutants, the map from definitions to source lines,
the findings and the hazards.

Run a check from this directory:

    tlc -workers 2 -config MCServer.cfg MCServer

## The system

CackDB is a single-threaded, Redis-like key-value server. Its parts:

| part | source | role |
|---|---|---|
| hash table | `hashtable.c` | Robin-Hood open addressing with tombstones. It grows above 0.70 load and shrinks below 0.20. |
| keyspace | `db.c` | Maps keys to `db_entry_t` (an object plus a deadline in ms, -1 for none). Expiry is lazy on access (`check_expired`) plus a sampling sweep, at most every 100 ms and at most 20 entries per sweep. |
| objects, lists | `object.c`, `list.c` | String, int64 and list values. |
| event loop | `server.c` | A `select` loop over the listening socket and up to `MAX_CLIENTS` clients, with a fixed 64 KiB read buffer and a growable write buffer per client. `process_client_input` parses and executes every complete request in the buffer. |
| commands | `command.c` | A dispatch table that turns a parsed request into `db_` calls and a reply. `SHUTDOWN` saves and stops the loop. |
| RESP codec | `resp.c` | Parser and reply writers. |
| persistence | `persist.c` | `dump.rdb` is written to a temp file, then the old file is removed and the temp file renamed. The loader skips expired entries. |
| entry point | `main.c` | Loads the dump at start. On SIGINT/SIGTERM, `signal_handler` saves and clears `srv->running`. |
| clock | `util.c` | `imdb_mstime` uses `gettimeofday`. |
| CLI | `src/cli/cli.c` | A REPL that frames each typed line as a RESP array, sends it, reads the reply into a 64 KiB buffer, parses it with its own parser and prints it. |

How the parts interact:

- A client's bytes arrive through `recv` into the read buffer.
- `resp_parse` splits them into requests.
- `command_execute` calls the keyspace, which uses the table, and writes a
  reply into the write buffer.
- A later pass `send`s the reply.
- Expiry runs at the end of every pass.
- Persistence runs from `SAVE`, from `SHUTDOWN` and from the signal handler.
- The CLI is one such client. It sends one request and waits for its reply
  before it reads the next line.

## Modules

| module | models | state | actions |
|---|---|---|---|
| `KVMap` | The contract of the table: a map from keys to values. | `map` | Put, Remove, Clear |
| `HashTable` | `hashtable.c` | `ht` (the `hashtable_t` record: `entries`, `capacity`, `size`, `tombstones`) and `hash`, the hash function chosen in Init | Set (`ht_set`), Delete (`ht_delete`), Recreate (`db_flush`) |
| `DbObject` | `object.c`, `list.c` | none; operators only | none |
| `Keyspace` | `db.c` | `store` (key to entry), `now`, `last_expire_sweep`, `result` | one per `db_` function, `db_expire_sweep` and Tick (the clock) |
| `KeyspaceSpec` | What the keyspace promises (spec sections 3 and 4.4), with EAGER expiry. | `vis`, `now`, `result` | one per operation |
| `Commands` | `command.c`: `command_execute`'s errors and every handler, over `Keyspace` | `Keyspace`'s variables plus `pc` (the handler running, `"idle"` or `"stopped"`), `calls`, `i`, `acc` (the db_ calls of a looping handler, the next one, their results) and `out` (the reply) | one per handler, `StartLoop`/`RunCall`/`Finish` for looping handlers, `Sweep`, `Clock`, `Terminated` |
| `Resp` | `resp.c`: `resp_parse_value` and the `resp_write_` functions | none; operators only | none |
| `Server` | `server.c`, `command_execute`/`cmd_shutdown` in `command.c`, and `signal_handler` in `main.c`, with client processes and the network | see below | see below |
| `Persist` | `persist_save`, `persist_load` in `persist.c`, and the start-up load in `main.c` | `db`, `now`, `fs` (file name to contents), `pc` (the step of a save in progress), `ret`, `saved` (ghost: the keyspace at the last save that returned 0) | Mutate, Tick, SaveWrite, SaveRemove, SaveRename, Restart |
| `Cli` | `src/cli/cli.c`: `main`'s REPL, `build_command`, `recv_response` and the CLI's `parse_resp`, with the server as environment | `cli_pc`, `line`, `recv_buf`, `nread`, `nsent`, `answered`, `shown`; environment `to_server`, `to_cli`, `replied`, `up` | SkipLine, SendLine, EndOfInput, CliRecv, Exited; Serve, ServeShutdown, ServerGone |
| `MCHashTable`, `MCKeyspace`, `MCCommands`, `MCServer`, `MCPersist`, `MCCli` | TLC harnesses: model values, bounds, symmetry, refinement mappings and properties | | |

### HashTable

Each C operation is one step. Its probe loops are RECURSIVE operators that
follow the C loops iteration by iteration:

- `SetProbe` follows `ht_set`, `FindProbe` follows `ht_find`, and
  `ResizePlace` and `Rehash` follow `ht_resize`.
- After a Robin-Hood swap, the C code carries the displaced entry on with the
  same counter. The model does the same.
- A loop that runs past `ProbeLimit` iterations yields `Hung`.
- `ht_hash` (FNV-1a) is abstracted to an arbitrary function from keys to
  `0..HashSpace-1`, so every pattern of collisions is explored.

### Keyspace

- Every `db_` function is one action. It includes its `check_expired` call
  and the table updates it makes.
- The table is used through its map contract. The table itself is checked
  separately, in `HashTable`.
- `int64_t` arithmetic wraps at `IntWidth` bits, and deadline arithmetic at
  `TimeWidth` bits, because `now + seconds * 1000` can overflow.
- The sweep's walk in slot order is `SweepWalk`. The slot order is any
  permutation of the keys (`KeyOrders`), since the table's layout decides it.

### Commands

- A request is a handler name with typed arguments: keys, literals
  (`ArgLiterals`), list elements, EXPIRE seconds, LRANGE indices. Requests
  with too few arguments are `ArgCountError`. The three errors of
  `command_execute` are `BadRequest`.
- A handler that calls one db_ function is one action: the db_ action of
  `Keyspace` plus the reply it writes, chosen from what the call returned
  (`Returned`). Replies are abstract items: status, integer, bulk, nil,
  error, and an array header with its count.
- `SET` (db_set, then db_expire for `EX` > 0), `DEL`, `MSET`, `MGET`, `LPUSH`
  and `RPUSH` call db_ functions in a loop, and each call reads
  `imdb_mstime` afresh. `StartLoop` records the calls, `RunCall` makes one
  per step, and `Finish` writes the reply. The clock can tick between two
  calls. A push loop stops at the first -1, as `cmd_lpush` returns on
  WRONGTYPE.
- `SHUTDOWN` ends in `"stopped"`. The event loop around the handlers is in
  `Server`.
- Refinement: each db_ call is a step of `KeyspaceSpec`, and the dispatch
  and reply steps are stutters.

### Resp

- A buffer is a sequence of bytes. The bytes the parser reads (`+ - : $ *`,
  the digits, CR, LF) are one-character strings, NUL is `"NUL"`, and any
  other payload byte is an opaque value.
- `resp_parse_value` is a RECURSIVE operator that follows the C switch case
  by case: `find_crlf`, `atoi`/`strtoll` on the header line, the
  `need > len` test, `imdb_strndup` (which cuts at the first NUL), and
  `ParseItems` for the array loop. It yields `[n, v]`, where `n` is the
  bytes consumed, 0 for incomplete or -1 for malformed.
- The writers yield the bytes they append. `Decimal` is `snprintf`'s
  `%lld`/`%zu`.
- In `Commands`, every reply item is written by its `resp_write_` call
  (`ItemBytes`), and `Wire` is the reply buffer after the handler.

### Server

One pass of `server_run` is a sequence of steps, in the order the C code runs
them:

1. `Select` builds the fd sets and selects.
2. `Accept`.
3. For each slot, `ReadClient(i)` then `WriteClient(i)`.
4. `EndPass` runs the expiry sweep and the `while (srv->running)` test, or
   the cleanup.

Other processes act between any two server steps:

- The clients: `Connect`, `SendRequest` and `CloseClient`.
- `signal_handler`.

Data is abstracted as follows:

- Bytes are abstracted to pieces. A request is two pieces, so a `recv` can
  stop inside one.
- `resp_parse` returns -1, 0 or the size of the first request, as the byte
  parser does on a buffer that starts at a request boundary.
- The keyspace is the set of writes `<<client, n>>` it holds.
- `dump.rdb` is the set saved by the last successful `persist_save`.
- A `recv` of length 0 (full buffer) and a `recv` at end of stream both drop
  the client, as `n <= 0` does in the code.

### Persist

`persist_save` is three steps, because a crash can fall between any two of
them:

1. `SaveWrite` opens, writes and closes `dump.rdb.tmp` (lines 63-126).
2. `SaveRemove` removes `dump.rdb` (line 129).
3. `SaveRename` renames the temporary file (lines 130-133).

The file is modelled as follows:

- A file is a sequence of tokens, one per `fwrite`: magic, type byte, int64,
  uint32, or length-prefixed string. `Encode` writes the records in any
  order of the stored keys (`SlotOrders`), since the table's layout decides
  the order.
- `persist_load` is a RECURSIVE operator, `LoadRecords`, that follows the C
  loop record by record. It stops at the trailer or at the first failed
  read, skips expired records, and keeps a list's elements read before a
  failed one.
- Any write between two saves is `Mutate`. The commands themselves are
  checked in `Keyspace` and `Commands`.
- `Restart` is `db_create` followed by `persist_load` in `main`.

Failures, chosen by the constant `Faults`:

- `write`: `fopen` or an `fwrite` fails, and the `fail` path runs.
- `flush`: `fclose`, whose result is ignored, loses the end of the buffer.
  The file then holds any prefix of the tokens.
- `rename`: `rename` fails.
- `crash`: `Restart` may run between any two steps of a save.

### Cli

The CLI's `main` loop, one action per outcome of a pass:

- `SkipLine`: `fgets` returns a line that is empty once trimmed, or that
  `build_command` turns into no argument (`continue`, lines 280 and 284).
- `SendLine`: the line is framed and sent. While the server is up the
  request reaches it, as the value its `resp_parse` reads. After the server
  has gone, `send` may still succeed (the bytes are lost) or fail, and the
  CLI ends with "Connection lost".
- `EndOfInput`: `fgets` returns NULL.
- `CliRecv`: one `recv` of `recv_response`. It takes any number of the
  bytes waiting, at most the free space of `recv_buf`. When the bytes parse
  as a reply or fill the buffer, `recv_response` returns and `ShowReply`
  does the rest of the pass: parse again, record the value printed, and
  leave after a SHUTDOWN line. With nothing waiting on a closed connection,
  `recv` returns 0 and the CLI ends.

`Tokenize` and `build_command` follow the C tokenizer byte by byte: blanks,
quotes, a missing closing quote and the 128-argument cap. `parse_resp` is
the CLI's own parser, not the server's. It copies a bulk string whole, NUL
bytes included, and a length below -1 crashes it (`Crash`).

The server is the environment. It reads each request with `Resp`'s
`resp_parse` and answers it in order with one frame written by the
`resp_write_` operators, as `server_main` and `cmd_main` check. It executes
SHUTDOWN without the +OK reaching the client (the `srv_shutdown` finding).
It may also go away at any time.

## Runs

Passing runs. Each property of a passing run has a mutant of the code that
TLC shows violating it (see `mutants` in `PROJECT.json`).

| run | cfg | checks | what it shows |
|---|---|---|---|
| `ht_explore` | `MCHashTable_explore.cfg` | TypeOK, ProbesTerminate, CountersMatch, EntriesKept | Three keys, capacity 4 growing to 8 and shrinking back. `size` and `tombstones` always count the slots, no probe loop of `ht_find`, `ht_set` or `ht_delete` can cycle, and no set or resize drops a stored entry from the slot array. |
| `cmd_main` | `MCCommands.cfg` | TypeOK, NoEmptyList, ImplementsKeyspaceSpec, RepliesRoundTrip, PushReplyIsLength, CodecRoundTrip | Every request, with the clock and the sweep running between the db_ calls of one command, refines eager expiry for every operation except DBSIZE and INFO. Popping the last element always removes the key. A successful push answers the list's new length. The bytes every handler writes are one frame: `resp_parse` consumes all of them and reads back the reply the handler meant (RepliesRoundTrip). `resp_parse` reads every bounded valid frame exactly, and every truncation of one as incomplete (CodecRoundTrip, the spec's codec round-trip). |
| `server_main` | `MCServer.cfg` | TypeOK, RepliesInOrder, RepliesEventually | Under partial reads and sends, pipelining, closes, a full client table and a signal at any point, each client reads replies in request order. Each request is eventually answered unless the client is dropped or the server stops. |
| `cli_main` | `MCCli.cfg` | TypeOK, CliShowsOwnReply, RequestsFramed, RepliesAnswered | Seven lines that cover every path of the tokenizer, and replies of every RESP type cut into pieces of any size. Every request the CLI sends is one frame that the server reads as the line's tokens. Until a reply overflows `recv_buf`, the CLI prints only the reply to its own request and is never left waiting. With that condition dropped, TLC shows both failures: the tail of the long reply is printed as the next reply, or it never parses and `recv_response` waits for ever. |
| `persist_main` | `MCPersist.cfg` | TypeOK, RestartLoadsOnlySaved | All four failures are enabled. A restart never makes up or changes an entry. Each key is absent, or holds its live entry of the last save that returned 0, or (after a lost flush) holds a prefix of that entry's list, possibly empty. |

Violation runs. Each shows a disagreement between the code and what the spec
or the code's own comments say (see `findings` in `PROJECT.json`).

| run | property | what the code does |
|---|---|---|
| `ht_refine` | RefinesKVMap | After a Robin-Hood swap, `ht_set` places the displaced entry with the old probe counter, past an empty slot. `ht_get` then no longer finds a key that was never deleted. |
| `ht_tomb` | UniqueKeys | `ht_set` reuses the first tombstone without looking for a live copy further on. With set/set/delete/set, one key ends up in two slots. |
| `cmd_push` | PushKeepsAllValues | `LPUSH k a b` on a key whose deadline passes between the two `db_lpush` calls: the second call deletes the list holding `a` and answers 1. |
| `srv_malformed` | MalformedDropped | A malformed request stays at the head of the buffer. The client is neither answered nor dropped. |
| `srv_shutdown` | ShutdownAnswered | The +OK of SHUTDOWN is queued after the fd sets were built, and the loop exits and closes the socket before sending it. |
| `srv_acked` | AckedWritesSaved | A signal saves mid-pass. Writes executed later in the same pass are acknowledged but not saved. |
| `persist_crash` | RestartRestoresLastSave | With crashes only: save, then a second save crashes between `remove` and `rename`. The restart loads an empty keyspace, although the first save returned 0 and the code's comment says "Atomic rename". |

## Bounds and why they suffice

**HashTable.**
- `MinCap` is 4 rather than 64, so three keys cross the 0.70 grow threshold
  (at the third insert) and the 0.20 shrink threshold. The thresholds are
  ratios, so the code paths are the same.
- `HashSpace` is 8, which distinguishes every home slot at capacities 4
  and 8.
- `CapacityBound` stops exploration at 8 slots.
- The tombstone run uses two keys and `MinCap` 8. There, no grow clears the
  tombstone before it is reused.

**Keyspace.**
- Two keys, two strings, `IntWidth` 2 (values -2..1, so wrap-around is one
  INCR away) and `MsPerSec` 2.
- The clock runs from 4 to 7 with a sweep interval of 2 and one sample per
  sweep, so deadlines pass, sweeps happen and a sweep can miss an expired
  key.
- EXPIRE seconds are -1, 0 and 1. LRANGE indices are -3, -1, 0 and 1, which
  cover the negative and clamped cases.
- `VIEW StateView` drops `result`, which no action reads.

**Commands.**
- The keyspace bounds, but one string, lists of up to two elements (three
  in `cmd_push`, so two values land on a list of one), `MsPerSec` 1 and the
  clock from 4 to 6. EXPIRE seconds are 0 and 1, LRANGE indices -1, 0 and 1,
  and `ArgLiterals` is the number 0 and one text. INCR and DECR reach the
  other numbers and the wrap.
- Up to two keys, pairs or values per request (`MaxArgs`), which is the
  least that lets the clock tick inside a command.
- `Finish` discards the handler's locals (`calls`, `i`, `acc`), as the C
  locals end with the handler. `VIEW CmdView` drops `result` and `out`. The
  properties read only the values a step writes into them.
- CodecRoundTrip's frames are simple strings and errors of up to one byte,
  the integers -10, -1, 0, 7 and 12, bulk strings of up to two bytes over
  `a`, CR and LF (so a payload can hold a CRLF), nil, and arrays of up to two
  of these, nested once: about 600 frames and all their truncations. The
  round trip is the same in every state, and TLC does not cache it, so the
  invariant is `Init_cmd => FramesRoundTrip`. It is evaluated once, in the
  initial state.
- DBSIZE and INFO are left out of `cmd_main`, whose refinement they would
  fail (see the `db.c:203` hazard). `cmd_push` runs the full next-state
  relation. SAVE only returns success or failure here. Its file is in
  `Persist`.

**Server.**
- Two clients and one slot, so one client can be turned away.
- A buffer of 3 pieces (one and a half requests).
- Two requests per client, so requests can be pipelined and a recv can split
  one.
- The acked-writes run uses two slots, so one client's write can run after
  another client's save.

**Persist.**
- Two keys, so a file holds two records in either order and a truncation
  can fall inside the second.
- The values are a string and a two-element list. The list makes element
  order and a cut inside a list observable. An int value takes the same
  path as a string through every failure, so it is left out to keep the run
  near one minute.
- The deadline is none or 5, and the clock runs from 5 to 6. A record saved
  live is expired when it is loaded, and `SkipLen` runs.
- Symmetry over the keys.
- `VIEW StateView` drops `ret`, which no step reads, and the temporary
  file once no save is in progress. The next `fopen(..., "wb")` empties
  that file before it is read.

**Cli.**
- Three typed lines out of seven, and five replies.
- `BUF_SIZE` is 12 bytes. Every reply fits except the 16-byte array, which
  stands for a reply longer than 64 KiB. So both exits of `recv_response`
  are reached: a complete parse, and a full buffer.
- `ArgCap` is 128, as in the code. No line reaches it.

## Fairness

`Server` assumes weak fairness of the server's steps only.

- Justification: `select` has a 50 ms timeout (`server.c:188`) and never
  blocks for good, so an enabled loop step is eventually taken.
- Clients get no fairness. A client may stop sending at any time.

`Cli` assumes weak fairness of `CliRecv` and of the server's answering
steps.

- Justification: `recv` blocks only while nothing has arrived, and the
  server's `select` returns within 50 ms.
- The user and a server that goes away get no fairness.
- `CliFair` is WF_vars(CliRecv) written with its enabling condition,
  `RecvReady`. The two are equal whenever TypeOK holds. Written this way,
  TLC does not unfold the recursive `parse_resp` to decide ENABLED, which
  takes it minutes per state.

The keyspace, table and persistence runs check safety only.

## Not modelled, and the plan

These parts are not modelled yet (see `components` and `hazards` in
`PROJECT.json`):

- **Persistence, remaining parts.**
  - Power loss: no `fsync` before the rename. The model keeps every byte
    written before a crash.
  - Bytes within a token: NUL bytes and byte-level cuts.
  - Composition of `Persist` with `Keyspace`: a truncated list loads as an
    empty list, which `NoEmptyList` forbids.
  - `Server` still treats a save as one atomic step.
- **RESP codec, remaining parts.**
  - `atoi` wrapping at 2^31. TLC's integers are 32-bit, so `atoi` is
    `strtoll` and lengths have at most two digits.
  - NUL bytes in bulk strings. `strndup` cuts them, against the spec's
    "binary-safe". CodecRoundTrip's frames leave NUL out, because it fails
    on the first such frame.
  - The 128-byte `resp_buf_appendf` buffer, and unknown command names that
    contain CR LF and are echoed into an error line. Both need command names
    as bytes, and `Commands` has opaque names.
  - `Server` still parses pieces, not bytes.
- **Command arguments.** `get_arg` returns NULL for an integer or nil array
  element, and the handlers dereference it. This needs the element types
  the codec produces, so it belongs to the `Resp` module.
- **Negative EXPIRE.** A negative deadline reads as "no deadline"
  (`db.c:179`). An earlier run showed `ImplementsKeyspaceSpec` violated
  with seconds -3. That run gave its place to `cli_main`, and the case is
  kept as a hazard.
- **INCR's INT64_MIN sentinel and SET EX <= 0.** `cmd_incr` and `cmd_set`
  model both, but no run asserts them (see hazards).
- **Keyspace over the real table.** A composition of `Keyspace` with
  `HashTable`, so that the sweep's iteration order and the table bugs
  combine.
- **Sweep liveness.** That the sweep eventually removes an expired key (its
  restart after a delete biases it to early slots).
- **Clock going back.** A clock that steps backwards, since `gettimeofday`
  is not monotonic.

Not modelled at all:

- The CLI's start-up (arguments, `connect`), `print_resp`'s layout and
  `free_resp`. The model records the value printed, not its text.
- The CLI's `fgets` cut of lines longer than 4095 bytes.
- Socket setup and the Windows console handler.
- Allocation wrappers, which abort on failure.
