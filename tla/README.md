# TLA+ models of WvStreams and UniConf

WvStreams is a single-threaded, event-driven C++ networking library. UniConf is
the hierarchical configuration system built on it: *generators* store or fetch
key/value trees, notify callbacks about changes, and can be put behind a daemon
(`uniconfd`) that any number of clients talk to. This directory models the parts
of the two whose correctness depends on the order of events, checks them with
TLC on small instances, and proves what matters most of twelve components with
TLAPS for every instance.

`src/` paths below are relative to `src/wvstreams/`.

## 1. Inventory

### UniConf

| Component | State | Operations | Talks to |
|---|---|---|---|
| `UniConfValueTree`, `UniHashTree` (`include/uniconftree.h`, `uniconf/unihashtree.cc`) | nodes with a value and children | find, store, delete a subtree, visit | owned by `UniTempGen` |
| `UniConfGen` (`uniconf/uniconfgen.cc`) | `hold_nesting`, `deltas`, `cblist` | `hold_delta`, `unhold_delta`, `flush_delta`, `clear_delta`, `delta`, `add_callback`, `del_callback` | calls callbacks, which call back into it |
| `UniTempGen` (`uniconf/unitempgen.cc`) | one tree | `get`, `set`, `haschildren`, iterators | `delta` for each changed key |
| `UniClientGen` (`uniconf/uniclientgen.cc`) | `cmdinprogress`, `cmdsuccess`, `result*`, `version` | `get`, `set`, `setv`, `haschildren`, `iterator`, `commit`, `refresh` | requests over `UniClientConn`; reads replies and notices |
| `UniConfDaemonConn` (`uniconf/daemon/uniconfdaemonconn.cc`) | a coroutine in the middle of a command | `execute` and one `do_*` per command, `deltacallback` | the daemon's generator; one stream to its client |
| `UniCacheGen` (`uniconf/unicachegen.cc`) | a `UniTempGen` tree | `refresh`, `loadtree`, `deltacallback` | an inner generator, usually a `UniClientGen` |
| `UniTransactionGen` (`uniconf/unitransactiongen.cc`) | a tree of changes | `set`, `get`, `commit`, `refresh`, `gencallback` | the generator below it, which others change |
| `UniReplicateGen` (`uniconf/unireplicategen.cc`) | a list of generators, `was_ok`, `processing_callback` | `prepend`, `append`, `set`, `get`, `refresh`, `replicate`, `deltacallback` | its generators, remote ones through `UniRetryGen` |
| `UniRetryGen` (`uniconf/uniretrygen.cc`) | the inner generator, `next_reconnect_attempt` | every call, around `maybe_reconnect` and `maybe_disconnect` | a moniker, usually of a `UniClientGen` |
| `UniMountGen`, `UniConfRoot` (`uniconf/unimountgen.cc`, `uniconf/uniconfroot.cc`) | the list of mounts, watches | `mountgen`, `unmount`, `zap`, `set`, `get`, `gen_callback` | mounted generators; watchers |
| `UniIniGen` (`uniconf/uniinigen.cc`) | a tree, `dirty`, `old_st` | `set`, `refresh`, `commit`, `commit_atomic` | a file that other programs write too |
| `UniListGen`, `UniDefGen`, filters, permission generators | little | forwarding | an inner generator |

What is hard here: callbacks re-enter generators in the middle of a flush;
replies carry no request ids and share a stream with notices; the client waits
in a `select` loop of its own, possibly inside a callback of another call; the
daemon's listings and removals give up their timeslice between entries;
connections time out and break in the middle of all of it; what lies below a
transaction, a mount, a replica or a cache changes under it; programs crash
while they write their file.

What makes it correct: no notification is lost or left stale once things are
quiet; a call returns the answer to its own request; clients, caches and
replicas end up with the same tree; a removal is completed; a transaction looks
as if it were committed; no half-written file is taken for a whole one; every
call returns.

### WvStreams

| Component | State | Operations | Talks to |
|---|---|---|---|
| `WvStream` (`streams/wvstream.cc`) | buffers, `closed`, `stop_read`, `stop_write`, flush flags, `autoclose_time`, `closecb`, alarms | `read`, `write`, `getline`, `flush`, `close`, `noread`, `nowrite`, `flush_then_close`, `select` | its subclass's `uread`/`uwrite`; callbacks |
| `WvFdStream` (`streams/wvfdstream.cc`) | `rfd`, `wfd`, `shutdown_read`, `shutdown_write` | `uread`, `uwrite`, `maybe_autoclose`, `close`, `pre_select`, `post_select` | the kernel |
| `WvStream::alarm` (`streams/wvstream.cc`) | `alarm_time`, `last_alarm_check` | `alarm`, `alarm_remaining` | the cached clock, which may be set back |
| `WvIStreamList` (`streams/wvistreamlist.cc`) | streams, `sure_thing` | `pre_select`, `post_select`, `execute`, `append`, `unlink` | every stream of the program |
| `WvCont`, `WvTask` (`utils/wvcont.cc`, `utils/wvtask.cc`) | stacks of coroutines, recycled tasks | call, yield, copy, destroy | `continue_select` |
| `WvDynBuf` (`utils/wvbufferstore.cc`) | a list of circular buffers | put, get, unget, unalloc, peek, poke, merge, zap | streams and codecs |
| `WvScatterHash` (`utils/wvscatterhash.cc`) | slots with deleted marks | add, remove, find, rebuild | containers |
| `WvSubProcQueue` (`utils/wvsubprocqueue.cc`) | a waiting and a running queue | `add`, `go` | processes |
| `WvHttpPool`, `WvHttpStream` (`urlget/`) | requests by URL, a connection with its queues | `addurl`, `execute`, `doneurl`, `close` | an HTTP server |
| `WvDBusConn`, `WvDBusServer` (`dbus/`) | authorization, pending replies, names | `send`, `filter_func`, `expire_pending`, `proxy_msg`, `conn_closed` | D-Bus clients and each other |
| TLS, logging, resolver, ... | see `PROJECT.json` | | streams |

What is hard here: `close` flushes, flushing writes, a failed write closes, an
emptied buffer closes, closing runs a callback; two halves are shut down in
either order, each when its own buffer drains; the kernel takes any part of what
it is offered; callbacks unlink and close what is being walked and run the list
again; a coroutine gives control to the top level, not to its caller; requests
outlive the connection they were sent on; serial numbers of two clients collide.

What makes it correct: bytes go out once and in order; the close callback runs
once; a descriptor is closed once and not used afterwards; what was accepted
goes out before the writing side shuts down; streams told to close do close;
what was put into a buffer or a table is found in it; control comes back to
every caller; every request is answered, once, with its own answer.

`PROJECT.json` lists every component, including those not modelled and why, and
under `hazards` each place in the code where these behaviours bite.

## 2. Modules

```
UniConfTree              trees of keys and values, orders of notification, recursive iterator
  UniConfGen             the notification machinery (hold, queue, flush, callbacks)
    UniTempGen           the in-memory generator over it
  UniConfProtocol        clients, wire protocol and daemon
  UniCacheGen            a cache in front of a client generator
  UniTransaction         what a transaction promises (abstract)
    UniTransactionGen    the change tree, which implements it
  UniMountGen            mounts that shadow one another, and the watches of UniConfRoot
  UniIniGen              a tree saved in a file, with crashes
UniReplicateGen          replicas, local and remote
UniRetryGen              reconnecting
WvFdMembers              the members of a stream; shutting down one side of it
  WvFlush                flushing and closing on the way, for a given close()
  WvFdStream             one stream with its buffers and descriptors, over two WvFlush
WvAlarm                  alarms and a clock that is set back
WvCircularBuf            a circular buffer as a value
  WvDynBuf               the dynamic buffer made of them
WvScatterHash            a hash table with open addressing
WvIStreamList            the list of streams a program runs
WvCont                   continuations over recycled tasks
WvSubProcQueue           a queue of processes with sync points
WvHttpPool               HTTP requests, pipelined and retried
WvDBus                   D-Bus clients and server
Sublists                 what is left of a sequence when elements are taken out

MCGenerators, MCRemote, MCProtocols, MCStreams, MCConnections, MCRuntime,
MCUniConfProtocol, MCWvDynBuf      instances for TLC

SublistLemmas            facts about sublists, concatenation, counting, least numbers
UniTempGenProofs (and UniIniGen), UniConfProtocolProofs, WvFdStreamProofs, WvDBusProofs,
UniFilterGenProofs (transactions, retries, cache), WvRuntimeProofs (list, queue, alarms),
WvContProofs                       theorems and proofs
```

Definitions keep the names of the functions they translate. Definitions called
"Mutant of ..." change one definition the way a plausible mistake would; each
checked property is known to fail under one of them.

An MC module with several components has them *side by side*: a variable `part`
says which component a behaviour belongs to, and the variables of the others stay
as they are, so that the state space is the sum and not the product of the parts.
A property of such a module is the conjunction of the properties of one component
that concern one question; they are stated one by one, with comments, in the
component's module. The components theorems are about are EXTENDed by their MC
module, so that the run checks the very definition the theorem states; the others are
instances. Where EXTENDed components share a suite, the names that are in every
specification are told apart: `IniInit`, `QueueNext`, `RetrySpec`, `TransactionTypeOK`;
the operations of a transaction are `tx_set`, `tx_remove`, `tx_commit`,
`tx_refresh` and `tx_other`, and `WvCont` has `construct` and `call_returns`.

**UniConfTree.** A tree is a function from keys to values or `Null`. How keys
are spelled does not matter, only which lies above which (`Prefix`). `Stored` is
`set` of a value with its auto-vivified parents, `Removed` is deletion with
everything below. The order among siblings is the hash order of a container, so
notifications come in any order that respects the tree (`TopDown`, `BottomUp`).
`WalkOn` and `WalkPast` are `_UniConfGenRecursiveIter`: the names left at each
level, looked up in the generator as the iterator goes.

**UniConfGen, UniTempGen.** One thread, but callbacks re-enter: a flush is one
step per callback invocation (`next_delta`, `dispatch_delta`, `flush_done`), and
what a callback does (`set`, `remove`, `hold_delta`, `unhold_delta`,
`clear_delta`, `add_callback`, `del_callback`) are steps in between, enabled while
`running # 0`. `base` is the nesting at which the flush loop runs; a callback
releases only the holds it made. A watcher's `told` is the tree as it pictures
it. Each `set` is one step: the code runs it under a hold of its own, so nothing
can be dispatched in the middle of it. Left out: `flush_delta` called from a
callback (nothing in the repository does), and erasing the running callback's own
map entry, after which the C++ iterator is invalid.

**UniConfProtocol.** `c2s` and `s2c` are the two byte streams of each
connection, FIFO, with one message as the unit. `stack[c]` holds a client's
generator calls in progress, one `hold_delta` each; the innermost reads the
connection (`conncallback` and its cases), the last to release its hold
dispatches queued notices (`flush_delta`), and callbacks may call the generator
again. `result`, `result_key`, `cmdsuccess` and `cmdinprogress` are shared by all
calls, as in the code. `task[c]` is the coroutine of a daemon connection in the
middle of a listing or removal. The code yields after every entry of a listing
and after every 100 notices of a removal (`CONTINUE_SELECT_AT`); here it may
yield after any entry. `timeout` closes the connection, `eof` and `detach` are
the loss of it at either end; `FinishTask` is `~WvCont`, which resumes the
coroutine until it returns. `answer` is history: what the daemon made of each
request. Left out: quoting of messages, `NOOP`, `HELP`, malformed requests,
recursive listings (they are in UniCacheGen), `get` of keys with a trailing slash.
A client reads its `HELLO` like any other message, so early calls see `version = 0`.

**UniCacheGen.** The daemon's tree, the state of one recursive listing
(`levels`, `entered`), one stream of entries and notices, the client's held
notices, and the cache; `Received` is what a message does to the last three. The final `OK` first applies the held
notices (`unhold_delta` in `do_select`) and then stores the listing (`loadtree`),
in the order of the code.

**UniTransaction, UniTransactionGen.** The abstract transaction keeps the list of
`set` calls made on it and shows the tree they would make of the one below. The
detailed one has the nodes of the change tree with their modes (`NEWTREE`,
`NEWVALUE`, `NEWNODE`, `BLANK`), looks through them at the tree below, and decides
from them what to announce, when the user sets, when others set below, and when
the transaction ends. `commit` is a step for each `base->set()` it makes, parents before
children (`tx_apply`), then those that delete what a replacement tree does not have
(`tx_list`, `tx_delete`), and one that deletes the nodes (`tx_committed`): each `set` calls
those who watch the generator below, and while they run (`calling`) they may change it,
which `gencallback` still judges by the nodes that are there. They do not call the
transaction itself, whose nodes must not change while `commit` walks them; callbacks of
the transaction, which `commit` holds until its end, count as made when they are held.
`ImplementsTransaction` is the refinement, the abstract picture
being what `get` answers. That callbacks describe that picture is `ToldAll`; it is not part of
the mapping because `set` passes over some keys, and `commit` over what others change
of keys it has applied (see Findings); the history variable
`untold` collects these until a callback mentions them, and `touched` what others changed
during a `commit`.

**UniReplicateGen, UniRetryGen.** A replica is a `UniTempGen`, whose callback comes
before its `set` returns, or a remote one, whose notices are queued, whose
connection breaks, is found to be broken, and comes back. `replicate` copies what
the first generator has into those that have become ok. Time in `UniRetryGen` is
the distance to the next attempt, which may lie in the past.

**UniMountGen.** Mounts are a list, the first that covers a key serves it. A
watcher is told of a key and looks; what it knows must then be what `get` returns.

**UniIniGen.** `commit` is one step per line written, with a crash, a failed
write or another program's save possible between calls and, for the crash, between
lines. A file has an inode, a time of change in seconds, a size and the sticky bit
that marks a file that is not whole; `saved` is what the last save that came to its
end had in it. `refresh` overwrites `old_st` before it looks at the mark and reads, so each
of its ends is an alternative of its own: the file cannot be opened or `fstat` fails
(`not_opened`; `statbuf` is not initialised then, `Leftover` is what may be on the
stack), it is marked (`not_whole`), it is the one that was read (`do_nothing`), reading it
fails and the old tree stays (`not_read`), or it is read (`switch`). `unread` is history: the
file `old_st` stands for was not read.

**WvFdMembers, WvFlush, WvFdStream.** Sequential, with deeply nested calls, so each member function is
an operator from a stream to the set of streams it may leave behind, whatever the
kernel answers; an action is one call by the application or one turn of the main
loop. The functions that may close the stream on the way (`WvFlush`) take the
`close` they call as a parameter, because it is reached from within a flush
(`Inside`, where `CloseInFlush` does not flush again since `is_flushing` is set)
and from elsewhere (`Outside`, with the whole `close`). Bytes are numbered as `write` accepts them; `wire` is what the
kernel took. `Members` are the values the members can have. Time is not modelled: a bounded wait may end at any point, and an
`autoclose_time` may pass at any flush. `::write` of a non-zero count is taken not
to return zero; `queuemin`, which makes `read` wait for more bytes, is left at 0.
`size_t` is modulo `SizeMod`. The close callback may half-close the stream; it does not set another close callback.

**WvAlarm.** The clock may be set back at any time; `wvstime()` is a copy of it
that `select` brings up to date. `look` is a call of `alarm_remaining` outside `select`,
by `callback` or the user. `last_alarm_check` belongs to the stream and not to the alarm:
when an alarm is set it may be old, or ahead of a clock that was set back since. History
variables keep the real time that passed, what the clock was set back by while the last look
was older than `wvstime()` (`blind`), and how far that look was ahead of it (`ahead`).

**WvCircularBuf, WvDynBuf.** Arrays with a head, a number of bytes to read and a
number of bytes that can still be ungotten; the dynamic buffer is a list of them.
The calls that move bytes (`coalesce`, `compact`, `basicmerge`, `unget` over several
sub-buffers) are operators on these values.

**WvScatterHash.** Slots, status bytes and the probe sequence with unsigned
overflow (modulo `HashMod`); table sizes are the first of the code's primes.

**WvIStreamList.** `frames` is the stack of nested `runonce` calls, each in
`select` or in `execute` at some stream; callbacks are steps in between. The callback of the
list itself comes after its `execute` (`WvStream::_callback`). Reference counts decide what
exists.

**WvCont.** `run` and `yield` as `setjmp`/`longjmp` leave them: `yield` goes to the
top level and `_call` runs its task again until control is back where it belongs.
The destructor that runs a continuation to its end is a loop of such calls.

**WvSubProcQueue.** Entries are known by the number of the `add` that made them; a
process runs until it exits. History variables say which entries must have ended
before a start of a cookie will do for its last `add`.

**WvHttpPool.** Operators on a record of the connection, the pool and the history,
since calls nest (`doneurl` → `close` → `doneurl`). The server is the environment:
it answers in order, refuses, closes and resets, and may answer the requests of the
pipelining test differently. A body comes whole, or is cut off by a reset.

**WvDBus.** Two byte streams per client, with authorization lines and messages on
them; serial numbers count from the same value at every client, so they collide in
the server.

## 3. Runs

| Run | Property | What it says |
|---|---|---|
| `generators` | `Converged`, `NoLostDelta`, `DeltaInv`, `TypeOK`, `TreePrefixClosed` | `UniTempGen`: no delta is lost or left stale, whatever callbacks do in the middle of a flush (also proved) |
| | `TransactionSeen` | a transaction's keys look as if it were committed, callbacks tell of every change of that look except those `set` passes over and those others make from the callbacks of `commit` to keys it has applied, and of nothing else; in the middle of `commit`, too (also proved) |
| | `ImplementsTransaction` | the change tree implements the abstract transaction, with a `commit` that others interfere with (also proved) |
| | `ReplicasAgree`, `GetSurvivesFailure` | replicas in touch with one another agree once notices have arrived; `get` gets past a connection found broken |
| | `FileTrusted` | no half-written file is unmarked or loaded; no change of a later second is overlooked, but for a file whose reading failed before; callbacks know the tree (also proved) |
| `remote` | `CacheCurrent` | the cache has every key that did not change while it was listed (also proved) |
| | `RefreshEnds` | loading the cache ends |
| | `WaitsAfterDisconnect`, `ConnectsAgain` | an interval passes after a disconnect (also proved); once the server stays up the generator is connected |
| | `WatchersCurrent` | a watcher knows its key through mounts and unmounts; keys that lead to a mount exist |
| `protocols` | `NoStrayReply`, `ReplyMatches` | a client waits for as many replies as are on their way; a call returns what the daemon made of the same request (also proved) |
| | `ToldConverges`, `ToldAgreesWithGet` | with no notice left, a client has been told everything; after a get, it has been told the value returned (also proved) |
| `removal` | `RemovalCompleted`, `ToldInOrder` | a removal whose client goes away half-way is completed, and announced so that a watcher's picture stays a tree (also proved) |
| `calls_return` | `CallsReturn` | every call returns |
| `stream` | `BytesInOrder`, `ClosesOnce`, `DrainedFirst`, `LimitKept` | order of bytes, one close callback, descriptors closed once, drained before shutdown, limit kept (all also proved) |
| | `AlarmInTime` | every alarm is late and early only by what the clock, its copy and the last look explain (also proved) |
| | `BufferTrue`, `TableTrue` | buffer: the bytes are those written, in order, and the last read can be ungotten; table: every search ends and finds what is there |
| `connections` | `StreamCloses` | streams told to close do close |
| | `OneAnswerEach`, `AllDone` | HTTP: an outstream gets its own answer, once; every request is answered or given up |
| | `CallsRouted`, `AnswersCome` | D-Bus: a callback gets the reply to its own call, once; no name leads to a deleted connection (also proved); every call is answered |
| `runtime` | `ContsInStep`, `ControlComesBack` | the continuation that runs was called last, tasks are neither shared nor leaked (also proved); control comes back to the top level |
| | `ListAccounted`, `StreamsServed` | nothing is called after it was unlinked or used after its last reference (also proved); ready streams are called, closed ones pruned |
| | `SyncPoints`, `QueueEmpties` | a sync point runs alone and after all queued before its last `add` (also proved); the queue empties |
| `nested_get`, `peek`, `http_error`, `untold` | | expected violations, see Findings |

The invariants that are also proved contain the inductive invariant of the proof
(`DeltaInv`, `ClosesOnce`, `ListAccounted`, `SyncPoints`, `FileTrusted`, `CallsRouted`,
`WaitsAfterDisconnect`), so TLC has looked at what the proofs start from. Of the
transaction's, the run checks the types, what callbacks told, and `SeenAsReplayed`
for the tree that is there (`AsIfCommitted`); for every tree it takes TLC longer than
all the rest of the run. TLC has checked the others on their instances in runs of their
own: `CommitInv`, `CallbackInv`, `ContInv` and `AlarmInv`, and those of the protocol (`TypeInv`, `ToldInv`, `StageInv`,
`OrderInv`, `AgreeInv`) on the instance of `protocols`.

Bounds. *Protocol*: two clients are one that acts and one that interferes; a third
adds further notices but no new kind of message. Two requests of one client are
enough for a late or stray reply to meet a later request; a nested call needs one
more. Removals need two siblings (something left to do when interrupted) and a
grandchild (an iterator level to walk into again). *Generators*: three changes let
one be queued, one dispatched and one made by a callback; the root is removed and made
again, but gets no value of its own; holds within holds are
left to the proofs; a transaction has two calls at a time, so that one is below or above
what the other one set, and two changes from below, so that the second finds the flags
the first left; its calls and the others have a value of their own each, and longer
transactions are left to the proofs. Replicas: a pair with two keys, so that a partial copy shows, and three, so
that a failed one is between others. The file: two inodes (one is reused), two
seconds, three changes, crashes or saves, the last of which is not a `set`, with two trees
of the same size that others save; as many
failures to open or read as `refresh` is called. *Cache, mounts*: a key below a section
beside another section, two changes while it is listed (`RefreshEnds` says nothing of a
tree that never comes to rest); two generators that cover one another in either order.
*Stream*: four bytes allow a direct write, a buffered rest, a partial flush and a
put-back; `SizeMod` exceeds them, so arithmetic wraps only where it does in C++.
*Buffer*: sub-buffers of two to four bytes, with two stores that give each other
several of them; and sub-buffers of one byte and more, so that bytes span three of them,
`coalesce` takes each of its branches, and keeps bytes to unget while it grows.
*Table*: five elements in slots by five and eleven, keys that collide and one that
overflows. *HTTP*: three requests is one more than a connection with its test
takes. *D-Bus*: two sends are too few for a name to change hands and then to be called;
the theorem covers that. *Runtime*: three continuations, one in between; two streams and lists run
within their own callbacks; five `add`s of two cookies.

Deadlock is not checked: every instance stops when the requests, changes or bytes
of its bound are used up. What must go on is stated as liveness.

Fairness. `UniConfProtocol`, `UniCacheGen`, `WvDBus`: weak fairness of each
connection's daemon steps (the `select` loop serves every readable connection and
resumes every coroutine) and of each client's own steps (a waiting client reads;
a callback that is called returns). No fairness is assumed of new calls, timeouts
or connection losses. `WvFdStream`: strong fairness of a `select` that makes
progress: the main loop keeps selecting, and a peer that keeps reading makes the
kernel take bytes again and again, although any single attempt may find the
kernel's buffer full. `UniRetryGen`: time passes, the program goes on calling, and
its event loop finds broken connections. `WvHttpPool`: the program's steps together
(it runs one loop), the alarm of an idle connection among them, and a server that
answers as long as it is connected; no fairness of closes, resets, or the alarm of
a connection that waits for an answer. `WvCont`: the switcher's own steps weakly;
strongly, that the function of each continuation yields or returns when it runs
again and again. `WvIStreamList`: the outermost `runonce` is repeated, its walk goes
on, and the callbacks of each nesting level return. `WvSubProcQueue`: `go` is called
again and again and processes end.

## 4. Findings

Each has a run with expect `violation`:

* **`nested_get`: a `get` from a callback spoils the `get` it interrupts.** Callbacks
  are dispatched after the reply arrived and before the caller reads it.
* **`peek`: `peek` across two sub-buffers returns wrong bytes.** `mutablepeek`
  coalesces `count` bytes from the start of the sub-buffer, not from the offset.
* **`http_error`: one connection error gives up two URLs.** `close` counts the first
  as done, and the destructor calls it again with the error still set.
* **`untold`: a transaction keeps a change to itself.** When something was set below a
  key, a `set` of the key from one non-empty value to another makes no callback
  (`uniconf/unitransactiongen.cc:809`: `&&` where one of the two conditions would do),
  and `commit` makes none for it either. `ToldAll` states, and a theorem says, that this
  and the next one are the only changes that are not told.

Met while modelling, without a run of their own. UniConf:

* **A transaction keeps to itself what others do to keys it has just applied.** Each
  `base->set()` of `commit` (`uniconf/unitransactiongen.cc:395`) runs the callbacks of
  those who watch the generator below. If one of them changes a key the transaction has
  set, `gencallback` (line 504) suppresses the notice as redundant, for the nodes are
  deleted only at the end (line 284): then `get` returns the others' value, and callbacks
  have told the transaction's. `tx_committed` puts such keys into `untold`.
* **A configuration file whose reading failed is not read again.** `refresh` of
  `UniIniGen` overwrites `old_st` (`uniconf/uniinigen.cc:84`) before it reads. After an
  error (line 184) it returns false and keeps the old tree, but the next call finds the file
  unchanged (line 74), returns true and has still not read it. `FileTrusted` leaves this out
  by name (`unread`).
* **An alarm is late by all that the clock was set back by before its first look.**
  `alarm_remaining` corrects only if the time is before `last_alarm_check`
  (`streams/wvstream.cc:1072`), which `alarm` does not touch: it is 0, or the time of the
  last look at an alarm before. If the clock is set back between `alarm` and the next
  `select`, or was set back between the last `select` and `alarm`, and that look was older, the
  alarm waits for the clock to catch up. If that look was ahead of `wvstime()`, the
  correction comes although nothing is to be corrected, and the alarm is early by as much.
  `AlarmInTime` counts both (`blind`, `ahead`).
* `UniRetryGen`: what a call of the generator finds that is in progress, from a callback,
  when the inner generator is thrown away (`uniconf/uniretrygen.cc:67`) is not modelled.
* The client sends `SETV` to daemons of version 19 and up, every current one, but
  `execute` of the daemon has no case for it: the values are not set, and the `FAIL`
  replies answer later requests. Only `calls_return` has clients that call it.
* `iterator()` from a callback at the end of an `iterator()` call fails
  `assert(!result_list)` (`uniconf/uniclientgen.cc:245`).
* The table of commands in `include/uniclientconn.h:57` promises a reply to `set`;
  `do_set` sends none, and `NoStrayReply` shows that clients depend on that.
* A cache keeps the old value of a key that changed between its entry in the listing
  and the end of the listing (`uniconf/unicachegen.cc:76`). `loadtree` skips empty
  values and the root's own value, so a key with an empty value does not exist in
  the cache. `CacheAgrees` states what does hold.
* `UniRetryGen` promises to wait "since the disconnect or last reconnect attempt"
  (`include/uniretrygen.h:26`). A failed attempt moves the next one an interval from
  when it was *due* (`uniconf/uniretrygen.cc:97`), so a backlog of missed attempts is
  made up for without waiting; `WaitsAfterDisconnect` states the other half.
* Replicas: keys removed while a replica was away come back when it does; if all
  are lost at once, callbacks are not told; the root's own value is not replicated;
  two remote replicas that change one key at the same time pass the two values to
  and fro for ever. The instances have the changes of one side on their way at a time.
* Mounting over a key that does not exist makes `get` return an empty string there
  without a callback; callbacks of a shadowed generator pass through, and watchers
  look for nothing.
* `UniIniGen`: a crash between the truncation in `open` and `fchmod`
  (`uniconf/uniinigen.cc:332`) leaves a blank file without the mark; `dirty` is
  cleared although a write in place failed; a generator that has not read its file is
  dirty, so a `commit` before the first `refresh` blanks it; without a file `old_st`
  is copied from uninitialised memory (line 84); a change in the same second is
  overlooked. `FileTrusted` leaves these moments out.

WvStreams:

* `flush(0)` returns false although it emptied the buffer.
* Lowering `outbuf_limit` below what is buffered makes `max_outbuf_size -
  outbuf.used()` wrap around (`streams/wvstream.cc:549`); `write` then accepts
  everything. `LimitKept` states what does hold.
* `read()` after `noread()` reads from descriptor -1; `EBADF` closes the writing
  half too (`streams/wvfdstream.cc:145`).
* With `delay_output(true)`, output left at `nowrite()` is flushed by no `select()`
  (`streams/wvstream.cc:892`), and the stream never closes by itself.
* `alarm()` counts from `wvstime()`, the time of the last `select`
  (`streams/wvstream.cc:1059`), so a program that was busy since has its alarm early,
  by as much; `AlarmInTime` counts that, too (`age`).
* A close callback run inside `post_select` that unlinks its stream leaves the list's
  iterator on a deleted link; the model has callbacks only where `execute` makes them.
* HTTP: `close()` called within `doneurl()` may leave `curl` on a waiting request, and
  `assert(curl == urls.first())` fails (`urlget/wvhttpstream.cc:151`). A body shorter
  than its `Content-Length` is not reported as an error, and requests that a server
  keeps ending without an error are retried for ever (`MaxCloses` bounds that).
* D-Bus: `ReleaseName` of a name another connection has requested since fails an
  assertion (`dbus/wvdbusserver.cc:177`). `expire_pending` reads `p->msg` after `p`
  was removed (`dbus/wvdbusconn.cc:485`). Callbacks still pending when a connection
  closes are never called.
* A sync point that runs, marked to be done again, is queued a second time by `add`
  (`utils/wvsubprocqueue.cc:30`), and may start three times after its last `add`; the
  header says twice at most (`include/wvsubprocqueue.h:28`).
* `WvLockFile` does not exclude: between `readpid`'s look at a stale or blank file and
  its unlink another process may have taken the lock.

## 5. Proofs

Each theorem holds for every value of the constants: any keys, values, callbacks,
streams, clients, limits and bounds. There are twelve components with theorems; in each,
an inductive invariant carries them, as the properties of interest are true only between
the steps that make them false.

| Component | Theorems | Assumptions |
|---|---|---|
| `UniTempGen` | `Invariance`, `TypeCorrect`, `DeltasNotLost`, `Convergence`, `TreeStaysClosed` | `Prefix` is a partial order on a finite set of keys with the root at its bottom; `Empty` is a value and `Null` is none; cookies are positive numbers, ordered as the map orders them |
| `UniConfProtocol` | `ProtocolTypes`, `TheToldConverge`, `NoReplyStrays`, `RepliesAreMatched`, `GetsAreTold`, `ToldTopDown`, `RemovalsAreCompleted` | the same of keys and values; clients use the operations there are, callbacks some of those; the tree at the start is one |
| `UniTransactionGen` | `TransactionInvariance`, `CommitInvariance`, `TransactionImplements`, `CallbacksAreTold`, `TransactionIsSeen` | the same of keys and values; the tree at the start is a tree |
| `UniCacheGen` | `CacheInvariance`, `CacheKeepsUp` | the same of keys and values; of two keys above a third, one is above the other; the tree at the start is one |
| `UniRetryGen` | `RetryWaits` | the interval is a natural number |
| `UniIniGen` | `IniInvariance`, `FileIsTrusted` | what other programs save are trees; no file has inode 0 |
| `WvFdStream` | `StreamInvariance`, `BytesStayInOrder`, `ClosesJustOnce`, `DrainsFirst`, `LimitIsKept` | descriptors are numbers; limits and sizes are natural numbers, below where unsigned sizes wrap |
| `WvIStreamList` | `ListInvariance`, `ListIsAccounted` | the list itself is none of its streams |
| `WvSubProcQueue` | `QueueInvariance`, `SyncPointsKept` | no cookie is `NoCookie` |
| `WvAlarm` | `AlarmInvariance`, `AlarmIsTimely` | the clock shows positive numbers, timeouts are natural numbers |
| `WvCont` | `ContInvariance`, `ContsAreInStep` | there are finitely many continuations, `NoCont` is none of them |
| `WvDBus` | `DBusInvariance`, `CallsAreRouted` | clients, names and the bus are told apart |

**UniTempGen.** `Converged` (nothing queued and everybody right when nothing is held)
is not inductive: in the middle of a flush nearly everything is queued. `DeltaInv` says
what is true there. A callback is wrong about a key only if the key is queued, or
is being dispatched and this callback's turn is still to come (`NoLostDelta`);
the *last* delta queued for a key carries its value in the tree
(`LastPendingRight`), while earlier ones may be stale; and the delta being
dispatched is stale only if a newer one waits (`CurrentRight`). Together these
survive a callback that changes the very key being dispatched: the key becomes
pending again for everybody. `LoopOK` ties the queue to the nesting of holds, so
that an empty nesting means an empty queue, which gives `Converged`. There is one
lemma per kind of step; `SetIsChange` reduces the ways to set to one.

**UniConfProtocol.** Five invariants, each on top of those before it. `TypeInv` includes
that calls nest two deep at most, that a request the daemon has read has its answer
recorded, and that nothing is held back outside calls (`Tidy`). What the steps of the daemon come to is stated once:
each gives up to one answer to the connection it serves and puts notices of what it
changes on all of them (`Answers`, `Announces`), so that a property of a connection is
to be shown for those two and for the steps of its client. `ToldInv`: what is held back
and what is on its way lead from what a client has been told to the tree; the last notice of
a key counts (`Leads`, `Knows`). `StageInv`: a waiting client has its request with the
daemon or the reply on its way, and there is one of them (`Asked`, `Listed`, `Replied`); one
that does not wait has none (`Quiet`). Requests without a reply may be anywhere between.
`OrderInv`: of the outermost call that waits, the request still to be read will get the
answer of its number, the entries that were sent, collected or left to list make up the
recorded listing, and the reply fits the recorded answer (`Pending`); when it no longer
waits, what `conncallback` left in the results is that answer (`Done`). `AgreeInv` says
where a reply to `get` is among the notices: what a client was told, with the notices held
back and those *in front of the reply*, comes to its value (`Hearing`), and once it was
read, those held back alone do (`Heard`). `SeesInv` is for `ToldInOrder`: here it matters
in which order a step of the daemon announces (`Neatly`), and the picture a client has is
to be a tree after each of the notices held back and on their way (`Shows`), not only after
the last. `RemovalCompleted` is a property of one step: what a coroutine that is
finished has left to visit is removed with all below it.

`TheToldConverge` has no condition on the operations. The others leave out clients that
send `SETV`, whose `FAIL` nobody waits for; where a call returns a value, they leave out
callbacks that wait for replies, too (`Orderly`): these are Findings, and the theorems say
that nothing else goes wrong.

**UniTransactionGen.** The invariant relates the change tree to the list of recorded
`set` calls *for every tree that might lie below* (`SeenAsReplayed`): said of the tree
that is there, it would not survive somebody else's change of it. One step of the
list is one step of the picture: `SetSeen` and `RemoveKeeps` show that a change
of the change tree changes every picture as `TempSet` does. That takes two facts about
the tree: what is to be created has only nodes that create above it
(`CreatedAbove`), so that `set` need not look above them; and nothing in a
replacement tree exists below what does not (`NewExists`). `commit` is followed step by step
(`CommitInv`): no step of it changes the picture (`ApplySeen`, `DeleteSeen`), since a node
that is applied is still seen through; nodes are left to apply below what is left
(`LeftInOrder`), so what was done above is not undone; and what is done is in the tree
below as it looks, but for the keys others have touched since (`DoneAsSeen`,
`ApplyDone`, `DeleteDone`, `OtherDone`). So at the end, when the nodes go, only touched keys
can look different. The refinement follows:
each operation is one of the abstract transaction's. What callbacks tell takes one more
fact, that `was_null_or_empty` says of each `NEWNODE` what the tree below has
(`WasUnset`): a notice from below says only what a key becomes. Each operation then has
to announce the keys that look different after it and no others (`ToldPrecisely`); `commit`
is shown to announce nothing, and to need to for the keys in `untold` alone
(`CommittedTells`).

**UniCacheGen.** `CacheCurrent` speaks of a cache that has read everything, which it
hardly ever has. `CacheInv` speaks of what client and cache will be when they have (`End`,
all messages of the stream read), and of the cache with the notices held back (`AtEnd`).
So reading a message changes nothing of it, and a step of the daemon is one message or
one batch of notices more at the end. Before the listing is complete, notices make of the cache
a part of the tree (`PartOf`), because keys that did not change were not announced. The
listing has the value of each key that did not change since it was begun, and no key below
one that does not exist (`ListedTrue`); and each existing key is in it, or below
a name the iterator has left, or below the entry it looks into next (`ToCome`). `ChangeTold` and
`ListingStored` say what a batch of notices and a listing make of a tree, by induction
along the sequence (`Counting`).

**UniRetryGen.** While the inner generator is gone and the interval has not passed,
the next attempt is not due before the rest of it has (`RetryInv`).

**UniIniGen.** `WrittenSoFar` says what is in the file and the temporary one at each
point of `commit`, so that a crash leaves a marked file or a whole one;
`SeenIsLoaded` says that a file `refresh` would take for unchanged is the one that was
read, but for changes in the second in which it was looked at and for a file whose
reading failed, of which `old_st` says all the same that it was read.

**WvFdStream.** Calls nest (`close` flushes, a flush writes, a failed write closes),
and each member function is an operator. So there is one lemma per function: what it
makes of a stream that is `Good`, in the middle of other calls, is `Good`, and
comes *later* than it: nothing is given back to the kernel, no byte is taken
back, what is closed stays closed (`Later`, which is transitive). It is stated for the
`close` inside a flush and for the one outside. Calls from the main loop find the
stream `Sound`, and leave it so. `BytesKept` is the heart: what the kernel has, then
the buffer, are the numbers from 0 to what was accepted, through partial writes and what
is put back.

**WvIStreamList.** Each reference is somebody's: the holder's, the list's, that of
`sure_thing`, or that of a callback in progress (`RefsAccounted`), so one counts
occurrences in a sequence from which elements are taken out (`Sublists`). No stream is
listed twice, and only the innermost `runonce` is not in a callback (`FramesInStep`).

**WvSubProcQueue.** That a sync point comes after all that was queued before it is
a matter of the order of the queue: the entry that will be the start its cookie is owed
has all it must wait for in front of it or running (`Payable`), unless it is marked to be
done again, in which case it goes to the end.

**WvAlarm.** `Timely` compares what is left of an alarm with what it should be: against
`wvstime()`, which is what the code sees, against the clock, which may have run ahead of
it or be set back behind it, and against the last look. `NotLateYet`: while the last look
is behind `wvstime()`, nothing will be corrected, but what the clock is behind was
counted in `blind`. `NotEarlyYet`: when the last look is ahead of `wvstime()`, the next one
will take the lead off the alarm, and what it should be is so much less (`ahead`). No look is
behind `wvstime()` otherwise, so that the next look corrects by as much as the clock lost.

**WvCont.** The calls in progress are a stack, but the program keeps it only in pieces:
`mydepth`, the places the tasks were called from and the saved `olddata`. The invariant
puts it together, says where a jump may land (in the task called last, or on its way to
it), and counts each continuation's links as those of handles and calls. That no task is
missing or used twice is then a matter of counting them.

**WvDBus.** Every message is at one stage of its way: of each end of each connection,
what may be on it follows from the state of the authorization (`Stage`), and what
is behind it replies under a serial number that waits for it or does not wait any more
(`Sent`, `Received`). That numbers are not used twice by one client keeps colliding
numbers of two clients apart.

**Lemmas.** `SublistLemmas` has what several proofs share: how sequences look after
`Sublist`, `\o` and `SubSeq`, and `LeastNat`, that a non-empty set of numbers has a
least one. It is used for induction: the least counterexample has a predecessor that is
none (`Counting`), and a function defined by recursion exists (`Recursion`).

TLC first checked each inductive invariant on its instance.

Only model-checked: replicas, mounts, the dynamic buffer, the hash table and
HTTP, whose models fold over data (`FoldLeft`, `SelectSeq`), operators defined by recursion
that the provers cannot expand; that nested calls return what they should when callbacks wait
for replies, and what clients that send `SETV` are told, because neither holds (see
Findings); and all liveness (`CallsReturn`, `QueueEmpties`, `StreamsServed`,
`ConnectsAgain` and so on), which is out of the prover's reach.

## 6. Not modelled

`PROJECT.json` gives the reason for each component. In short: codecs, parsers and
formatting (marshalling, HTTP and INI text, strings, `WvConf`); wrappers of system
calls and of OpenSSL, whose behaviour is the kernel's or the library's; vendored
code (argp, xplc, the packaged ports); platform glue (Win32, Qt); tests and
examples. These make up most of the repository's lines, which is why the models
cover the event-driven core and a small share of the whole. Of the components with
state, `UniListGen`, `UniFastRegetGen`, `WvStreamClone` and `WvTCPConn` with its
resolver remain.

## 7. Plan

Done, in this order: the notification core and its proofs; the protocol; the
cache; the stream; transactions with their abstract specification; replicas,
retries, mounts and the file; buffers, table and alarms; the list, continuations and
processes; HTTP and D-Bus; then proofs about the queue of processes, the file, D-Bus,
the list of streams, the stream, the transaction, reconnecting, the protocol, alarms,
continuations, what a transaction tells and the cache.

Next, most important first:

1. `ReplicasAgree`, whose invariant has to say what each message on its way will make of
   the tree it comes to, as that of the cache does, and whose folds have to become recursive
   functions first; then `NoneForgotten` of `WvHttpPool` and `WatchersCurrent` of
   `UniMountGen`, likewise.
2. `UniListGen` with `UniFastRegetGen`, and `WvStreamClone`.
