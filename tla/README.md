# minsec in TLA+

Models, model-checking runs and machine-checked proofs of minsec: the daemon
that reads logs, counts failed logins per network and bans at the firewall, and
`minsec-sync`, which reports bans to a server and loads a shared feed.
Everything is translated from the code under `crates/`; the comments in the
modules and `map` in `PROJECT.json` name the lines.

## The system

| Component | State | Operations | Talks to |
|---|---|---|---|
| Failure tracker (`minsec-core/src/tracker.rs`) | a ring of hit times per (filter, network), in a table of bounded size | `hit`, `forget`, `sweep` | called by the engine |
| Ban engine (`minsec-core/src/engine.rs`) | mirror of active bans, ban history, allow list, time of the last tick | `start`, `handle_line`, `manual_ban`, `unban`, `list`, `status`, `tick`, `stop` | tracker, firewall, event log |
| Daemon (`minsec/src/daemon.rs`) | channels of lines (4096) and requests (64), a 30 s timer | a biased `select!` on one thread | sources, control socket, engine |
| Firewall backends (`minsec-core/src/backend/`) | nftables sets with timeouts, per family one of addresses and one of networks; `exec` runs a command and keeps nothing | `setup` (with the upgrade of older sets), `ban`, `unban`, `list` (with repair), `set_allow` | the kernel |
| Event log (`minsec-core/src/events.rs`) | a file and its rotated predecessor | `append`, `rotate`, `read_all` | engine, reporter |
| File source (`minsec-core/src/source/file.rs`) | per path: open file, inode, position, partial line | `rescan`, `poll_file`, `read_available`, inotify and a 2 s poll | daemon's line channel |
| Journal source (`minsec-core/src/source/journal.rs`) | journald's cursor | drain, wait, restart of `journalctl` | daemon's line channel |
| Configuration, filters, parsing (`config.rs`, `filter.rs`, `ip.rs`, `duration.rs`, `builtin.rs`) | none at run time | load, validate, match a line | engine |
| Control protocol, command line (`control.rs`, `inspection.rs`, `minsec/src/main.rs`) | none | one request, one answer, a 5 s limit | daemon's socket |
| Reporter (`minsec-sync/src/report.rs`, `events.rs`) | cursor in the event log, next sequence number | read new bans, submit in chunks, save | event log, server |
| Feed puller (`minsec-sync/src/pull.rs`, `nft.rs`, `minsec-proto/src/feed.rs`) | per family: version, time of the last full feed; the crowd sets in the kernel | full feed, delta, not modified | server, kernel |
| Enrolment (`minsec-sync/src/main.rs`, `client.rs`, `minsec-proto/src/key.rs`) | key file, host id | challenge, rotate, enroll | server |
| State file (`minsec-sync/src/state.rs`) | one JSON file | load, save by rename | both sync commands |

The daemon runs on one thread. Nothing interleaves inside an engine call; what
moves between calls is the clock, the kernel's timeouts, the logs, other
programs, and a crash. `minsec-sync` is a one-shot program run by a timer or by
hand, so two of them may overlap, and both it and the daemon touch the event log.

What is hard, and what makes each part right:

- **Tracker.** Rings indexed modulo `maxretry` inside a fixed array, eviction at
  the limit, sweeps. Right if every hit is answered as if all hits were kept, and
  the table stays bounded.
- **Engine.** Three memories of the same bans (mirror, kernel, log) that drift
  apart with failures, restarts, late commands and other administrators. Right if
  a host is ignored only while it really is banned, no ban covers an allowed
  address, no ban comes before the one in force has run out, escalation goes up, and
  nothing grows without bound.
- **File source.** Rename and truncation between any two system calls. Right if
  every line written is delivered once and in order.
- **Daemon.** A biased select over closing channels. Right if every request is
  served, housekeeping keeps happening, and no answer is given without the deed.
- **Firewall backend.** A start finds sets of another version or another prefix, and each
  `nft` command may fail. Right if a ban stays in force to its last address, an unban that reached
  the kernel leaves nothing, and no leftover keeps the daemon from starting.
- **Event log and reporter.** A reader with a saved cursor against a writer that
  rotates; crashes and retries. Right if no ban is lost, and repeats are
  recognised by the server.
- **Feed puller.** Versions on disk against sets in the kernel that a reboot
  empties. Right if the sets hold the version on record.
- **Enrolment, state file.** Right if the saved host id belongs to the key on
  disk, and no run of the program undoes another's progress.

`PROJECT.json` lists the hazards one by one, with the line where each bites.

## Plan

The order was: the core of the daemon first (tracker, engine), then what feeds it and what
reads from it, then the feed, then the loop and identity.

1. `Tracker`, `SlidingWindow`, proofs: *done*.
2. `Engine`, proofs: *done*.
3. `FileTailer`, proofs: *done* for one path.
4. `EventLog` and `Report`, proofs: *done*.
5. `Pull`, proofs: *done*.
6. `Daemon`, proofs: *done*.
7. `SyncStore` and `Enroll`, proofs: *done*, for any processes that do not overlap.
8. `NftBackend`, proofs: *done*.

Open: the journal source.

## Modules

### `Tables`
Hash maps as functions from the keys that are present.

### `SlidingWindow` (abstract) and `Tracker`
`SlidingWindow` says what the tracker promises: for each key the log of its hits
since it last started afresh, a ban exactly when `maxretry` of them lie inside
`findtime`, and when a key may be forgotten (on request, when the table is full,
by the sweep). `Tracker` is the code: `Push`, `CountSince` and `Last` are the
methods of `Window` with their two moduli, `HitBelow` and `HitBan` the two ways
through `hit` (eviction included), `Forget` and `Sweep` the other calls. `hits`
is an auxiliary log that no action reads; `ImplementsSlidingWindow` is the
refinement.

### `Engine`
One module for the engine, the daemon's order of calls, the kernel's bans and the
log. `task` is the call being served. `Wake` reads the clock; `ReceiveLine` takes
a line, also the queued ones, for which the clock is *not* read again
(daemon.rs:111-117); one step per matching filter does `record_hit` (the five
outcomes `IgnoreAllowed`, `AlreadyBanned`, `Below`, `AutoBan`, `AutoBanFails`),
and `EndLine` or `EndLineTick` ends `handle_line`. Requests are one step each. `Start` is
`Engine::new` and reads the clock, `Started` is `Engine::start`. Between the two,
and between any two steps, `Clock` may move, which is how a command reaches the
kernel later than the time the engine worked with. The tracker is used through
`SlidingWindow`, which `Tracker` implements.

`promised`, `fresh` and `session` are auxiliary: when the ban last asked for runs
out (a start sets it to what nftables holds, not to what the engine makes of it), how many hits a network had since it was unbanned, and where the log stood at
the last start or at the last ban that could not be logged.

Abstractions: a network is the set of its addresses and a line is the host that
each of its filters extracts. Loopback is taken as part of the allow list, as
`local_addresses` puts it there. The log is the automatic bans, which are all that
`start` reads; its rotation is in `EventLog`. The kernel's timeouts run by the
same clock, which does not go back. Bans without a timeout are left out; the repair of
corrupt listings and the rekeying of the IPv6 set are in `NftBackend`. Times are natural numbers:
the truncations to 32 bits (engine.rs:332, 364, 408) are not modelled. `bantime`
is at least a second. The number of filter matches shown by `status` is left out.

### `FileTailer`
One path. A file is a sequence of *pieces*; a line is one or more of them, and a
piece is what one read takes of a line. Sizes, offsets, `Batch` and `MaxLine`
count pieces, so a line may be cut by reads anywhere, also between two polls.
`Write`, `Rename`, `Create`, `Reopen` and `Truncate` are the program and logrotate,
and may come between any two of the tailer's system calls: `Poll` is `metadata`,
`Drain` and `Read` are one `read` each, `EndDrain` is the read that finds nothing more in a
file that is gone or rotated, `Close` drops that file, `Open` is `open` with its `seek`, `Flush` sends the lines. The
inode kept is the one `metadata` showed, not that of the file opened, as in the code.
`got`, `due`, `opened`, `torn` and `raced` are auxiliary; `due` is how much was in the file to be
left when `metadata` showed that it was gone or rotated. What the program still writes to that file after the tailer's
last read is lost (file.rs:161-163, 172-173), so neither `LeavesNothingBehind` nor `LinesArrive` promises it.

Abstractions: `open` and `seek` are one step; the channel takes the lines whenever it likes, its limit
belongs to `Daemon`; errors other than a missing path are left out, and so are
the inotify watches, which only make a poll come sooner. Inode numbers are
not used again: a number cannot be while the tailer has the file open, and with no file
open the code does not look at it. After `raced`, where the number kept is not that of the
open file, this no longer holds, and `DeliveredOnce` promises nothing.

### `EventLog` and `Report`
`EventLog` is the daemon's side: two names, and the files they stand for. `AppendBan`
and `AppendCut` are `append` with a write that succeeds or fails half way; a rotation is
`Rename` or `RenameFails`, then `Reopen` or `ReopenFails`, and `Halt` and `Open` end and
start the daemon anywhere between. A half-written line and what is appended to it make
one line that cannot be parsed.

`Report` adds the runs of `minsec-sync report`, each with its own copy of the saved
state. `Look`, `LookOld`, `ReadOld`, `Measure` and `Read` are the system calls of
`read_new`, in their order, each by *name*, with the daemon free to rotate between any
two. `Submit` is a batch's first attempt, `SubmitAgain` and `GiveUp` the second one after
a duplicate, `SubmitFails` a request or an answer that is lost, `Save` and `Finish` the
two places where the state is saved. The server is the greatest number it took and the
bans it was told. The clock is not a variable: each attempt may find any time, so it
may jump, also back, by less than `SeqJump`.

`skipped`, `missed` and `astray` are auxiliary: bans passed over as unreportable or
older than the first run; a rotation inside the window of the finding below, or of the file
a cursor still refers to; and the loss of the answer to a number from a day ahead,
or overlapping runs.

Abstractions: a file is a sequence of lines, offsets count lines, and the lines are the automatic
bans. One file is read in one step. Inode numbers are used again at once, which is
what a file system may do. What `to_report` leaves out depends on clocks and formats, so any ban may
be left out. The state file is written as one; the temporary file two
processes share is left to `SyncStore`. A server that rejects single reports of a batch, and
a state file that is lost, are left out.

### `Pull`
The runs of `minsec-sync pull` for one family of one tier, the server, and the crowd
sets. A run (`run[r]`) has the state it loaded at its start. `Decide` compares the time with
the record and takes `FetchFull`, or asks with the snapshot on record: `NotModified` is the
304, `Body` a delta or a whole list, as the server likes. `RemoveOne` and `Add` are the commands
of `Nft::apply_delta`, `RemoveFails` a removal that fails, which the code ignores (nft.rs:153-156): the element
stays and the delta goes on record; `Replace` is the flush and refill in one transaction, `Checked`,
`Damaged` and `StillDamaged` are `check_nets`, `DeltaFails` and `Damaged` the way back to a full
list. `Record` saves the cursor, `Finish` the state at the end of the run, which is the one it
has in memory, whatever was saved meanwhile. `Fails` ends a run at any step. A full list
that came unasked is dated before it was fetched and a forced one after it was applied
(pull.rs:94, 136), and so it is in `LastFull`.

An element has the time at which the kernel drops it; adding one that is there does not
renew it, only a flush and refill does. `Flush`, `Reboot` and `Corrupt` are what may happen to a
set from outside, `Publish` is a new snapshot.

`gone`, `ended`, `upset`, `touched` and `clean` are auxiliary: when an entry was taken from the feed,
when the last run ended well, and when something last came between the record and the set
(a run that changed the set and died, a failed removal, a dry run, an overlap, a change from outside,
or no run for longer than `Gap`); `clean` is that none of these befell the run.

Abstractions: an entry is an atom, the hash set and the interval set of a family are one, and a
snapshot's number stands for its etag. The server's deltas are right. `ensure_sets` is part of
`Begin`, and its refusal by sets defined otherwise is a failure. The clock does not go
back (the code's `saturating_sub` then waits longer). The rest of the saved state
belongs to `Report` and `Enroll`. A run ends in `MaxLag` or is taken for dead, and `Timeout` is
assumed to exceed `Refresh`, `Gap` and two lags, as 24 h does 12 h and a timer of an hour.

### `Daemon`
The loop of `daemon.rs`, the channels, and who calls. The runtime has one thread and `turn` says
who has it. The loop keeps it while any branch of its `select!` is ready, in the order
of the code: `Told` (a signal), `Serve` (a request), `HandleLines` (a line and all that are
queued), `LinesEnd` (the channel of lines is empty and has no sender left), `Tick`. Only `Yield`
hands it over; then `Signal`, `TimerFires`, `SendLine`, `SourceEnds` and the steps of the connections
happen, until `Wake`. A connection goes `Accept`, `Parse`, `SendRequest` (which waits for room), and
`Answer`. A caller (`Call`) is another process; after five seconds it gives up (`GiveUp`),
of which the daemon knows nothing. `Down` is the end of the process, told, run out of sources,
or killed.

What a request or a line does belongs to `Engine`; here only `served` counts how often a
request was done. Lines are counted, not told apart. `served` and `valid` (whether the parser accepts the request) are what the properties need beside.
What is in the channels and in the connection tasks when the loop ends is lost, and the
callers find the connection closed; no property speaks of that loss.

### `SyncStore` and `Enroll`
`SyncStore` is a directory as processes share it: what each name holds, and per process the name
that its open file goes by now (`fd`). `CreateTmp` truncates the temporary file whoever
is writing it, `WriteTmp` writes to the process's own file wherever its name has gone,
and `RenameTmp` renames whatever has the temporary name.

`Enroll` runs `minsec-sync` on it: `BeginRun`, `BeginReport` and `BeginPull` load the state;
`LoadEnrollKey` and `LoadReportKey` load the key or make one; `Create`, `Write` and `Rename` write a file in three
steps; `Challenge`, `Enrolled` and `AlreadyEnrolled` are the two requests to the server with the
retry under a new key; `Rotate` puts the old key aside. `Dies` and `AnswerLost` may come anywhere,
`StateLost` and `Edit` (of the install token) are the administrator, who may also make the server refuse a
token. A key and the host id that belongs to it are the same number. `joins` is auxiliary.

Abstractions: a report is one signed request, which the server takes if key and host id go together; a pull only
saves the state it loaded. Signatures, the proof of work and permissions of files are left out.
`Stranded` is the one state from which no run gets a host enrolled again; `EnrollsInTheEnd` excepts it, and the
disagreements below describe it.

### `NftBackend`
The commands of the nftables backend, one step each, on addresses of a few bits. The kernel has the
set `ban6` of addresses or, from an older version, of intervals (`kind`), the set `bannet6` of
intervals, and the prefix by which the rules look addresses up (`mask`, zero while the chains are
empty). `Setup`, `Check`, `ReadStale`, `Recreate` and `Again` are `setup` with its upgrade,
`Rekey` and `Move` what follows for bans off the prefix's boundary, `List` and `Repair` a listing with its
repair, `Ban` and `Add` the two commands of a ban, `Unban` one deletion. `CallFails` is a failing command
at any of them, `Stop` a crash, `Corrupt` the damage of an interval set that the code repairs. `Start`
may find another `ipv6_prefix` than the last one.

`asked`, `lapsed` and `lifted` are auxiliary. `asked` is until when each network is to be shut out. An address in the
hash stands for a network of whatever prefix is now configured, so when that changes `Start` sets `asked` anew
for the networks of the old and the new prefix, to the first end among the elements that the new one makes of the
network. A `Ban` that has deleted the ban in force leaves `asked` alone and puts the network into `lapsed`, until the
new element is there. `Unban` always ends `asked`, and adds to `lifted` if its deletion had an element to find: not
if the call failed, the element was damaged, or an earlier prefix had put the ban elsewhere (`Strays`).

Abstractions: bans are of IPv6; IPv4 takes the same path with a prefix that never changes. Adding an element that
is there, or that overlaps one in an interval set, fails: the comment "Re-adding an existing element fails" says so
(nft.rs:493). Whether `bannet6` exists by itself is not tracked: it does when `ban6` does.
`set_allow` is one transaction and is left out.


## Runs

| Run | Shows |
|---|---|
| `tracker` | three keys, thresholds 2 and 3, table of 2, six seconds: type, bound, ring contents, refinement, what a sweep spares |
| `engine` | three networks (one of two addresses, one of them allowed or not), two filters, a line that matches both, no failures: the history's bound, no ban of an allowed address, none before the one in force has run out, escalation goes up |
| `engine_faults` | one network, both backends, every failure, manual bans: type, the mirror is backed, no ban before the one that nftables holds has run out, an unban starts afresh, every logged ban counts, also after a restart |
| `tailer` | two files under one name, a line of up to three pieces and one of a single piece, rename and truncation, `seek_end`: seven properties, two of them liveness |
| `report` | three bans, files of two lines, one reporter, two failures of any kind: five properties, among them that no ban is passed over and that all arrive |
| `pull` | two runs that may overlap, two snapshots of two entries, one fault of any kind, a failed removal among them, late runs: the set holds what is on record, heals in time, and drops what the feed dropped within the timeout |
| `daemon` | two sources, two callers, full channels, overdue ticks, signals and kills: answers are true, every request is done, nothing starves |
| `enroll` | one process, crashes between any two system calls, lost answers, a lost state, a token that changes twice: a saved host id has its key, files are whole, few identities are wasted, the host ends up enrolled unless its token is refused or a broken-off join has left it stranded |
| `nft` | four networks over two prefixes, sets of an older version, two failing commands, crashes or damages: bans in force to the last address unless a renewal broke off, unbans that reached the ban lift it, the daemon comes up |
| `tailer_rename_gap` (violation) | the successor of a renamed log is opened at its end |
| `report_loss` (violation) | a rotation in the middle of a read loses bans |
| `enroll_overlap` (violation) | two processes share a temporary file, and the saved state is empty |

Bounds and why they are enough. *Tracker*: thresholds 2 and 3 with rings of 4
slots make rings wrap and leave the unused slots that real rings have; with a
table of two and three keys every eviction case occurs; the clock runs over
more than two full windows. *Engine*: two seconds of memory, ticks and window with a
clock of two to three seconds let every entry be fresh, at its limit and past it;
`MaxLag = 1` gives a command one second of delay, and the properties compare
only whether there is any; three bans reach the second escalation and the
maximum, `MaxSteps` is beyond them. The code's lower bound of 16 on `max_tracked`
is waived so that two entries fill a table. `Enough` need only reach the largest
`maxretry`. The run with failures has one network because failures of different
networks do not interact except through the tables, which `engine` fills.
`engine_faults` checks no `HistoryBounded`: one network cannot fill the history. The runs take 710 000 and
1.15 million distinct states.

*FileTailer*: weak fairness of the tailer's own steps; its loop ends in a timer of two seconds
(file.rs:30, 265, 289) and a send that waits for the daemon, which reads the channel as long as it
runs. Nothing is assumed of the program or of logrotate. Two files
show every rotation, since the tailer knows one old and one new file at a time; three
pieces with `MaxLine = 1` give lines that fit when cut, that fill the buffer, and that are
dropped; `Batch = 3` lets a poll end with a backlog. 156 000 distinct states.
`SeekEnd` is on as in the daemon unless it replays.

*Report*: files of two lines and three bans give a full file and a started one; three
inode numbers let one come back for another file; batches of one ban make every report more than
one batch; two failures let a second failure meet the recovery from the first; a clock of two values against `SeqJump = 2` is the most
it may be set back. One reporter is enough for the run because `NothingLost` is proved for any number. `BansArrive` assumes that runs keep being started and get on
(minsec-sync.timer starts one every hour) and that the daemon ends a rotation it began; nothing is assumed
of bans, starts of the daemon or failures. 

*Pull*: no fairness, since what must happen in time is
said with the clock (`Heals`) and `Clock` counts the time without a good run as a fault. Two
snapshots give a delta, and with two runs a delta onto a set that the other run has already moved; a
timeout of five seconds against a refresh of two, a gap and a
lag of one is the least `PullAssumption` allows; eight seconds let every element added at the start
time out. One fault at a time: `Heals` starts anew with each. 3.4 million distinct states; the properties are
also proved, for any number of each.

*Daemon*: channels of one place are full as soon as anything is in them, so every wait for room
occurs; two ticks may be overdue, two sources end in either order, and two callers compete for the
place. 84 000 distinct states. Fairness: the loop's steps take finite time (which takes for granted that `nft` and the
commands of `exec` end), the runtime polls the loop when it is woken, and a task that is ready gets on
in some turn, since tasks queue for the thread and for room first come, first served; each turn of the loop
disables them, hence strong fairness. Nothing is assumed of sources, signals, callers or the timer. The bias of the
`select!` does not starve the timer: while the loop has the thread nothing can come into the channels, so it empties
them (a line takes all that are queued along) and reaches the tick.

*Enroll*: three failures let a second one meet the recovery from the first and a third end it; two changes
of the token give every order of none, taken and refused; nine keys are more than these can use up, so
`MaxKeys` stops nothing. 181 000 distinct states. Fairness: the timer starts a run every hour whatever else runs
(strong, because a run by hand may always be in the way), and a run gets on.

*NftBackend*: addresses of two bits under prefixes of one and two bits have networks on, above and below the
prefix; bans of two seconds can end between any two commands; two faults let damage meet a failing repair.
509 000 distinct states; the run has prefix changes over a filled hash, renewals whose second command fails, and
unbans that fail. Fairness: systemd starts the daemon after a failure (minsec.service:12), commands
end, and time goes on.

## Findings

- **The successor of a renamed log may be read from its end** (`tailer_rename_gap`).
  `poll_file` reads a file from its start only if the same call saw the rotation
  (file.rs:180). The rename itself wakes the tailer; if it polls before the new file is
  there, it forgets the old one (163), and finds the new one later as if it had been there at
  the start. A test says "Rename rotation: new file read from the start"
  (file.rs:400); it renames and creates without a poll in between.
- **A rotation in the middle of a read loses bans** (`report_loss`). `read_new` looks at
  the log's inode and opens it later, both by name (events.rs:45, 69). With a rotation in between, the
  cursor has the old file's inode and the new file's offset, and the next run skips as much of
  the old file. report.rs calls losing events harmful (9-11). `NothingLost` says
  what does hold: outside that window, and as long as the cursor's file is not removed
  by a second rotation, no ban is passed over, whatever else fails.
- **Two processes share a temporary file** (`enroll_overlap`). `save_state` always writes `state.json.tmp`
  (state.rs:92-96). A run from the timer and one by hand: one creates the file, the other truncates it, the first
  renames it, and `state.json` is empty until the other has written, or for good if that one dies; every command
  then ends with "corrupt". The same holds of `key.tmp`. state.rs:3 says "State is written atomically".
  `WrittenAtomically` is proved where no two processes run at the same time.

Other disagreements met while modelling, for which there is no run:

- A sweep takes busy keys for idle: `Window::last` is asked with the array's size where the ring was written modulo
  `maxretry` (tracker.rs:127, 143 against 36-42). Once the head of a full ring has moved on, the slot
  read is unwritten and says 0, and the key loses its hits at the next sweep; the comment promises that for keys whose
  newest hit is old (tracker.rs:123). `SweepSparesUnwrapped` says what does hold.
- A running engine counts all bans of a network while the last is inside `escalate.memory`; a restart counts
  only those that are themselves inside it (engine.rs:163). minsec.toml.5:89-90 says that escalation survives restarts.
  `EveryBanCounts` says what does hold.
- A delta is applied to whatever is there: additions to an emptied set succeed, and
  the snapshot a delta starts from is not compared (minsec-sync/src/nft.rs:152-163). The comment at pull.rs:77-79 has a delta
  that does not match the set resynced from a full list. `Heals` says what does hold.
- A removal that fails for any reason is ignored, not only for want of the element (minsec-sync/src/nft.rs:153-156), and the
  delta goes on record with the element left over until it times out or the next full list. `HoldsRecord` and `Heals` count that as a disturbance.
- With nothing enabled the daemon has no sender of lines and ends, cleanly, at its first turn (daemon.rs:110), so
  systemd does not start it again. config.rs:186-187 says it can run with nothing enabled.
- When `ipv6_prefix` changes to the length of a network that was banned by hand, `unban` looks for it in `ban6` while the ban
  is in `bannet6`, and a failed deletion is not reported (backend/nft.rs:505-511, 333-340). The same goes for a call of `nft`
  that fails for another reason, and for a damaged element, which a repair then puts back. minsec.1:138-139 says that the network is
  removed. `UnbanLifts` leaves these out.
- `ban` deletes the element of an earlier ban and adds the new one in a second command (backend/nft.rs:493-501). If that
  fails, the ban in force is gone although the caller hears only that the renewal failed. `InForce` leaves such a network out (`lapsed`) until it is
  banned again.
- Of several elements that fall on one place, after a prefix change or in a set of older layout, `group` keeps the one that
  was listed first (backend/nft.rs:244-261, 299-327) and not the one with the most time left, so a ban may end early.
  nft.rs:262-264 says that elements with a known remaining lifetime keep it. `InForce` asks for the first end among them.
- What the program writes to a renamed log after the tailer's last read of it is lost (source/file.rs:161-163, 172-173): nothing
  makes the tailer wait until the program has opened the new log. `LeavesNothingBehind` says what does hold.
- A join rotates the key before the server has enrolled it (minsec-sync/src/main.rs:177-180). If it dies there and the install
  token is then removed, the saved host id has a key that is not its own; `enroll` takes the host for enrolled (main.rs:164-169), every
  report is refused, and no run mends it. `EnrollsInTheEnd` excepts that state (`Stranded`).
- With the `exec` backend a start finds no bans and forgets those in force (engine.rs:144-149), so a network may be banned again before its
  ban has run out. `NoEarlyReban` speaks of restarts only where nftables holds the ban.

## Proofs

`TrackerProofs` proves, for any keys, policies, ring size and table size under
`TrackerAssumption`: types, the table's bound, `RingHoldsNewest`, the refinement of
`SlidingWindow`, and `SweepSparesUnwrapped`. The inductive invariant says that a
key's ring is the tail of the log of its hits, that the table is finite and bounded,
and that no slot holds a time later than the newest hit; the last is what
`SweepSparesUnwrapped` needs, because a sweep may read any slot. All the modular
arithmetic is in the lemmas about `Push`, `Slot` and `CountSince`.

`EngineProofs` proves, under `EngineAssumption`: types, `MirrorBacked`,
`NeverBansAllowed`, and what the next paragraph names. The inductive invariant is `TypeOK` (which has `t <= now`),
`MirrorBacked`, and `Punctual`, that the kernel keeps no ban past its end. A ban is
written to the mirror with the engine's time and to the kernel with the clock's, so
`t <= now` makes the mirror the earlier to forget; `Punctual` gives the same for the
bans a start reads back. Each action has a lemma, which shares the lemmas on what a
ban, a withdrawal or a halt does. `NeverBansAllowed` follows because only
`FirewallBan` lengthens a ban and both its callers have checked the list.
That `Factor ^ i` is a natural number and `Factor` times `Factor ^ (i - 1)` is assumed, for the
steps that can occur, because no backend knows exponentiation.

The rest goes on from there, each part with an invariant of its own. `PromiseOK`: the kernel keeps what was promised, and the mirror knows of it until
the time at which the engine next looks, which between lines is the clock and inside a line the time of
its batch; and after a start the mirror has what nftables holds; hence `NoEarlyReban`, of the mirror and, less the lag of a
command, of the kernel. `FreshOK`: a key has no more hits than came since the network's last unban or the
start, so a full window means `MaxRetry` of them (`StartsAfresh`). `BoundOK`: a tick trims
and a ban trims before it adds, so only between a start and the first tick may the history hold more (`HistoryBounded`). `CountOK`: the log is in the order of its times, and
of every network the history counts at least the logged bans inside the memory and is no older than the
last of them. A start counts the log afresh, and a tick drops only networks whose last ban has left the memory.
That needs a history that never fills (`Roomy`), since a full one is trimmed of whatever is oldest, and so `EveryBanCounts` says.
`EscalOK`: what the history has of a network is the time and number of its last ban of this session, and the length the log
gives that ban is the one its number and filter make; lengths rise with the number (`TtlMonotone`, and
`FactorMonotone` for the powers, where the least counterexample stands in for induction), hence `BansEscalate`. A network that
`trim_history` dropped starts over, within the same second if need be, so that property looks at the last ban only.

`FileTailerProofs` proves, under `TailerAssumption`: types, `LeavesNothingBehind`,
`NoMixedLines`, `DeliveredOnce` and `NothingSkipped`. The first follows from the last and from `due <= pos` once the last
read has been made, which later writes cannot undo because they only append. Types alone do not forbid mixed lines: the invariant adds that in
every file an unfinished piece is followed by one of its line, that only the file the
program writes to ends in an unfinished line (`Files`, because it changes files between
lines), and that what the tailer keeps of an unfinished line is of the line
in which its offset stands (`Pending`). A truncation of the open file ends the claim (`torn`)
until the file is left. `DeliveredOnce` needs an order: pieces are written in the order of their lines and numbers,
and files follow each other in it (`Written`); what was delivered or kept of intact files comes before whatever may yet be
read, in the open file behind the offset or in the one at the path (`Once`). A file is closed only when it is torn or no longer
the one at the path, so it is not opened a second time with the same lines, unless `raced`. For `NothingSkipped`, what is kept is the line in
which the offset stands from its first piece on, as long as that is not too long (`Pieced`).

`ReportProofs` proves, under `LogAssumption` and `ReportAssumption`: `WritesNamedFile`,
types, `GetsThrough` and `NothingLost`. The first needs `FileOK`: the daemon's file is the current one, or
its predecessor while there is no current one. For `GetsThrough` the invariant `SeqInv` bounds the
server's number by the saved one or by the greatest time a clock shows, except between
the acceptance of a number from a day ahead and its saving; then a second attempt, a day ahead of
both, is new. It holds of one run at a time, which is why an overlap counts as `astray`. `NothingLost` speaks of the saved cursor only; the invariant
`LossInv` says the same of every run: the cursor it began with, and the one it means to save,
stand inside a file that has a name, and all bans are done with, found, or ahead of them
(`Reach`). A run may therefore save its cursor over another's. `LogKeepsReach` follows the
daemon's steps, with the lines, names and cursor as parameters so that one lemma serves all cursors;
`Unnamed`, that a file without a name is empty, is what lets a number be used again.

`DaemonProofs` proves, under `DaemonAssumption`, for any sources, callers and limits: types and
`AnswersAreTrue`. The inductive invariant ties the places a call can be in together: a request is in the channel
exactly once while its connection waits for it, has not been served then, and has been served once the connection answers; a caller
whose connection is gone no longer waits or was answered.

`EnrollProofs` proves, for any number of processes, types, and, of the behaviours in which no two run at the same time
(`OneAtATime`), `WrittenAtomically`, `KeyIsOurs`, `NeverInALoop` and `FewGhosts`; `enroll_overlap` shows that the first needs that.
The invariant has three parts. `FilesOK`: only temporary files are ever half written, and the state and the key on
disk go together, or the old key is the state's. `FdOK`: between creating and renaming, the process's file has the temporary
name. `MemOK`: a run enrolls only while none with a token is on record, its key is the one on disk from the challenge on, a
key is made only where there is none, and the host id it will write, like the one on disk, keeps the promise of `KeyIsOurs`.
A process that takes a step is alone before and after it (`ActsAlone`), and of the others `MemOK` says next to nothing (`ActsEInv`).
`FewGhosts` needs an account of what paid for each identity (`GhostsPaid`): the number of identities,
plus one while the host has no host id, saved or about to be (`Unnamed`), plus one while the one it has is without a token and
it may join with one (`MayJoin`), is at most the failures and the changes of the token, and one more.

`PullProofs` proves, under `PullAssumption`, for any entries, snapshots, times and overlapping runs: types, `HoldsRecord`, `Heals` and
`DrainsWithinADay`. None is inductive. The invariant says of the set at rest (`Quiet`) that it holds the snapshot on
record, and that no element ends before a timeout past the last full list, less a lag (`Kept`); of each run (`Timed`) that the
times it noted lie between its beginning and the clock; of a run that nothing disturbs (`CleanOK`) what the set holds at each
step, from the record or from the list it applied itself (`Underway`, `Filled`); and `Drains` and `Times` bound the ends of elements by when
their entry left the feed. As long as the sync works, the last full list is less than `Refresh`, `Gap` and a lag
old, and `Timeout` is at least another lag more, so no element ends before the list that renews it.

`NftProofs` proves, under `NftAssumption`, for addresses of any width, any prefixes, networks and bounds: types, `InForce` and
`UnbanLifts`. Neither is inductive, since a start takes sets down and puts back what it read some commands earlier.
The invariant says of the world (`World`) that every ban asked for is `Held`: where this prefix looks for it, or, while a set of
the older layout stands, in that set, there is an element for at least as long (`AskedHeld`), and that what was lifted has no element (`Gone`, `Lifts`).
Of a listing (`ReadOK`) it says that it gives every element at least the time it has left, whatever ended since, that each entry lasts as long
as was asked of its network, and that none is of what was lifted (`EntryOK`). `WorldRecreated` and `WorldMoved` show that a script that puts a listing back keeps all that: of the entries that
fall on one place any may be the one kept, so each has to last as long as what is asked of that place, which is why a prefix change asks for
the first end among them (`StartSaid`). `OthersSame` says that deleting or adding the element of one network leaves the others theirs.
That `2 ^ i` is positive, up to the width of an address, is assumed.

Checked by TLC only: all liveness, which is out of the prover's reach: `LinesArrive`, `FollowsLog`, `BansArrive`,
`CallsGetDone`, `NothingStarves`, `EnrollsInTheEnd`, `ComesUp`. Several processes at a time are checked in `pull` and proved
for `Report` and `Pull`; of `Enroll` the properties hold for any processes of which no two run at the same time.

## Not modelled

- The journal source: its state is journald's cursor, kept outside the program; while the fallback restarts `journalctl`
  lines are lost, which depends on what journald keeps.
- Parsing (configuration, durations, log lines, feeds) and regular expressions; cryptography; wire types; the command line's
  reports and edits of files; packaging.
- The null backend, `set_allow`, IPv4 in `NftBackend`, several log paths and globs in `FileTailer`, inotify.
- Two daemons at once; a lost key file, which no run repairs; the time at which `bannet6` came to exist beside `ban6`.
- Widths: times are natural numbers. The truncations to 32 bits (engine.rs:332, 364, 408) need bans of eighty
  years and more.

`PROJECT.json` lists every part with its status.
