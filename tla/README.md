# A TLA+ model of the IPoE simulator

The program dials an IPTV network with DHCP as a set-top box would. To do so it takes
over a network interface: it saves the interface's settings, replaces them, keeps a
DHCP lease, and puts everything back at the end, or after a crash. These modules model
the parts that decide whether the user's settings survive - the **interface
transaction** with its journal, lock and watchdog, the **backends** of three operating
systems - and the **DHCP client**, the **coordinator** with its child processes, the
**launcher** and the TCP side of the **extractor**. TLC checks them on small instances;
TLAPS proves the main results for every instance.

Paths below are relative to the repository; `nt.py` stands for
`ipoe_simulator/network_transaction.py`.

## 1. The system and its components

| Component | State | Operations | Talks to |
|---|---|---|---|
| Journal lock (`nt.py` `JournalLock`) | an open handle; the file the lock path names; file locks of the kernel | `acquire`, `release`, removal of the idle file | every process that opens the journal |
| Interface transaction (`nt.py`) | journal file; `snapshot`, `app_ip`, `app_routes`; the pipe to the watchdog | `begin`, `configure_lease`, `restore`, `restore_from_journal` | backend (calls), watchdog (pipe), other processes (journal, lock) |
| Recovery watchdog (`recovery_watchdog.py`) | none | wait for the parent, restore, exit | session (pipe or process handle), journal, lock |
| Commands (`ipoedhcp.py`) | exit code, stop controller | dial, `--restore`, capture, list | client, transaction |
| DHCP client (`dhcp_client.py`) | `lease`, `xid`, `stop_event`, reply list | `handshake`, `renew_forever`, `wait_until_expiry`, `stop`, `release` | servers (packets), sniffer thread (callback) |
| Backend interface (`network_backend.py`) | none | capture, prepare, apply, restore, verify | the operating system |
| Windows backend (`windows_network.py`) | PowerShell scripts, a 30 s budget | as above, with a convergence loop | PowerShell runtime |
| Linux backend (`linux_network.py`) | detected manager, DNS mode | as above | `ip`, `nmcli`, `resolvectl` ... |
| macOS backend (`macos_network.py`) | service name | as above | `networksetup`, `route` |
| Extractor (`extractor.py`, `extract_params.py`) | TCP streams of a capture | reassemble, decode, select a DHCP transaction | capture files, profile |
| Profile (`profile.py`) | JSON configuration | get, set, validate, atomic save | all commands |
| Coordinator (`coordinator.py`) | the child process, the menu | run a child, react to Ctrl+C, restricted menu | all commands, journal |
| PowerShell runtime (`powershell_runtime.py`) | the selected executable | discover, run with a time-out | Windows backend |
| Launcher (`scripts/windows_launcher.ps1`) | the runtime directory, staging directories | find or install Python | coordinator |
| Dependencies, interfaces, capture, logging, release scripts | none that is shared | sequential input and output | - |

What makes each of them correct, and what is hard about it:

* **Lock**: one holder at a time. Hard: a lock is on a file, the agreement is on a path,
  and the path is removed and created again.
* **Transaction**: the settings are never lost; the journal says at every instant how to
  get back and what to look for; exit codes tell the truth. Hard: a kill between any two
  steps; failures inside the handling of failures; three kinds of processes.
* **Watchdog**: a killed session is cleaned up. Hard: it must wake exactly when the
  session is over and then win the lock, or leave the work to someone else.
* **Client**: the lease is one a server granted, is given up in time and released, and a
  stop is obeyed anywhere. Hard: the callback's thread, late and duplicated messages,
  time-outs that race answers, waits that become zero.
* **Backends**: what `restore` leaves equals the snapshot, or `verify_restored` says so.
  Hard: order of commands, partial failure, states that never converge.
* **Extractor**: the routes are replaced only from a channel list that was captured whole,
  whatever the order of the packets. Hard: overlaps, damage, gaps, partial captures.
* **Coordinator**: one child at a time, a configuration that two processes write, exit
  codes that mean something. Hard: Ctrl+C reaches parent and child, at any instant.
* **PowerShell runtime**: a script is over when its caller goes on. Hard: time-outs, kills.
* **Launcher**: an installation is complete or absent. Hard: kills between two steps,
  several launchers without a lock.

`PROJECT.json` lists every hazard at its line with the properties that cover it.

## 2. Modules

    SnapshotGuard            the promise, without the mechanism
        ^ implemented by
        |-- NetworkTransaction ----> JournalLock
        |-- WindowsNetwork           (for the settings verify_restored compares)
        `-- BackendDriver            (the same)
               ^ instantiated by
            NetworkBackend --------> LinuxNetwork, MacosNetwork
    DhcpClient               (its outcome is the action Handshake of NetworkTransaction,
                              its Stop and Release the finally block)
    Coordinator              (its child is the commands; a dial ends with or without
                              the journal, as NetworkTransaction says)
    Launcher, ChannelList    (stand alone)
    MC*                      instances for TLC
    *Proofs                  theorems, one module per component

### JournalLock
`lockFile` is the inode the lock path names, `handle` what each process has open,
`locked` who holds a lock on what it opened. `Open`, `Flock`, `Close` are `acquire` and
`release`; `Unlink` is the removal of an idle lock file after a recovery. The constant
`Posix` chooses whether an open file can be removed (`CanUnlink`).

### NetworkTransaction
One process is a dial session (`Sessions`), the watchdog it spawns (`Watchdogs`) or a
manual recovery (`Restorers`); `pc` is where it is. Each action is one call that touches
something shared (journal, lock, interface, pipe), because any other process, or a kill,
can come between two such calls:

| Code | Actions |
|---|---|
| `main`, journal gate; `_run_restore` | `Gate` |
| `JournalLock.acquire` / `release` | `AcquireOpen`, `AcquireLock`, `AcquireFails` / `Unlock` |
| `begin` | recovery of an old journal, `Capture`, `SaveSnapshot`, `StartWatchdog`, `PrepareItem`\*, `Prepared`, `Abort` |
| `handshake`, `renew_forever` | `Handshake`, `StopRunning` |
| `configure_lease` | `ReceiveLease`, `ApplyItem`\*, `LeaseApplied` |
| finally block, `restore` | `ReleaseLease`, recovery, `CloseWatchdog`, `Unlock` |
| `_restore_from_journal_locked` | `JournalExists`, `ReadJournal`, `MarkRestoring`, `Progress`, `RestoreItem`\*, `RestoreReturns`, `Verify`, `MarkFailed`, `MarkRestored`, `UnlinkJournal` |
| `restore_from_journal`, finally | `Unlock`, `Cleanup`, `UnlinkLock` |
| `recovery_watchdog.main` | `WatchdogWakes`, `Gate`, then as a recovery |
| end of a process by the kernel | `Crash` |

Abstractions. The interface (`nic`) is a set of settings; a backend call is any sequence
of single changes (\*), so a failure or a kill can fall after any of them. `Compared`
holds the settings that `verify_restored` compares with the snapshot; an address or a
route of the program is in general not among them (the original may be DHCP), which is
why the code journals `app_ip` and `app_routes` before it installs them, and looks for
them. The user may have settings that are not compared (`Original \ Compared`): a restore
may lose them, and every property speaks of the others only (`Promised`, `Restored`). Backends may report success without having converged; `Verified` decides. Of the
list of attempts the journal keeps, the model keeps the phase of the last. The lease
exchange is one nondeterministic step. A watchdog that dies of an unexpected `OSError`
ends with code 1 in the code and 5 in the model. `Crash` is atomic: lock and pipe are
gone together, before any other process reacts.

### SnapshotGuard
Two variables, the interface and the saved snapshot; three steps: save what is there,
change the interface while a snapshot is saved, forget the snapshot when it is in force
again. `NetworkTransaction` implements it with `saved` being the snapshot in the journal.

### DhcpClient
The main thread (`pc`), the exchange it is in (`ex`: the locals of `_exchange`), the
last reply the sniffer callback stored (`heard`), the lease, a clock and the messages.
`SnifferStarts` ... `Collect` are `_exchange` and what its callers do with its result or
exception (`Raise`); `KeepWaiting`, `GiveUp`, `Renew` are one turn of `renew_forever`;
`Wake` ends any wait; `Release` is the finally block. `Hear` is the callback, which may
run until `stop()` joins its thread, so a later reply can replace the one that ended the
wait. `Answer` is any server (it acknowledges the address it is asked for), `Stop` is
Ctrl+C. Messages stay in `requests` and `net` and may be delivered late, again, or never;
`fresh` says whether a message carries the current xid (random xids are assumed not to
repeat). The code polls every 0.2 s, less than a tick, so `Tick` waits while the thread
has something to do (`Urgent`). Packet layout and option decoding are left out; the
repair of T1 and T2 is kept as arithmetic (`Renewal`, `Rebinding`).

### WindowsNetwork
Every operation of the backend is one or more PowerShell scripts, each run by a child of
its own: `ApplyScripts`, `RestoreScript`, `DnsScript` are the scripts as sequences of
cmdlets, `Effect` is what a cmdlet does, `Exists` and `Silent` decide what an error does
to the script. `Launch`, `Return`, `ReturnError`, `Timeout`, `Terminated` are
`PowerShellRuntime.run` in the parent; `Run`, `Refused`, `Fail` are the child, which goes
on when its parent is killed (`Kill`, `OrphanEnds`). `Converge` is one turn of the loop of
`restore_and_verify`: capture, compare (`Errors`), and one more delivery of the DNS
servers if only they differ. The 30 s budget is a number of rounds. Processes follow each
other as the journal lock of NetworkTransaction has them. The interface is a set of
settings; `seen` is what `Get-DnsClientServerAddress` reports, which may lag behind.

### BackendDriver, NetworkBackend, LinuxNetwork, MacosNetwork
LinuxNetwork and MacosNetwork translate each operation of their backend into the list of
commands it runs (`PrepareOps`, `ApplyOps`, `RestoreOps`), say what a command does to
interface and manager (`Effect`), when the system refuses it (`Accepted`), what the code
does about a failure (`Caught`, `Instead`), and what `verify_restored` compares
(`Errors`). They have no state. BackendDriver runs such lists: `Run` and `Fail` take the
next command (a command may fail before or after its effect), `Capture`, `Return`,
`Verify` are the operations of a session in order, `Kill` and `Retry` end a process and
start the next. A killed process may leave the command it was running (`orphans`), which
has its effect at any later moment (`OrphanEnds`); files the process writes itself
(`Spawned`) end with it. NetworkBackend is `get_backend()`: the host decides whose commands run.
NetworkManager may have the device with a connection or without (`Reconnect`), and its
nmcli may refuse to disconnect an inactive device (`strict`).
The sysconfig flavours of Linux run ifupdown's commands; MTU, MAC and metrics are not
told apart; a list (of DNS servers, of additional routes) is one item.

### Coordinator
`pc` is where the coordinator is: `Begin`, `Step` are the command line, `Look` and
`Choose` the menu (which looks at the journal before the user chooses), `Wait` and
`Return` are `run_script`, `AfterExtract` what follows an extraction. The child is
`Gate`, `Collect`, `Dial`, `Hangup`, `Restore`, `Close`, and `Abort` when an interrupt is not
handled. `Interrupt` reaches both; between Popen and the try block of `run_script`
(`"spawned"`) it ends the coordinator. Of a configuration field the model keeps where its
value comes from (`device` stands for what a menu item asks for and sets: the interface
and the duration); `file` is the file, `mem`, `original` and `child.cfg` are copies.
`before` is a history variable: what the coordinator had when the user chose an item. It
is not the file, for a child that has saved its configuration and then failed leaves the
file ahead of the coordinator's copy, which the next capture puts back. `Unusable` are the
mistakes that end the command line before a child is started. The child's code 2 (a
configuration that is not valid) counts as 5.

### Launcher
`Start` ... `Delete` are `Remove-StaleTemporaryFiles`, `Find` ... `Check` the search for a
runtime and `Install-PythonRuntime`. A directory is the set of what it holds; deleting
one takes a step per file, `Move` is a rename, which into an existing directory moves
inside. `Fail` is any step that throws, `Missing` one that throws because another
launcher has removed what it needs. `atOnce` is how many launchers the user runs at a
time.

### ChannelList
A response is a sequence of positions: a header, a body, in it a marker and its argument.
`Add` is `TcpStream.add` with its limits and its check for conflicts, `Assembled` is
`assemble`, `Parse` and `Found` are the HTTP framing and the search for the call, `Extract`
is the verdict: parse, keep the old routes, or fail. The body may be compressed
(`encoding`): then the marker does not show in what was captured (`Shows`), and only the
whole body decompresses. Packets arrive in any order, or
not at all, and one may be damaged. The loop of `assemble` is a recursive function, so
that it can be proved about.

## 3. What is checked

### Interface transaction

* `OneTransaction`: no two processes are between `acquire` and `release`.
* `Recoverable`: if the interface is not the user's, there is a journal with the user's
  snapshot, and everything on the interface is the user's, compared with that snapshot or
  named in the journal.
* `ProgressHonest`: a journal that says "restored", or whose attempt reached
  "verification", describes a restored interface.
* `CleanExit`: when `restore` returns, exit codes 0 and 4 mean restored and no journal.
* `GuardSpec`: refinement of SnapshotGuard.
* `CrashRecovered`, `RetrySucceeds` (liveness): a killed session is cleaned up by its
  watchdog or by whoever holds the lock; a recovery without failures of its own succeeds
  whatever earlier attempts left behind.

| Run | Instance | Shows |
|---|---|---|
| `tx_windows` | 2 sessions, 2 watchdogs; Windows; a setting that is not compared; 2 failures, 1 kill | the safety properties and the refinement with sessions following each other |
| `tx_posix` | 1 session, 1 watchdog, 1 recovery; POSIX, host route; 1 failure, 2 kills | `Recoverable` and the refinement on POSIX; `CrashRecovered`, `RetrySucceeds` |
| `tx_posix_race` | 2 sessions on POSIX, 1 kill | **violation** of `SavedWhileChanged`, see below |

Bounds. Each process runs once; two sessions are what it takes for a second transaction
to meet the remains of a first. One failure and one kill reach every error path; the two
failures of `tx_windows` also fail the handling of a failure. The watchdogs stand for manual recoveries
in `tx_windows`: both run the same steps. Exclusion is no property of `tx_posix`, for it does
not hold on POSIX: three processes that recover are enough to break it (a watchdog recovers
a killed session, one recovery has the old lock file open, another creates the new one).
`Restorers = {r1, r2}` gets there; with one failure and one kill TLC finds 1.1 million states,
in all of which `Recoverable`, `ProgressHonest` and `GuardSpec` hold: both restore the same
snapshot. Liveness takes too long there, so the run has one recovery. On Windows the lock path names one file at
a time and needs one inode; on POSIX three are enough (with none left TLC would report a deadlock). One compared
setting, one that is not, one leased address and one route give every combination of
"compared", "recorded" and "forgotten". All bounds are constants (`MaxFaults`, `MaxCrashes`).
Deadlock checking is on: `Terminated` is the only place to stop.

Fairness: `WF` of each process's own steps, as the operating system schedules every
runnable process. `StopRunning` has none, for a session may keep its lease forever.
Kills and failures have none; a failing call is a choice within a fair step, and the
bound on failures is what a recovery needs to succeed at last.

### DHCP client

* `LeaseGranted`: the lease is one its server has granted.
* `RetryBudget`: the n-th request of an exchange leaves at least 2^(n-1)-1 intervals
  after the first and before the deadline.
* `TimersOrdered`: renewal, rebinding and end of a lease are in order.
* `OverrunBounded`: an expired lease stays in use at most for one exchange that began
  before the end (up to 5 s for the sniffer and `--timeout`), or, without renewal, for
  the time the configuration took. The code does not stop exactly at the end.
* `StopQuiet`: after Ctrl+C at most two requests leave. Two is reached: a stop before
  the sniffer is up still sends the Discover, and a prompt Offer the Request.
* `HonestCode`: exit code 0 means released, or stopped before there was a lease.
* `StopObeyed`, `GivesUp` (liveness): a stop needs no time to pass; silence ends the
  session.

| Run | Instance | Shows |
|---|---|---|
| `dhcp_safety` | 2 servers, budget of 8 ticks, 3 replies, 1 failure | the safety properties |
| `dhcp_live` | 1 server, lease times out of order, of one tick, of zero; 1 failure | `TimersOrdered`, `OverrunBounded`, `StopObeyed`, `GivesUp` |
| `dhcp_release` | 2 replies | **violation** of `FailureReleases`, see below |

Bounds. A tick is four seconds, so the real retry pattern (0, 4, 12, 28 s of 30) is 0, 1,
3, 7 of 8. Three replies are a handshake and a renewal, or a handshake with a
contradicting duplicate; `MaxTime` is never reached, or TLC would report a deadlock.
Both values of `auto_renew` are explored in each run. `dhcp_live` assumes
fairness only of the client's own thread, so a wait that ignored the stop event would
show; `GivesUp` adds, in its own statement, that time passes.

### Backends

* `OneWriter` (Windows): no two children that still have something to change, but for the
  one a killed process leaves behind. An operation that ends, by a time-out too, leaves
  none for the restore that follows.
* `FailsForCause` (Windows): a restore fails only after a failure, a kill, or two DNS writes
  that the system did not report - one is repaired by the second delivery.
* `Guarded`: refinement of SnapshotGuard, for the settings `verify_restored` decides on:
  changed only while a snapshot is saved, given up only when restored. What a killed
  process leaves running is the exception, on every system: a command that ends after
  another process has verified its restore (Linux, macOS), any step after a kill
  (Windows). Of a DHCP interface on Windows the routes are promised to nobody.
* `RetrySucceeds` (liveness): a restore that nothing disturbs succeeds, whatever the
  failures and kills before it have left on the interface and with its manager. On Linux
  and macOS the snapshot must have been taken without a failing command, and the interface
  not be in one of two states from which no retry gets back (`Stuck`: ifupdown holds a
  dynamic interface for configured; NetworkManager has no connection, and its nmcli refuses
  to disconnect what is not active).

| Run | Instance | Shows |
|---|---|---|
| `win_restore` | dial, two retries; 5 interfaces; 2 failures, 1 missed DNS write, 1 kill | the four properties |
| `posix_restore` | dial, two retries; 17 Linux hosts, 9 macOS services; 2 failures, 1 kill | `Guarded`, `RetrySucceeds` |
| `win_kill` | dial and recovery; no failure, 1 kill | **violation** of `StaysRestored`, see below |

Bounds. The five interfaces of `win_restore` are DHCP (as found, and with routes and a metric
of its own) and manual (with an address, with a gateway and DNS servers, with everything).
Two processes after the dial are a failed retry and one that succeeds. Two
failures fail a dial and its own restore, or a restore and its retry. The hosts combine
the managers (and none) with a dynamic and a static configuration and both kinds of DNS, and
NetworkManager without a connection (with an nmcli that disconnects an inactive device, and
one that refuses); those on which a restore loses something are left out and listed in
section 4.
Routes are enough to depend on each other through the address or the gateway.

Fairness: of the step that comes next (a command returns, a child runs, the next process
starts); none of failures, time-outs, kills.

### Coordinator, launcher, extractor

* `ToldTrue`: after a capture from the menu the file holds what the coordinator had when
  the user chose it, but for the interface and the duration just named; after "extracted"
  it holds the extracted parameters. `DialsExtracted`: a dial that follows uses them.
* `ExitHonest`: 0 only after all operations of the command line, the last ended well, or
  after a stop of one that then ended well; `--restore` passes its child's code on.
* `OneChild`: while a child runs, the coordinator starts no other and leaves the
  configuration alone, however often Ctrl+C is pressed.
* `RuntimeComplete`: launchers one after the other never leave half a runtime, which nothing
  would repair. `OkHonest`: none goes on without a Python, even two at a time. `Installs`
  (liveness): a launcher that nothing disturbs ends with a Python, whatever those
  before it left.
* `WholeParsed`: a response captured whole is parsed, in any order and however its packets
  overlap. `ParsedWhole`: nothing else is. `DamageSeen`: a damaged copy of what was captured
  does not get in. `NeverSilent`: a list whose marker was captured is not passed over, if the
  body is not compressed and no byte is sent again in other pieces or damaged.
  `GapHonest`: packets are called missing only if some are.

| Run | Instance | Shows |
|---|---|---|
| `coord` | 3 children, 2 signals, 1 kill, 1 journal of another session | `ToldTrue`, `DialsExtracted`, `ExitHonest`, `OneChild` |
| `launch` | 3 launchers, one or two at a time, 1 failure, 1 kill | `OkHonest`, `RuntimeComplete`, `Installs` |
| `tcp` | 7 positions cut in every way, and 2 overlapping sets; plain or gzip; 5 packets, 1 damaged | the five properties |

Bounds. Three children are a capture, an extraction and a dial; two signals are a second
Ctrl+C while the first is handled. Three launchers are one that is killed, one that cleans
up after it and one that installs meanwhile. Seven positions hold a header, a marker of
three with something before it, its argument and something after it; the limits (4 segments,
12 bytes) are reached. The coordinator and the extractor are checked for safety only;
fairness of the launcher is that of a process that runs.

## 4. Findings

1. **Two holders of the journal lock on POSIX** (`nt.py:177-180`). A recovery releases the
   lock and then removes the lock file. A process that opened the file in between locks a
   file without a name; the next one creates and locks a new file. In the trace of
   `tx_posix_race` a session starts during a watchdog's recovery, a manual recovery
   then restores the interface under that session and deletes its journal, and the
   session goes on to configure its lease: the interface is changed and no journal
   exists, against README.md:117. It takes two sessions, a kill and a narrow window. One
   session, its watchdog and two manual recoveries are enough for two holders, but then
   both restore the same snapshot (section 3). On Windows an open file cannot be
   removed, and the property is proved.
2. **No Release for an ACK that is refused** (`dhcp_client.py:397-399`). The lease is
   recorded only after the ACK is accepted, so a DHCP failure at that point releases
   nothing, against README.md:117.
3. **An orphan changes a restored interface, Windows** (`powershell_runtime.py:66`). A script
   runs in a process group of its own, so it outlives a killed parent. In the trace of
   `win_kill` a session is killed while its first script runs, the next process restores
   and verifies the interface, and the child of the first then turns DHCP off, against
   RELEASE_NOTES.md:104. `OneWriter` says that this is the only way to two writers.

Further observations, made while the modules were written. No run is kept for them; each
can be seen by the change named with it.

* Windows, `windows_network.py:195`: a DHCP interface with static DNS servers is never
  restored, for the script resets the servers and only the branch without DHCP sets them
  (`Originals` with `{dhcp, dns}` violates `FailsForCause`). Of a DHCP interface no route is put
  back or compared, so those a user added are lost after a restore without any failure or
  kill, against RELEASE_NOTES.md:15 (`Originals` with `{dhcp, host}` and no `AppRoutes` violates
  `StaysRestored` when `Compared` is everything).
* Windows, `windows_network.py:462`: the time to find a PowerShell is not in the 30 s budget.
* Linux and macOS, `network_backend.py:37`: `subprocess.run` leaves its command when the
  process is killed, and the lock is free at once. "nmcli device set ... managed no" of a
  killed session may end after the next process has restored and verified (`Guarded`
  without `Orphaned`), against RELEASE_NOTES.md:104 as in finding 3.
* Linux, no retry succeeds (README.md:127; `RetrySucceeds` without `Stuck`): `ifup` does nothing
  for a dynamic interface that is held for configured, which it is when the dial failed
  before `ifdown`, or an earlier restore after `ifup`, and the restore has flushed it by then
  (`linux_network.py:555`). Without a connection of NetworkManager the restore disconnects the
  device and accepts the codes 0 and 10 only (526-530): an nmcli that refuses because the
  device is not active fails every attempt, also the first.
* Linux: routes listed from table `local` come back as unicast routes (743); a default route
  whose gateway another route reaches is refused, since routes are added as listed (722);
  `resolvectl revert` takes away what the manager has just pushed (672); a
  hand-written `resolv.conf` next to networkd is overwritten for good (670); routes a user
  added to a dynamic interface are lost (757); a command that fails while the manager is
  detected gives a snapshot from which no restore is ever verified (197). Each is a host of
  `MCLinuxHosts` to add, or a conjunct of `RetrySucceeds` or `Compared` to drop.
* macOS: the alias of a DHCP interface is lost (`macos_network.py:258`); a query that fails
  with code 1 counts as an empty list (188; hosts with `silent`).
* Coordinator: "the configuration has not changed" (`coordinator.py:399`) is not so when the user
  has named another interface or duration (30 for Enter): the menu saves both (389-393) before
  the copy is taken that is put back (`ToldTrue` with `file = before`).
* Coordinator: Ctrl+C between Popen and the try block ends it while the child runs
  (`coordinator.py:58`); a journal that appears while the menu waits does not restrict it
  (372); a child that fails after Ctrl+C brings the menu back (70), against
  RELEASE_NOTES.md:39; a capture from the menu that is interrupted leaves the configuration
  as the child saved it (150).
* Launcher, `windows_launcher.ps1:105`: a cleaner that finds owner.json and then cannot read
  it, because its installer has just removed it, deletes the directory that becomes the
  runtime (`RuntimeComplete` without `atOnce = 1`); what is left is never repaired.
* Extractor: sequence numbers that wrap within a response make it "missing" segments
  (`extractor.py:81`; a start near `Modulus`); a body that ends with the connection is taken
  for whole when the capture stops early (163); retransmissions cut differently can hide a
  marker that was captured (86; `NeverSilent` without `Aligned`). A gzip list with a gap, or
  shorter than its Content-Length, is passed over and the old routes are kept without an
  error, for the marker is searched for in the bytes that were sent (87, 156, 517), against
  README.md:104 and RELEASE_NOTES.md:13 (`NeverSilent` without `encoding = "identity"`).
* `dhcp_client.py:448`: an expired lease ends the session, while RELEASE_NOTES.md:79 (v0.3.0)
  announced a new application. A failed restore closes the watchdog's pipe before it releases
  the lock (`nt.py:505`), so the watchdog may find the lock taken and give up.

## 5. What is proved

TLAPS checks every step; nothing is assumed but the named assumptions on constants.

* `JournalLockProofs` - `LockMutualExclusion`: with `~Posix` the lock has one holder. The
  inductive invariant says that every open handle is on the file the path names now
  (`OneLockFile`); mutual exclusion alone is not inductive, since nothing in it keeps a
  holder's file from losing its name.
* `NetworkTransactionProofs` - `TypeCorrect` on both platforms; with `~Posix` also
  `OneTransactionAtATime`, `AlwaysRecoverable`, `JournalHonest`, `ExitHonest` and
  `ImplementsGuard`. The invariant `IInv` adds to the lock invariant: who is in a critical
  step holds the lock (`LockHeld`); what the journal is when nobody is (`JournalInv`); what
  a recovering process has in memory agrees with the journal (`RecoveryInv`); what a
  session's object agrees with (`SessionInv`). Because the holder is alone, each action
  has to be checked only against its own process. TLC checked `IInv` first.
  `GuardKeepsSettings` says that the promise is worth having: whatever keeps it has the
  settings on the interface or saved. `ComparedSettingsNeverLost` draws the conclusion for
  the transaction: the settings that `verify_restored` compares are never lost. An interface
  may have others (`Original` need not be in `Compared`), and nothing is claimed of those:
  section 4 has examples that a restore loses.
* `DhcpClientProofs` - `ClientTypeCorrect`, `LeaseIsGranted`, `InstantsOrdered`,
  `QuietAfterStop`, `RetriesWithinBudget`, `OverrunIsBounded`, `CodeIsHonest`, for all servers,
  addresses, lease times and time-outs. `IInv` is about messages: `LateCount` counts late
  requests by location; `AcksGranted` ties replies under way to the grants. `TInv` is about
  time: `Paced` says how the interval of an exchange grows with its requests, `Valid` where a
  wait may end, `Honest` why code 0 is set. The power of two in `RetryBudget` is doubled from
  one request to the next (`PowerDoubles`).
* `NetworkBackendProofs` - `BackendsGuarded`: the Linux and macOS backends refine
  SnapshotGuard for every host, every set of settings and any number of failures, kills,
  retries and commands that outlive a killed process, provided no query of networksetup
  fails silently, and but for one kind of step: such a command that ends after another
  process has verified (`Orphaned`, section 4, `network_backend.py:37`). The weight is in two facts about
  `verify_restored` (`LinuxVerifies`, `MacosVerifies`): no difference reported means no
  difference in what is compared. The Linux one needs more than the snapshot and the
  interface: `detect_network_manager` may have missed the manager, and then only the fact
  that no command takes the manager off the interface (`ManagerStays`, kept by
  `LinuxManagerStays`) makes the restore end in an error and not in a false success.
* `WindowsNetworkProofs` - `OneWriterAtATime`, for any number of processes. `OneWriter` is not
  inductive: the invariant adds the order of the processes (`InTurn`) and that a child
  belongs to an operation or to a killed process (`ChildOfOperation`).
  `SettingsGuarded`, until a process is killed: `WInv` follows a script through its cmdlets,
  by what those left can still change, and ends in the fact that no difference reported is no
  difference in what is compared. It assumes `DhcpAutomatic`: an interface with DHCP has no
  address of its own and no route to a host of the program, for the restore script gives
  back neither. `FailureHasCause`: what a whole script without errors leaves is what the
  verification expects, or lacks the DNS servers, which the second delivery brings (`SInv`).
  It assumes at least one round and `Restorable`: no static DNS servers on a DHCP interface, as
  that one is never restored (section 4, `windows_network.py:195`), and one metric.
* `CoordinatorProofs` - `CoordinatorTypeCorrect`, `ToldIsTrue`, `ExtractedIsDialled`,
  `OneChildAtATime`, `TruthfulExit`. Not even `TypeOK` is inductive, for `--restore` passes
  any code of its child on: `CodeInv` says which codes a restore has, `ModeInv` what each
  command line can run, `ChildHeld` where the coordinator is while a child runs, and
  `ExtractInv` follows the extracted parameters from the child through the file into
  memory and into the next child.
* `LauncherProofs` - `LauncherTypeCorrect`, `OkIsHonest` for launchers at the same time,
  `RuntimeIsComplete` for launchers one after the other: then nobody else removes what a
  launcher has staged (`OneLive`, `Filled`), and what moves is whole and without an owner
  (`Disowned`).
* `ChannelListProofs` - `WholeIsParsed`, `ParsedIsWhole`, `DamageIsSeen`, `ListIsNotPassedOver`,
  `GapIsHonest`, for responses of any length, plain or compressed, packets of any size in any
  order and number, any overlaps, damage and limits. The invariant says that the stream holds exactly what has
  been captured and that its segments agree wherever they overlap (`Holds`), and why a capture
  was refused (`Reasons`). The rest is about one verdict: the loop of `assemble` keeps
  `Filled`, from which follows what it returns (`AssembledIs`), and that a gap is one
  (`GapIsReal`); a marker in what is joined is a marker that was captured (`JoinedHas`).
  All of them assume `NoWrap`: no sequence number wraps within the response, since the code
  compares them as they are (section 4, `extractor.py:81`). `ListIsNotPassedOver` has more
  conditions, and each is needed: the body is not compressed, and no byte is sent again in
  other pieces or damaged (section 4, `extractor.py:156` and 86).

The library's induction theorems take an operator, which no prover here can instantiate.
`ChannelListProofs` gets around that: induction over the rounds of a loop is stated about a
*set* of numbers (`UpTo`), and follows from the well-foundedness of inclusion (`BySubsets`); the
recursive functions of `ChannelList` are given their equations by `Recursion`. No module with a
theorem declares a RECURSIVE operator, for the provers cannot work under one.

TLC checked every invariant of these proofs on the instance of the component's run first.

Only model-checked:

* liveness, in each component (fairness and ENABLED are out of the provers' reach);
* everything on POSIX that rests on the lock, for exclusion itself does not hold there: two
  sessions break the promise (finding 1); that one session and its recoveries do not, though
  two of them may run at once, is what `tx_posix` shows, and the instance with a second
  recovery that section 3 names.

Every other invariant and refinement of a passing run is proved, under the assumptions named
above. `RuntimeComplete` and `Guarded` say themselves when they hold (launchers one after the
other; no kill on Windows, no command of a killed process after a verified restore
elsewhere).

## 6. Not modelled, and the plan

Every component that decides what happens to the interface is modelled. Left, in the order
in which it would be worth modelling:

1. The discovery of a PowerShell (`powershell_runtime.py`): candidates, probes, the cache.
2. The choice of the DHCP transaction and the decoding of fields (`extractor.py`), the
   validation and the normalised routes of a profile (`profile.py`): functions of their
   input without state or order.
3. A renewal that brings another address: servers of DhcpClient acknowledge what they are
   asked for, as the protocol demands; the code would keep the first address configured.
4. The launcher's search for installed Pythons, elevation and arguments.

Left out for good: argument parsing, logging, downloads and version checks
(`dependencies.py`, `check_env.py`), listing of interfaces, packet capture, release
scripts: sequential input and output without shared state. Power loss and file system
durability are outside the model, as the program itself promises nothing for them
(README.md:129).
