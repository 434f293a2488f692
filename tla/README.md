# A verification project for lmnt

lmnt mounts disks that the host cannot read: it boots a small Linux guest (a
QEMU virtual machine, or a privileged container), attaches the disk to it,
mounts the file system there and shares it back over SMB, FTP or SFTP. A mount
can run in the background; other lmnt processes list it and ask it to stop.

What can go wrong is mostly not in one function but between several of them:
processes that share a directory of files, goroutines that share a context and
a channel, external programs that are cut off half way. This directory models
those parts in TLA+, checks them with TLC on small instances, and proves their
safety with TLAPS for every instance: that the session registry is correct for any
number of mounts and commands, that a QEMU machine and a container keep the
promises of the `Provider` interface, that neither is left behind, that what is
reported of the setup over the serial console is what became of it, that the layers
over a disk are put up and taken down right, that the search for host ports finds
what it looks for while others search too, that secrets reach the prompt they were
typed for, that a file of an image or a download in its final place is whole, and
that the terminal UI does not quit on a mount it was told to end, each with the
exceptions that the code has.

## The system: inventory

| Component | State | Operations | Interacts with | What makes it correct |
|---|---|---|---|---|
| Session registry (`datadir/sessions.go`, `hostos/hostos.go`) | files `<id>.json`, `.lock`, `.stop`; a flock | save, lock, delete, request/clear a stop, list and prune | every lmnt process, through files only | a listing never prunes a living mount and does prune a dead one |
| Session owner (`cli/session.go`) | a context, its record | publish, run, update, withdraw, watch for a stop request | registry, lifecycle | the record covers the guest's whole life; a stop request is heeded |
| `lmnt mounts`, `lmnt stop` (`cli/mounts.go`) | ids to wait for | list, request, poll | registry | "Stopped" is true; the command ends |
| Lifecycle (`provider/provider.go`) | two contexts, signal channel, results | start, task, stop; count interrupts; notice death | provider, session owner | no guest left behind; ends when asked; returns what happened |
| QEMU machine (`provider/qemu`) | process, console, keys, Exited, watchdog | boot, provision, power off, terminate, reap, watch devices | lifecycle, host, guest | implements `Provider`; a device mounted by the host is taken away |
| Container (`provider/docker`) | container, loop device, Exited | run, attach, tear down, stop, watch | lifecycle, docker CLI | nothing created is left behind |
| Downloads (`datadir/download.go`) | `<name>`, `<name>.part` | verify, fetch, rename | network, other processes | only verified files are in place |
| Background mounts (`cli/detach.go`, `cli/run.go`) | child process, pipe, log | collect secrets, spawn, hand over, wait | registry, guest | secrets reach the right prompt; the outcome is reported |
| Guest operations (`guest`) | mappings, mounts, users in the guest | open LUKS, mount, format, add user | lifecycle (executor) | layers opened in order; a failure leaves nothing half open |
| Shares (`share`), ports (`netx`) | host ports, daemons | plan, start | guest, host | ports are free when used |
| Serial console (`qemu/serial.go`) | line buffer | await login, run script | guest | the end of a script is not missed |
| Create, build, clean (`cli`, `qemu/build.go`) | files in place | claim, make, remove | lifecycle, registry | no half-made file is taken for a whole one |
| Terminal UI (`cli/tui*.go`) | mounts shown, wizard, quit state | key presses, ticks, late messages | registry, lifecycle | no mount is lost sight of when quitting |
| Target and flag parsing, text cleaning, styles, version | none | formatting, parsing | – | – |

The hard behaviours are listed one by one, with their lines, under `hazards` in
`PROJECT.json`.

## Plan

1. **Registry**, with its abstract specification **StopService** and proofs
   **RegistryProofs** (done).
2. **Lifecycle** with the **Provider** interface as its abstraction;
   **Machine** and **Container** compose a provider with it (done).
3. **Download**, for several processes (done).
4. **Layers**: LUKS container, LVM, LUKS volume, file system, what a failing or
   cancelled step leaves, the container's teardown script against it, and proofs
   **LayersProofs** (done).
5. **Detach**: parent and child of a background mount, the secrets, the record
   that becomes `Mounted`, the deadline (done).
6. **Tui**: the event loop with its late messages, the wizard, and quitting on a
   stale snapshot (done).
7. **Image**: create and build, with files written in place and crashes; clean
   (done).
8. **Console**: the reader that drops lines and the fenced protocol (done).
9. **Ports**: the search for free ports against its definition, with several
   searches and guests at once, and proofs **PortsProofs** (done).
10. Proofs of the components' safety, from an inductive invariant each:
    **MachineProofs** (of Machine, with the refinement of `Provider`, and of
    Console), **ContainerProofs**, with the same refinement, **FileProofs** (of
    Download and Image), **DetachProofs** and **TuiProofs** (done).

A run is spent on each component once, `Registry` and `Tui` have a second one for
a question that needs another instance. Where the code contradicts what it says of
itself and no run shows it, the properties name the exception, and the section
"What the code contradicts" says so.

## Modules

| Module | Models | Runs |
|---|---|---|
| `Registry` | `sessions.go`, `hostos.go` locks, `session.go` `drive`/`publish`, `mounts.go` | `registry`, `registry_race` |
| `StopService` | what `lmnt stop` promises, without files | refined by `Registry` |
| `MCRegistry` | instances of `Registry` for TLC | |
| `RegistryProofs` | its theorems | |
| `Lifecycle` | `provider.Run`, `provider.RunContext` | through the next two |
| `Provider` | the promises in the comments of the `Provider` interface | refined by `Machine` and, but for named faults, by `Container` |
| `Machine` | `qemu/machine.go` on top of `Lifecycle` | `machine` |
| `MachineProofs` | the theorems of the QEMU provider: of `Machine` and of `Console` | |
| `Container` | `docker/docker.go` on top of `Lifecycle` | `container` |
| `ContainerProofs` | its theorems | |
| `Console` | `qemu/serial.go`, `provision` of `qemu/machine.go` | `console` |
| `Download` | `datadir/download.go` | `download` |
| `Layers` | `guest` (LUKS, LVM, mount, format), the scripts of `docker.go`, `docker/executor.go` | `layers` |
| `MCLayers` | instances of `Layers` for TLC | |
| `LayersProofs` | its theorems | |
| `Ports` | `netx.go`, `Plan` of `share`, the forwards of `args.go` and `docker.go` | `ports` |
| `MCPorts` | an instance of `Ports` for TLC | |
| `PortsProofs` | its theorems | |
| `Detach` | `cli/detach.go`, `cli/run.go`, `session.go`, `Start` of `share`, `awaitMount` of the terminal UI | `detach` |
| `DetachProofs` | its theorems | |
| `Image` | `cli/build.go`, `qemu/build.go`, `cli/create.go`, `cli/clean.go` | `image` |
| `FileProofs` | the theorems of the data directory's files: of `Image` and of `Download` | |
| `Tui` | `cli/tui.go`, `tui_model.go`, `tui_session.go`, `tui_wizard.go` | `tui`, `tui_stale` |
| `TuiProofs` | its theorems | |

Operators named as a plausible bug (`SaveBeforeLock`, `ConcludeAtOnce`, ...) are
not part of any specification. Each stands next to the action it is a broken
version of; put in its place, it makes a named property fail, which shows that
the property says something about the code.

### Registry

`owner[s]` is the point of `drive` the owner of session `s` is at: it clears a
stale stop request (`ClearStale`), creates and takes the lock (`OpenLock`,
`TakeLock`), writes and renames its record (`WriteTemporary`, `Rename`), runs the
guest (`Boot`, `Mount`, `End`, `GuestStopped`), rewrites the record when it is
mounted, and removes record, stop request and lock in that order (`RemoveRecord`
to `Unlock`). `Watch` is the goroutine that polls for a stop request. `Crash`
kills the owner: files stay, the lock goes, the guest lives on.

A client is one `lmnt mounts` or `lmnt stop`. `ReadDir` snapshots the directory;
`ReadRecord`, `ProbeLock`, `DropProbe`, `StatLock` and `ProbePID` follow
`Sessions` and `sessionAlive`; `PruneRecord`, `PruneLock` and `PruneStop` remove
files one by one; `Undertake`, `RequestStop`, `LookUp`, `ReportStopped` and
`GiveUp` are the `stop` command and `awaitStopped`. A record is "booting" or
"mounted", its other fields are left out. Identifiers are random in the code, so
each session is owned once.

`StopService` says what all this is for: a mount attaches its disk once and
detaches once (or its owner dies); a command reports "Stopped" only when every
mount it undertook was asked and has detached or been abandoned. A mount may also be
`held`: one that was asked gets to know, but nothing makes it let go of its disk while
its user, its guest or the engine keeps it waiting. The mapping is `Phase`, `wanted`,
`Asked` and the clients at "stopped"; `Waits` are the points of an owner at which it
may be held.

### Lifecycle, Machine, Container

`Lifecycle` has the main goroutine of `RunContext` (`main`), the two contexts
(`outer` is Run's; `cause` is RunContext's, and keeps the first cause it is
given), the handler of interrupts (`handler`, the number of the interrupt it
waits for) with its channel of one signal, and the exit watcher (`NoticeExit`).
It leaves Start, Stop and Exited open. `Ask` and `Answer` are a task that reads a
passphrase from the terminal (`asking`), where it heeds neither its context nor the
guest.

`Machine` fills them in for QEMU. `at` is where the main goroutine is in Start or
Stop; `vm` and `status` are the process, which is first dead and then reaped;
`Reap` closes Exited; `Bark` is the watchdog killing the process. The console and
ssh are reduced to what Start makes of them: each step succeeds or fails, and a
step that needs a network answer takes for ever when the guest is `frozen`.
`Container` does the same for docker; `faults` remembers which docker command
failed or was cut off, so that a property can say what that failure may cost.

Time is not modelled: a timeout may pass at any moment, and with fairness it does
pass. That is a superset of the code's behaviours.

`Provider` is the interface's contract. `Machine` implements it (`KeepsPromise`).
`Container` does not when certain docker commands fail, so its `KeepsPromise` says of
every step that the contract allows it or that one of them has (`Excused`): `docker
run` was cut off, `docker wait` failed, or a Start that fails could not stop its
container, or not in time for its watcher to notice. Leave any of the four out and
TLC finds a step that breaks the contract.

### Download

Files are numbered as they are created; `part` and `dst` are the two names and
say which file they name, so that a rename moves whatever the name stands for at
that moment. `stage[p]` is the point of `ensure` and `fetch` a process is at, and
`written` what has been written to a file so far. `author` and `placer` are histories:
who created a file, and who renamed the one in place.

### Layers

Every command has a container of its own, but all containers run on one kernel:
one device mapper, in which the mappings `cryptmnt` and `cryptcontainer` exist
once, one loop driver, and one LVM that sees everybody's disks (`open[g]` is what
there is over the disk of `g`). `errand[g]` is what the command is for and what
its disk holds, and `at[g]` its step: first its own (`Wanted`: the same commands
in the same order as `drive`, `Mount`, `Format` and `ls` issue them), then the
lines of the teardown script. `Succeeds` does what the command does to the
kernel, `Fails` is any error, also one that comes after the work was done
(`IsDoneAnyway`), `CutOff` the end of its context, which kills only
the docker client: `late[g]` are the commands that go on in the container and may
still take effect (`IsLate`), even after the teardown. An attach script that fails or
is cut off may have taken a loop device whose name Start does not have
(`LeavesLoop`). `faults[g]` remembers what the teardown cannot make good. With QEMU
each command has a kernel of its own, which is the case of one guest, and there is
nothing to undo.

The teardown closes by name, and `vgchange` acts on all volume groups, so every
step of one command may act on another's layers; a layer in use refuses. In use is
what has a layer above it, and what a command that runs, or goes on after it was cut
off, has open (`Holding`): such a command may be anywhere in its work, so `Remove`
takes the layer away or does not. `cryptsetup` and `vgchange` try again while a
passing scan, as that of udev, has a device open; no other holders are modelled.

### Ports

`searchRange` opens and closes one port at a time: `Probe` opens a listener,
`ProbeNext` and `RunIsFree` close it, `PortIsTaken` starts over one port above the
start of the run. `owner[p]` is who listens on a port, so the probe of one search
is a port that is taken for another, or for a guest that is just about to bind it
(`Bind`, `BindFails`). Other programs bind and close ports whenever they like, and
mounts end. `steady[m]` and `seen[m]` are histories that define what a search
among changing owners can promise: the ports nobody else had while `m` searched,
and those that were free at some time of it. `fault` remembers that something
other than mounts that start came in between.

### Detach

The parent collects the secrets its child will ask for (`Collect`), or has them
from the wizard's form (`kind` is "tui"), spawns it, writes a line for each into
its stdin and closes the pipe (`WriteLine`, `ClosePipe`); then it polls the
registry: `FindMounted` to `Late` are the branches of `awaitShare`, and of
`awaitMount`, which has no exit status to go by and remembers in `seen` that there
was a record. `Steps` is the child from its start to its mounted record: the
session's steps, those of `guest.Mount`, those of `Start` of the share's protocol,
in their order, and where each of them asks. The child's options are those of the
parent (`mountArgs`, `Wants`): what it asks follows from them, and nothing but the
orders agreeing (`RunOrder`, `TuiOrder`, `Steps`) brings a secret to its prompt.
`provider` says where the child's guest runs. A machine boots and is set up under the
two timeouts that `runQEMU` hands on; `runDocker` hands on neither, so a container has
one step, `start`, with the build of its image, `docker run` and the attach script,
that may take any time.

Time is counted in units of 15 seconds, the `Timeout` of a quick guest command, as
long as the parent waits. A step takes any time up to its `Limit`; those in
`Unbounded` have none. A unit does not pass before the parent, which polls many
times in one, has seen what there is to see (`ParentIsBusy`). `slow` is a history:
the time that went into anything but the boot and the setup of a machine.

### Image

A file and its name are apart, because a name may be removed, and made again,
under a guest that has the file open: `name` is the file at the path, `made[m]`
the one a command made, `opened[m]` the one its guest writes to. `job` says
whether it is about `lmnt build` or `lmnt create`; their steps are the same but
for the download (`Fetch`, `FetchFails`), `StatOutput`, and how the file comes to
be: `qemu-img create` takes what is there by then (`QemuImg`) unless QEMU has
locked it, `O_EXCL` does not (`CreateFile`, `CreateRefused`). `Undo` is the
deferred removal, which goes by name. `Killed` ends a command on the spot, its
guest writes on for a while (`GuestEnds`). Containers lock nothing, so with `--force`
two guests may format one file at a time (`shared`), which then need not be whole when
both are done (`Work`). A mount looks whether the file is there,
registers and boots from it; `lmnt clean` looks at the registry, asks, and
removes the directory (`CleanLooks`, `CleanRemoves`).

### Console

The guest prints a prompt, an echo, the two sentinels and the host key, and the
kernel prints `noise` on lines of its own or into one of these (`Prints`,
`Broken`). `wire` is the pipe from QEMU, `lines` the channel that loses what does
not fit (`Read`, `Emit`). A guest may hang or die in the middle of a line (`half`);
what has come of it when the pipe ends is emitted like a line (`Close`, `Cut`).
`AwaitLogin` to `TakeClosed` are `awaitLogin`, `runScript` and `collect`, and `Result`
is what `provision` makes of the outcome, with `exitStatus` for the number behind END.
The typed line holds both sentinels, so its echo is a line with END in it, but does not
end in BEGIN.

### Tui

`Update` is one loop, so a key or a message is one action: the keys of the wizard
from `New` to `Launch`, the keys of quitting from `RequestQuit` to
`QuitUnmountingFails`, and the messages (`PromptMsg` to `RegistryErrorMsg`).
Around it are goroutines. `listing[l]` is where the one of a listing guest is, in
`startListing`, its prompt and `Program.Send`, in which it waits until the loop
takes its message (`Unheard`: the loop has ended). `mount[m]` and `watch[m]` are
the one that waits for the listing's guest, spawns the mount and waits for its
share (`launch`, `startMount`, `awaitMount`), and the mount's own process.
`flight` holds what a read of the registry on its way has found: those of the
ticks, one after the other because a read takes less than a tick, and the one of
`quitUnmounting`, which may cross one of them. `Init` is the start of the program
with some mounts that it has started already up, so that quitting has
mounts to ask without the wizard's steps before it.

`wizard` is the step and the listing of the wizard on screen; the steps before the
boot are one form, those from the list of devices to the launch one choice. The
sessions, detail and log screens are one. A message finds the wizard on screen
whatever listing it is of, and is lost on any other screen (`Follow`).

## Runs

| Run | Instance | Shows |
|---|---|---|
| `registry` | 2 mounts, both may crash, 1 command; mounts interchangeable (symmetry) | `RecordCoversGuest`, `StoppedIsStopped`, `IInv`, `StopHeeded`, `Implements` |
| `registry_race` | 1 mount, 2 commands, fairness, no symmetry | `NeverRefused`, `CrashedIsPruned`, `StopEnds`, `ImplementsFairly` |
| `machine` | force quit at the third interrupt | `GoneWhenOver`, `ReportsTruly`, `KeepsPromise`, `SessionEnds`, `MountedIsKilled` |
| `container` | same | `NoContainerLeft`, `LoopReleased`, `KeepsPromise`, `SessionEnds` |
| `console` | a channel of 2 lines, a pipe of 3, 4 lines of noise; fairness | `ReportsTheScript`, `Resynchronizes` |
| `download` | 2 processes, 3 partial files | `VerifiedInPlace`, `StartsOver` |
| `layers` | 2 commands, each one of 6 errands (4 disks to mount, one to list, one to make); every fault at every step; commands interchangeable | `TypeOK`, `ServedIsWhole`, `DiskReleased` |
| `ports` | 3 mounts that need 1, 2 and 2 of 4 ports, one of which another program uses | `IInv` (with `TypeOK`), `SearchIsRight`, `NotAllLost` |
| `detach` | every set of secrets, all protocols, both providers, both kinds of parent; boot 2 and setup 1 unit; fairness | `TypeOK`, `RightSecret`, `ReportIsTrue`, `LateMeansSlow`, `NobodyWaits` |
| `image` | 2 makers of one path, 1 mount, `clean`, 4 files, with and without `--force`, build and create | `NothingHalfMade`, `SparesOthers`, `DoneMeansThere` |
| `tui` | 1 listing, 2 mounts, of which any were up before; fairness | `TypeOK`, `QuitMeansGone`, `AbortedListingEnds`, `MountingEnds` |
| `tui_stale` | 2 listings, 1 mount | a message of an aborted listing moves the next wizard |

The bounds. Two mounts and one command make a listing of several entries, a
`stop --all`, and a pass of lookups in which one mount goes while another is
looked up. One mount and two commands make two listings prune the same files and
two stop requests meet; with three of either nothing new interacts, because
mounts do not interact with each other and commands only through one mount's
files. `ForceQuitAt` is 3 instead of 10: a first, a middle and a last interrupt.
`MaxFile` bounds the attempts at a download: an attempt meets at most what one earlier one left under each name and
what the other process is writing.
Two commands in `Layers` are one that acts and one that is acted upon; the six
errands have every layer, alone and on top of another. Two mounts in `Tui` are one
that was asked to go and one that comes up meanwhile; a listing can be aborted and
meet the next wizard with one guest, and `tui_stale` has two.

Three mounts in `Ports` are two that meet and one that sees the outcome, and four
ports are enough for a run that is passed over, one that ends at the top and none
at all. In `Detach` the boot of a machine may take longer
than the setup, and the deadline is their sum and the minute, so that a child can be
late for each reason there is. Two makers and one more file by the user in `Image`
are everything that can be at one path (`FilePlaced`), and clean removes a name
at most once. The channel of the console holds 2 lines instead of 256, and the
guest prints up to 4 lines of noise, so that it fills before the login, and between
the sentinels. What is proved does not depend on any of these bounds.

Deadlock checking is off everywhere: sessions, commands and downloads end.

Fairness. In `Registry` the owner of a session, its watcher and a command that
runs keep taking steps (they are processes the system schedules; the polls are
tickers), except where an owner waits for what need not come (`Waits`): for a task at
a prompt on the terminal, for a guest that is to power off, for a container that is to
exit. A user need not type anything, and failures, crashes and deadlines need not
happen. So `StopEnds` ends, or a mount that was told to stop is held up for ever
(`HeldUp`), in which case `lmnt stop` has its deadline; `StopService` has the same
exception, `held`.

In `Machine` and `Container` every goroutine keeps running, each timeout passes, and
SIGTERM ends QEMU. A cancelled task ends when it is not at a prompt (strong fairness,
as it may be at one again and again; a task has two passphrases to ask for at most).
Nobody need answer the prompt: `SessionEnds` excepts a task that stays there
(`[]asking`), and `MountedIsKilled` one that stays there in a session whose context has
ended, which has no watchdog any more. A guest need not power off when told to, and
with `frozen` it never answers again, in which case `SessionEnds` (until QEMU dies) and
`MountedIsKilled` promise nothing, for the reason given below. `Container!SessionEnds`
excepts a failed `docker stop`.

In `Tui` the goroutines of listings and mounts go on, the loop takes their messages,
and the timers of quitting pass; nobody need press a key, no read need come back, no
mount come up or go, and no guest of a listing let itself be stopped (`Stops` is not
in `ListingGoesOn`). `AbortedListingEnds` is that an aborted listing gets as far as
stopping its guest and, if that guest goes, ends; it excepts one that stays at "stops".

In `Detach` the parent writes and polls, the child reads, guest commands time out and
time passes; nobody need type a passphrase, and no step need succeed. In `Console`
the reader, provision and the guest go on; no timeout need pass, which is what
`Resynchronizes` is about: the setup must not depend on one. `Registry` in
`registry`, `Download`, `Layers`, `Ports` and `Image` are checked for safety only.

## What the code contradicts

**`tui_stale`** shows one with a run of its own: a message of a listing that was
left with esc is taken for one of the next wizard, which then shows the devices of
another disk, or is closed. If it is a prompt and the wizard has no listing yet,
the answer dereferences nil (`AnswerPrompt`).

The others are behaviours of the models that a property names as an exception.

*Sessions.*

* An interrupt, or a stop request, that arrives while the guest of a finished task
  shuts down becomes the result (`Lifecycle!Outcome`), against provider.go:53-54,
  "when the user stopped the session before the task finished". A task's real error
  is lost, and `lmnt create` deletes the image it has just finished (`Image!Stop`).
* `poweroff` over ssh ignores its context, so a guest that hangs is never
  terminated (`Machine!PowerOff`), against machine.go:88-89, "ShutdownTimeout bounds
  a graceful poweroff before the process is terminated". `SessionEnds` excepts
  `frozen`, `StopEnds` and `AbortedListingEnds` a mount and a listing that it holds up.
* `TerminalPrompt` takes no context, so a foreground mount that waits for a passphrase
  ends neither on an interrupt, nor on `lmnt stop`, nor when its guest dies, until its
  user types one (`Lifecycle!Ask`), against provider.go:49-50, which says of a `Task`
  that it "should return when ctx is done".
  `SessionEnds`, `MountedIsKilled` and `StopEnds` except it.
* The goroutine that counts interrupts returns after the first
  (`HandlerReturns`), so that provider.go:63-64, "Further interrupts are ignored
  until the tenth, which terminates the process without cleanup", need not come
  true.
* A `docker run` that is cut off by an interrupt leaves its container when Start
  returns (`Container!StartFails`), although docker.go:223-224 says "On failure
  everything created is torn down before returning"; `NoContainerLeft` names it.
* When `docker stop` fails, or takes so long that the watcher does not notice in time,
  a Start that fails returns with Exited open (`StopFails`, `Settle`), against
  provider.go:22-23, "When Start returns an error the guest is already torn down and
  Exited is closed". `Container!KeepsPromise` names both.
* A `docker exec` that is cut off goes on in the container. `cryptsetup open` can
  finish after the teardown script has closed everything, and its mapping, whose
  name is the same for everybody, stays until the engine's kernel restarts and
  keeps every later encrypted mount from opening its own. docker.go:355 says the
  script "undoes what a session may have set up"; `DiskReleased` names this as the
  fault `late`. While it goes on it also holds what it works on, which the script then
  cannot close, and nobody tries again: the fault `held`.
* The attach script takes the loop device long before it prints its name, and Start
  keeps the name only of one that ended well, so the teardown cannot detach the device
  of one that failed or was cut off. `LoopReleased` and `DiskReleased` name this
  `attach`.

*Registry.*

* A killed owner's guest keeps the disk, and `lmnt stop`, which prunes its record,
  says "Stopped", against session.go:319-320, "`lmnt stop` does not report success
  while the disk is still attached". `StoppedIsStopped` speaks of living owners.
* `Registry!NoStopLeftBehind` is not kept: a stop request written after its
  owner has cleaned up is never removed. Nothing meets that file again.

*Files.*

* The partial file of a download has one name for all processes: one renames into
  place what the other is still writing, which later runs call corrupt until it is
  deleted. `VerifiedInPlace` names that case.
* `lmnt build` handles no signal, so Ctrl+C leaves the half-made image in its final
  place, and the next mount boots from it; an error of `qemu-img` is returned before
  the removal is deferred. build.go:43-44 says "The output file is removed if the
  build fails". `NothingHalfMade` names `killed` and `qemu-img`.
* A failing command removes the output by name, which with `--force`, or with a
  clean in between, is another command's; its removal of the installer's ISO may be
  of one that another build boots from. `DoneMeansThere` names the ways.
* A mount may boot from an image that is still being made (`early`), because
  `VMImageExists` goes by the name.
* With docker and `--force`, the guest of one `lmnt create` may open the file that
  another has put in the place of its own, and both format it (`shared`).
* `lmnt clean` goes on when the registry cannot be read, and does not look again
  after its question. Sessions of build, ls and create are not in the registry, so
  it removes the directory under them.

*Background mounts.*

* detach.go:232-233, "this one only has to outlast them", is not so: the child's
  boot and setup timeouts are allowed for, but a minute is left for opening two
  LUKS devices at a minute each, the mount, and the daemons, and nothing for the
  download of firmware. With docker neither timeout bounds anything: the start of the
  container, with the build of its image, has no limit, and may use up all of the
  deadline by itself. The mount may come up after its parent has given it up.
  `LateMeansSlow` says how much of that it takes.
* "it is still running" may be said of a child that has just ended, when its exit and
  the deadline come together.
* When the mounted record cannot be saved, which is a warning in the child's log, the
  share is up and its parent reports that it did not come up in time (`Detach!Save`).
* The wizard's `awaitMount` has no exit status, so a child that dies before it has
  published a record is waited for until the deadline.
* In `awaitShare` the branch of a cancelled context is never taken: the command's
  context ends with the process.

*Console.*

* serial.go:81-82 says that losing lines is fine because "the sentinel-based
  protocol resynchronizes". It does unless a sentinel, or the host key, is what was
  lost: then the setup waits for its timeout, or finds no key. Noise that ends up
  behind the exit status makes it unreadable (`parseStatus`), and so does the death of
  a guest within the line, of which the reader emits what there is. `Resynchronizes` and
  `ReportsTheScript` name these.

*Terminal UI.*

* `RequestQuit` looks at a copy of the registry that is a poll old, and
  empty after a failed read, so a mount that has just started is left without the
  question that tui_wizard.go:794-795 promises ("you will be asked about it on the
  way out").
* `ShutDown` ends the `Latest` listing only, so an earlier one that still
  stops its guest is abandoned with the process, against tui.go:84, "the listing
  guest must not outlive it".
* The help text of tui.go:28-29, "Mounts started here end when the TUI quits",
  describes none of the ways to quit but `QuitUnmounting`.

## Proofs

`RegistryProofs` proves, for every finite or infinite set of sessions and
commands and every subset that may crash, from `RegistryAssumption` alone:
`TypeOK`, `RecordCoversGuest`, `StoppedIsStopped`, `NeverRefused`, `StopHeeded`
and `Implements`.

The argument is an inductive invariant, `IInv`. None of the properties is
inductive: that "Stopped" is true depends on what a client concluded several
steps ago from files that have changed since. `OwnerInv` says that the point an
owner has reached determines its record, lock and lock file. `ScanInv` says that
what a client is about to do to a session is backed by how far that session has
come (`Backing`: for instance a client that is removing files looks at a session
that is over), and that in a listing a wanted session is still to be looked at,
has been found alive, or is being withdrawn. `StopInv` says that wanted sessions
that were looked up and not found are being withdrawn. It works because owners
only move forward (`OwnersOnlyAdvance`), so a conclusion once justified stays
justified. Steps of owners and of clients are proved apart, one case for each
action. `Implements` maps each step to a step of `StopService` or to a stutter.

`LayersProofs` proves `TypeOK`, `ServedIsWhole` and `DiskReleased` for any set of
commands and errands from `LayersAssumption`. `ServedIsWhole` is not inductive: a
step that takes effect late may add a layer, so `StepsAreWanted` says that it is
one of the command's own and `LayersAreOwn` that nothing else is ever over its
disk; and a command serves only straight after it mounted (`NextStep`, from the
order of the steps). `UndoneInTurn` strengthens `DiskReleased` to every point of
the teardown: a layer whose turn is past is gone or a fault tells why, because
what lay above it had its turn before (`NothingAbove`). One lemma per action, all
through `FittingKeepsInvariant`: an action moves one command, and keeps the
invariant if it keeps the layers and moves to a fitting step.

`PortsProofs` proves `IInv`, `SearchIsRight`, `NotAllLost` and `UpIsBound` for any
set of mounts, runs of any length and any range of ports, from `PortsAssumption`:
the lengths of runs are positive, and nobody is both a mount and a stranger. What a
search returns depends on what it saw many steps ago of ports that have changed
hands since, so `IInv` carries it along. `OwnersAreRight` says that a port belongs
to a mount exactly when it probes it or its guest has bound it (`Holds`);
`HistoriesAreRight` that every port of the run so far was seen free, and that every
run below was interrupted by somebody, since `PortIsTaken` starts over with the very
next port. `ChanceIsLeft` is the reason why mounts do not all fail: the one whose
port is taken is refused by another mount that still has its chance. Each action
has a step for `OwnersAreRight` and one for the histories; the arithmetic of runs is
in lemmas of its own.

`MachineProofs` proves `GoneWhenOver`, `ReportsTruly` and `KeepsPromise` for any
number of interrupts that force a quit, from `LifecycleAssumption` (more than one).
In `MachineInv`, `PlaceInv` says where in Start or Stop the main goroutine can be
at each point of `RunContext`, and `ProcessInv` what there is then of the process:
Exited is closed exactly when the process has been reaped, or when Start ended
before there was one, and the exit error is not settled earlier. That is what
makes `GoneWhenOver` inductive: `RunContext` returns when Start has failed or when
Exited is closed. `CauseInv` and `ResultInv` keep apart why the context ended and what is
told of it: a context keeps its first cause, so what the task saw when it ended is
the cause still, although Stop runs with other signals in between. `KeepsPromise`
maps `at`, `exited` and the rest to the phases of `Provider`; one lemma for the
boot, one for the shutdown, one for the process and one for the rest of
`RunContext` say of each action which step of the contract it is, or none.

The same module proves `ReportsTheScript` of `Console`, for a channel and a pipe of
any length and any amount of noise (`ConsoleAssumption`: neither has length 0). It is
not inductive: that an exit status is the script's own, and that a key was read
before it, depends on lines written long before `collect` takes them, some of which
may have been lost on the way. So `ConsoleInv` speaks of `Stream`, the lines that the
guest has written and `collect` has not taken, in the channel or still in the pipe:
`EchoInv` that no echo comes after a BEGIN, so that whoever has seen BEGIN does not
take the echo of the script for its end; `EndInv` that there is an END only of a
script that has ended; `KeyInv` that, unless a line was lost or broken, BEGIN comes
before the key and the key of a script that ended well before END (`Preceded`). The
lemmas `WrittenLast`, `OthersStay` and `FirstLine` say what becomes of such an order
when a line is written at the end, lost anywhere or taken from the front,
`StreamMoves` which of these a step is. Moving a line from pipe to channel
leaves the stream as it was. `HalfInv` bounds what a guest can have died in the middle
of, and `CloseKeeps` shows that the beginning of a line, emitted in the place of the
rest of the pipe, keeps the order: it is noise, or the line that would have come next
(`NextLine`).

`ContainerProofs` proves `NoContainerLeft`, `LoopReleased` and `KeepsPromise`,
from no assumption. That the loop device is released is not inductive, since Stop
ends the container whether or not its teardown has released the device: `LoopInv`
says that before `docker stop` a container is gone only if it died, and that an
attached device is one whose name Start knows unless attaching it failed, so one
that is still there after the teardown has a fault to show for it. `ExitedInv`, that
Exited is closed only on a container that is gone and Err is not settled before, is
what the refinement rests on, which has a lemma each for Start, Stop, the watcher and
the rest of `RunContext`, like that of `Machine`. Hence `ContainerIsProvider`: a
session in which none of the four faults happens refines `Provider`.

`FileProofs` proves `VerifiedInPlace` and `StartsOver` of `Download` for any set of
processes and any number of attempts. The partial file's name is everybody's, so
nothing can be said of it but whose file it names: `PartInv` says that it names no file
of a process that has yet to create one, and none but its latest of a process that is
writing; `WriterInv` that a process renames only after its own file is whole. What
is renamed is thus its own, or somebody else's, which is the exception.

Of `Image` it proves `NothingHalfMade`, `SparesOthers` and `DoneMeansThere` for any
set of mounts, and any finite set of commands of one path. `ImageAssumption` asks
for two more files than commands: one that the user places and one that is free, so
that `Fresh` is always there. That it is (`FreshIsFree`) is proved by counting: a
file that came to be is the user's or made by a command, and each makes one. The
rest is about names that outlive files. `HalfInv` says that a file at the path that
is not whole has a command that will see to it, which may be another than the one
that made it, since guests open a file by its name and failing commands remove it
by its name; `MadeIt` that it is the same one as long as nobody swapped the file
under it. `PresentInv` says that the path names the file of every command that
works, as long as none of the interferences has happened that `DoneMeansThere`
names, and `SparedInv` that a `build` which meets a file of the user is refused at
its first look, and a `create` by `O_EXCL`. Each part is kept by itself given
`BaseInv`, with one lemma for each part and one step for each action.

`DetachProofs` proves `TypeOK`, `RightSecret`, `ReportIsTrue` and `LateMeansSlow` for
any of the three protocols, all subsets of secrets and any positive timeouts
(`DetachAssumption`). The heart of it is about sequences: `StreamInv` says that the
lines in the pipe, with those still to be written, are the secrets of the steps
that the child has before it, in the child's order; for this to be kept when a
prompt takes the first line, the next prompt must be the first of the remaining
secrets (`LineTaken`), which needs that the steps that ask come in the order of
`RunOrder` in every plan (`StepsInOrder`, `OrderOfSecrets`) and that what is left is
a suffix of the plan (`PlanInv`, `SuffixOfTail`). The parent may die in the middle,
when only a part of the secrets ever comes: then the pipe is a prefix of them. A
share that is told to be up has done all its plan, since saving the record comes
last (`SaveIsLast`). `TimeInv` accounts for the clock: besides the slow steps only the
boot and the setup take time, each at most its limit, and the boot comes before the
setup. The operators of the model that build the plan are conditional
concatenations, about which the lemmas `Joined`, `PlanParts` and `StepsHave` say what
the elements and the order of the result are.

`TuiProofs` proves `TypeOK` and `QuitMeansGone` for any sets of listings and mounts,
from no assumption. What the program knows of the mounts is always out of date, and
the reads that correct it may fail, or cross. What saves `QuitMeansGone` is that a
mount comes up once: `ReadInv` says that a read on its way, like the one on screen,
has only found mounts that have been there. `LaterInv` says that, as long as nobody
was asked to stop, a read on its way finds all mounts of the one on screen that are
still there; hence, when those are asked, every read on its way finds the
asked ones that are still there, and `AskedInv` keeps that up while the program
waits. A read that finds none of them is then proof that they are gone,
whichever of the reads it is.

Before each proof TLC found no violation of the inductive invariant, on the
instance of the component's run; those of `Registry` and `Ports` are part of their
runs. What `ImageAssumption` asks for, and that `LateMeansSlow` holds without an
exception for a child that is gone or a record that could not be saved, came out of
the proofs.

Only model-checked are liveness (`CrashedIsPruned`, `StopEnds`, `ImplementsFairly`,
`SessionEnds`, `MountedIsKilled`, `NobodyWaits`, `Resynchronizes`,
`AbortedListingEnds`, `MountingEnds`), as the prover does not do liveness under
fairness. Every safety property that a run checks is proved.

## Not modelled

Flag and target parsing, output, styles, version and text cleaning, which keep no
state; QEMU's command line, the daemons' configuration and the Dockerfile, which are
data; session logs; parsing the output of `lsblk`; the interactive guest shell, which
is a session that serves. Of the checks before a session starts there is only that
they come before the record and may fail. Passphrases have no values but whose they
are. Durations have none either but in `Detach`, where they race. Errors of
`mount(8)`, `stat` and the like that the code only logs are steps that change
nothing. What QEMU, docker, sshd and the guest do is external, and modelled by the
answers the code distinguishes.
