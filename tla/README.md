# A verification development for otelma

otelma is a small local LLM runtime in Go: a CLI talks over HTTP to an `otelma
serve` process, which keeps a registry of models, loads them into
`llama-server` child processes under a fixed memory budget, and answers prompts.
This directory models its core in TLA+. TLC checks the models on small
instances; TLAPS proves all of what they promise except liveness, for every value
of the constants. Definitions carry the names of the Go code, and `PROJECT.json` maps
each of them to the lines it stands for.

## 1. The system

| component | state | operations | interacts with |
|---|---|---|---|
| lifecycle (`manager/model.go`, `legalTransitions`) | `Model.State` | the six states, the graph | read and written by the manager under `Manager.mu`, and read by the scheduler and by `Remove` without it |
| budget (`manager/budget.go`) | `reservedBytes`, own mutex | `CanLoad`, `Reserve`, `Release` (panics below zero) | called only from `Manager.Transition` |
| registry (`manager/registry.go`) | `map[name]*Model`, own RWMutex | `Register`, `Get`, `Unregister`, `List` | returns pointers that callers keep after the lock is gone |
| manager (`manager/manager.go`) | `backends map[name]InferenceBackend`, `Manager.mu` | `Pull`, `LoadModel`, `Infer`, `UnloadModel`, `Remove`, `Transition`, `persist` | everything above, the backends, the storage, the registry file |
| scheduler (`scheduler/scheduler.go`) | one mutex | `Submit` = load if needed, then infer | the manager; `Remove` and `Pull` bypass it |
| HTTP API (`api/`) | none | one goroutine per request | `Submit`, `Remove`, `Pull`, reads |
| backends (`backend/`) | a child process, its port | `Load`, `Infer`, `Unload` | one instance per load, kept in `Manager.backends` by *name*; a child that binds, answers and dies by itself |
| persistence (`manager/persist.go`) | `registry.json`, `registry.json.tmp` | `SaveRegistry`, `LoadRegistry` | called at the end of `Pull` and `Remove` without a lock; read by `serve` |
| storage (`storage/`) | the cache that all downloads share, on disk | `ResolveHuggingFace`, `ResolveMLX`, checksums, sizes | external downloaders; `Pull` |
| commands and client (`cli/cli.go`, `client.go`) | one process each | `pull`, `rm`, `run`, `chat`, `config init`, `serve` | HTTP requests to the API, with a timeout of 30 minutes |
| auto-start (`cli/autostart.go`) | none | probe `/api/ps`, start a server, poll for up to ten seconds | a server process that outlives the command |
| chat (`cli/chat.go`) | the transcript | a turn, `/clear`, `/exit` | one request per line |
| configuration (`config/`) | `config.json` | `Load`, `Init` | read by every process that starts, changed by editors and `config init` |
| catalog | a table | | `pull` |

### What is hard, and what makes each part correct

- **Three names for one thing.** A request carries a *name*; `Registry.Get`
  turns it into a `*Model`; `Manager.backends` is keyed by the name again. Each
  lookup is a critical section of its own, and `Remove` followed by `Pull` gives
  a name to another object between two of them. *Correct means*: a reply comes
  from the backend loaded for the model that was asked (`InferOwnBackend`), a
  live process belongs to a model the budget counts (`ProcessReserved`), nobody
  waits for a killed process (`InferRunsLive`), a model that is Ready can be asked
  (`Servable`), and once all is quiet what is in memory, model or process, is Ready
  and can be reached (`NothingDangling`).
- **Reads outside the lock.** `Submit` (scheduler.go:44) and `Remove`
  (manager.go:239) read `m.State` with no lock and act on it later.
  *Correct means*: a transition about to be made is legal
  (`Uncontested`).
- **The ledger.** Reservations move on three edges of the graph, made by three
  handlers, each with error paths; one discards the error. *Correct means*:
  `reserved` is exactly the sum of the resident footprints (`LedgerExact`), which
  fit the ceiling (`WithinBudget`), and `Release` never panics
  (`ReleaseCovered`).
- **One mutex around everything slow.** *Correct means*: one model at a time
  loads or serves (`OneActive`), by the one goroutine that owns it until it is
  done (`Owned`), every request is answered
  (`RequestsAnswered`), every unload ends (`UnloadingSettles`).
- **A file without a lock.** Saves may overlap, share `registry.json.tmp`, fail,
  and be cut off by the end of the process. *Correct means*: the file always
  parses (`NeverCorrupt`), or the log says so (`CorruptionReported`); it holds
  what was pulled (`PullsRemembered`) and not what was removed
  (`RemovalsStick`).
- **A port that is guessed, a child that may die.** `freePort` gives up the port
  before the child binds it, `waitHealthy` and `Infer` talk to whoever listens.
  *Correct means*: a load that fails and an unload leave nothing (`NothingLeft`),
  and an instance is answered by its own child unless that has ended or, since the
  instance picked its port, another program has bound it, or the child of an instance
  to which that had happened (`EngineSpec`). Ideally also: no model is ever
  answered for by the child of another (`SiblingsApart`), and what is Ready has a
  process (`ReadyIsResident`); the code does not achieve these.
- **Several commands, several servers, one configuration.** A command and the
  server it starts read the file one after the other; several commands start
  servers at once; a server lives on when its command ends, and its children
  when it ends. *Correct means*: a command polls where its server comes up
  (`StartedIsPolled`), commands and servers come to an end of what they are doing
  (`CommandsSettle`, `ServersSettle`), `config init` keeps a file that is there
  (`FileIsKept`, and with no exception `InitRefuses`), and what was saved passes from
  one server to the next although saves fail, files go and the registry breaks
  (`RegistryCarried`, and with no exception `PullsKept`). A restart gives back all the
  memory of the last server (`NoOrphans`; with `PullsKept`, `RestartReclaims`).
- **A transcript across failures.** *Correct means*: it is the answered lines,
  each with its answer, whatever failed in between (`Transcript`).
- **A cache searched by name.** Downloads that were killed, other quantizations
  and other revisions are in it too. *Correct means*: what is registered is the
  whole model that was asked for (`WholeModel`, for a repository that stays at its
  revision), be it given by a quantization (`QuantHonoured`), by none
  (`DefaultHonoured`) or as a directory that was just fetched
  (`FetchedIsPulled`), and its checksum and its size are of the same files
  (`SizeOfSum`); the last four together, with no exception, are `PulledAsAsked`.

`PROJECT.json` lists these hazards one by one, each at the line where it bites.

## 2. The modules

Five families, which share no state; an arrow with dots is a refinement.

```
Lifecycle  Budget  Footprint
      \      |      /
         Manager      Residency
            |      . ^
         Runtime . . --- RuntimeProofs --- OwnershipProofs --- ResidencyProofs
         /      \                                |
   MCRuntime   Removes ------------------- ProcessProofs
         \      /
        MCRemoves

DurableRegistry < . . RegistryFile --- Saves --- SavesProofs
                           |             |
                    MCRegistryFile --- MCSaves

Engine < . . . . Backend --- BackendProofs
                    |
                MCBackend

Config --- Server --- Cli --- CliProofs
                       |
                     MCCli

Storage --- StorageProofs
   |
MCStorage
```

| module | models |
|---|---|
| `Lifecycle` | `ModelState`, `legalTransitions`, and the edges on which `Transition` reserves and releases |
| `Budget` | `Reserve` and `Release` in `uint64` arithmetic (`% Word`) |
| `Footprint` | the size of a set of models, as a cardinality, so that it can be reasoned about without recursion |
| `Manager` | the state of registry, manager and backends, and every operation performed under one lock |
| `Runtime` | the goroutines: `Submit` (with `LoadModel` and `Infer`), `Remove` (with `UnloadModel`), `Pull` |
| `Removes` | `Runtime` with a history of the names that were removed, and whether two Removes of one name have overlapped, for promises that depend on it |
| `Residency` | what the runtime promises about memory, with no goroutines, locks, registry or backends |
| `RegistryFile` | the save of the registry step by step, over directory entries, inodes and contents; restarts |
| `Saves` | `RegistryFile` with a history of whether requests have overlapped |
| `DurableRegistry` | the atomic save that `SaveRegistry` promises |
| `Backend` | backend instances with a child process (llamacpp and mlx): ports, children, polls, requests |
| `Engine` | what an instance promises: it is answered by its own process, and leaves nothing behind |
| `Config` | the configuration file, `config.Load`, `config.Init` and editors |
| `Server` | the processes of `otelma serve` over their lives: start, address, drain, end, effects of requests |
| `Cli` | the commands: auto-start, requests and their timeouts, the chat transcript, `config init` |
| `Storage` | a pull from the start of its downloader to its checksum and size, in a shared cache |
| `RuntimeProofs`, `OwnershipProofs`, `ResidencyProofs`, `ProcessProofs`, `SavesProofs`, `BackendProofs`, `CliProofs`, `StorageProofs` | the proofs, section 4 |
| `MC*` | small instances for TLC |

The families meet where one takes the other's result for granted: `Runtime` uses
a backend as `Engine` describes one that nobody disturbs; `Runtime` and `Server`
write the registry in one step, which is what `RegistryFile` takes apart; a
pull in `Runtime` and `Server` succeeds or fails as a whole, which is what
`Storage` takes apart.

### Runtime

`pc[t]` is where goroutine `t` is; `name[t]`, `mdl[t]` and `be[t]` are the local
variables of its handler (the request's name, its `*Model`, its backend).
`models`, `state`, `reserved`, `backends` and `holder` are the registry's map,
every object's `State`, the ledger, the table of backends and the scheduler's
mutex. `process` and `weights` describe the world outside: which backend
instances have a live child, and which object's file each was started with.

One action is one critical section, one unlocked read, or one call of a backend:

| code | points of `pc`, in order |
|---|---|
| `Scheduler.Submit` | `submit` (lock, `Get`) `check` (read `State`) |
| `Manager.LoadModel` | `loadGet` `loading` (`Transition`) `load` (`Backend.Load`) `store` (table) `loaded` (`Transition`) |
| `Manager.Infer` | `inferGet` `lookup` (table) `busy` (`Transition`) `infer` (`Backend.Infer`, deferred `Transition`) |
| `Manager.Remove` | `remove` (`Get`) `inspect` (read `State`) ... `unregister` |
| `Manager.UnloadModel` | `unloadGet` `unloading` (`Transition`) `detach` (table) `unload` (`Backend.Unload`) `release` (`Transition`) |
| `Manager.Pull` | `resolve` (download, size, checksum) `register` `pulled` (`Transition`) |
| both | `persist` |

Every error return is there: a name not found at each of the four lookups, a
refused transition, no budget, a failed load with its rollback, a missing
backend, a failed unload, a failed download, a name already taken. `Return`
stands for the answer together with `defer s.mu.Unlock()`; joining
`Submit`'s last transition and its unlock is harmless, since between the two
only its own locals differ.

Points worth a reviewer's attention:

- *Objects, names, instances.* `Model` is the set of `*Model` objects,
  `Instance` that of backend instances, because handlers hold pointers to
  objects that have left the registry, and an instance that has left the table
  may still be running. (Naming an instance by its object is wrong: when Removes
  overlap, an object may be loaded again while its former child runs.)
- *Unlocked reads.* The reads of `m.State` are data races of an integer word
  that follow an `RLock` of the registry; what they can return is a value the
  field had at some moment between that lookup and the use. Making the read a
  step of its own gives exactly those values.
- *`TransitionStep` and `TryTransition`* differ as the code does: the first ends
  the request on an error, the second discards it.
- *`CASE` in `Settle`* is the `switch` of `Transition`: the graph is checked
  first, then the budget moves, then the state.
- *Widths.* `Fits` adds modulo `Word`, as `uint64` does. `NoWrapAssumption`
  states when that cannot matter: the ceiling plus any one footprint is below
  2^64. Footprints are file sizes (below 2^63); a configured ceiling near 2^64
  is outside the assumption.

### RegistryFile

`registry` is the set of registered names; a file is a directory entry (`path`,
`tmp`) that refers to an inode, whose `content` is a list, empty, or a mixture
(`Torn`) that does not parse. `os.WriteFile` is an open with truncation, a write
at offset 0 and a close, on the shared name `path.tmp`; `os.Rename` moves the
entry, whatever the inode holds by then. `Overwritten` says what remains when a
list is written over another one, which may be longer: if it contains the new
one it shows behind it (`Torn`), if it is contained it is hidden, else either.
`Restart` ends the process at any point and runs `LoadRegistry`.
`kept` and `dropped` are history: the names that were registered, and those that
were not, at the end of a save that reported no error, but for names that another
request is still working on (`Settled`). A model whose own save failed thus counts
from the next good one on: `persist` only logs a failure, and what makes up for it
is that every save is of the whole registry. `warned` is history too: whether the current
run of overlapping saves logged a warning.

The model is of a process that ends, not of a machine that loses power: a write
that was made is in the file.

### Backend

`at[b]` is where the one caller of instance `b` is: before `Load`, inside it
(`wait`), after its success (`loaded`), or after its failure or `Unload`
(`over`). `addr` is the field of the same name, `child` the state of the process,
`listener` who is bound to each port, `peer` who has the connection of a request
in flight. The scheduler's mutex is the guard `Loading = {}`: one load at a time.
Everything else interleaves: children bind late, fail to bind or die, other
programs (`Stranger`, some of which answer like a `llama-server`) take ports and
leave them, `Unload` meets a request in flight. `llamacpp` and `mlx` have the
same code line by line, so one module stands for both. `taken` is history, kept per
*instance*: those whose port a stranger has bound since they picked it, or the
child of such an instance. `Kill` takes an instance out of it, and a new load of the
same port starts outside it.

Two points are the code's own: `waitHealthy` does not look at the child, so a
child that has died is noticed at the timeout only; and `Infer` does not either,
so that a model whose child has died stays `Ready` until it is removed
(`ReadyDead.cfg`).

### Config, Server, Cli

The file holds the two settings that must agree. `Load` is `json.Unmarshal` onto
the defaults, and what `Run` makes of an error: everything falls back to the
defaults, even what could be read. A user may save one of the files of
`Version`, delete the file, or leave it half-written.

A server is `spawned`, `starting` (has read the configuration and the registry),
`listening`, `draining`, `ended`. What it reads of the registry is `Found`: nothing
of a file that does not parse, and none of the models whose file (`present`) is
gone. `Persist` saves the whole registry of the server or, with `DiskMayFail`, fails
to, and the request succeeds all the same. Its requests (`open`) take effect in one step
at any time before it ends, whether or not their command still waits; a command
stops waiting when the connection is lost or its timeout is over. `ListensAt`
lets one server listen at an address. `End` leaves the backends' children alone,
or takes them along, as a `Ctrl-C` in their terminal would.

`changed` is history: the commands during whose life the file was changed.
`StartedIsPolled` and `FileIsKept` make an exception for them: between two reads,
or between a look and a write, there is no lock, and the model shows no more than
that; `InitRefuses` makes none. `kept`, `stale` and `clashed` are history too:
what a save has put on file and nobody has removed, or started a server without
finding it; the servers beside which another one has saved; and whether such a one
has saved since.

### Storage

A revision is a number in the order of its hash's name, which says nothing of
time, as the search of the cache takes the first name. A `Pull` is a downloader
that adds the files it was asked for one by one and may be killed between any
two, and then three looks at the cache: the search, the checksum, the size.
`FileOf` and `Named` are what names do: the file of a quantization, and all files
whose name contains it. A model that a repository splits into several `.gguf` files
is left out.

### Abstractions

- `Residency`: a model is admitted only while nothing loads or serves and it
  fits; one model at a time; neither a loading nor a serving one is evicted. In
  the refinement, `resident` is read off `State`, but `loading` and `serving`
  are read off where the goroutines are (`At`), so the refinement relates two
  independent pieces of state: an eviction under a goroutine that is inside
  `LoadModel` or `Infer` is not a step of `Residency`, whatever `State` says.
- `Engine`: an instance is new, loaded or over, and possibly disturbed; its answer
  comes from itself unless it is disturbed. The refinement reads `disturbed` off
  the machine: its child has ended by itself, or it is in `taken`. That ports are
  chosen and given up before they are bound, and given out again after loads that
  are cut short, is then harmless: it is what the refinement shows. It does not say
  that children of one server never answer for one another: once a stranger has
  had a port, or a child has ended, they do (`Siblings.cfg`).
- `DurableRegistry`: the saved registry is replaced by the current one in one
  step, and a restart brings back part of what was saved. In the refinement
  `saved` is what `LoadRegistry` would read, so a rename is the atomic save, and
  every other step of `SaveRegistry` must be invisible.

## 3. What is checked

| run | instance | shows |
|---|---|---|
| `safety` | `MCRuntime`: 3 goroutines, 1 name, 3 models, 2 backends, 2 Removes at once, unloads fail | the ledger is exact and within the ceiling, `Release` never panics, work on a model has one owner, one request is served at a time, by the backend loaded for its model; every step is a step of `Residency` or a stutter |
| `removes` | `MCRemoves`: 3 goroutines, 2 names, 3 models, 2 backends, 2 Removes at a time, until two of one name overlap | every live process is accounted for once, a Ready model has its own, alive, in the table, no reply is awaited from a killed one; no `Submit` of a name that has not been removed meets an illegal transition, and before the first Remove nothing dangles |
| `live` | `MCRuntime`: 2 goroutines, 1 name, 2 models, 2 Removes, unloads succeed, fairness | every request is answered, every unload ends, and is in the hands of a goroutine until it does |
| `saves` | `MCSaves`: 2 names, 2 requests at a time, 3 inodes, failing writes, restarts | until two requests overlap `SaveRegistry` is an atomic save; afterwards a corrupt file has been reported, once overlapping saves are over |
| `backends` | `MCBackend`: 3 instances, 2 ports, 2 other programs, one of which answers | nothing is left behind; `Engine`'s contract |
| `autostart` | `MCCli`: 2 commands that start servers or write the configuration, 2 servers, 2 addresses, 1 edit, fairness | a command polls where its server comes up, `init` keeps a file, commands and servers settle |
| `chats` | `MCCli`: 2 commands that pull, remove, run and chat, 2 servers, 2 models, 3 lines in a chat, failing saves, files that go or break | what was saved passes from one server to the next, until a server saves beside which another had; the transcript |
| `downloads` | `MCStorage`: 2 pulls, 2 repositories, 2 revisions, 3 `.gguf` files, 2 mlx files | a whole model, with its checksum and size, in a repository that stays at one revision; the right file for a quantization that is in no other name |

The other four runs each check what a document or a comment says, and make no
exception for what the passing runs except; they end in a counterexample, and each
is a finding in `PROJECT.json`. Disks do not fail in them.

| run | the document | the code |
|---|---|---|
| `dangling` | GUIDE.md, on `rm`: "so nothing is left dangling", "wait for it to settle and try again" | a Remove that read `Downloaded` unregisters a model that a Submit has loaded since |
| `overlapping_saves` | persist.go: "so a crash mid-write can't leave a corrupt file behind"; GUIDE.md: "persists to disk after every successful `pull`" | one save renames `path.tmp` just after another one has truncated it, and the process may end |
| `restart_reclaims` | GUIDE.md: "Restart `otelma serve` to free every loaded model's budget reservation at once", "the way to reclaim memory without losing track of what you've pulled" | the children of a server that ends go on running; the next server starts from an empty ledger |
| `pulled_as_asked` | README.md: "Quant defaults to `Q4_K_M` if omitted"; GUIDE.md: "a specific quantization" | the first cached `.gguf` is registered whose name contains what was asked for, whichever that is |

Each of the four properties can be broken in several ways, and TLC shows the
shortest. The configurations below, kept for whoever changes that code, each take
one of the other ways, or one that the passing runs except.

| configuration, module | property | the document | the code |
|---|---|---|---|
| `OverlappingRemoves`, `MCRuntime` | `ProcessReserved` | ARCHITECTURE.md: the ledger "can never drift from which models are actually resident" | two Removes overlap and a Pull reuses the name: `UnloadModel` takes the backend of the *new* model from the table, and its own goes on running with its bytes given back |
| `StuckUnloading`, `MCRuntime` | `UnloadingSettles` | GUIDE.md: "wait for it to settle and try again" | after a failed `Unload` a model is `Unloading` for ever |
| `TornFile`, `MCRegistryFile` | `NeverCorrupt` | persist.go, as above | the file in `overlapping_saves` does not parse |
| `LostUpdate`, `MCRegistryFile` | `NothingLost` | GUIDE.md, as above | of two overlapping saves the older snapshot stays, in a file that parses |
| `StaleRegistry`, `MCCli` | `PullsKept` | README.md: "Pulled models are remembered" | a draining server saves after the next one has read the registry, whose own save then drops the model |
| `InitRace`, `MCCli` | `InitRefuses` | config.go: "It refuses to overwrite an existing file unless force is true" | a file saved between the look and the write is overwritten |
| `ReadyDead`, `MCBackend` | `ReadyIsResident` | llamacpp.go: "genuinely tracks the manager's READY state" | nobody looks at the child, even while the load polls its port |
| `Siblings`, `MCBackend` | `SiblingsApart` | llamacpp.go: "a child process per loaded model and talking to its [...] API" | a late child binds a port that was given out again, and answers for another model |
| `DefaultQuant`, `MCStorage` | `DefaultHonoured` | README.md, as above | without a quantization the first cached `.gguf` is registered |
| `WrongQuant`, `MCStorage` | `QuantHonoured` | GUIDE.md, as above | F16 is looked for as part of a name, and BF16 contains it and sorts first |
| `OldSnapshot`, `MCStorage` | `FetchedIsPulled` | mlx.go: "the snapshot directory huggingface_hub's downloader placed" | the first directory by hash is taken: another revision, or part of one |
| `TwoWalks`, `MCStorage` | `SizeOfSum` | GUIDE.md: "so it's never a guess" | the checksum and the size of a directory are two walks, with a download between them |

The ledger itself is exact (`LedgerExact` holds with overlapping Removes, and is
proved): what drifts in `OverlappingRemoves` is the ledger from the *processes*, not
from the states. The `Alone...` properties hold while no two Removes of *one name*
overlap, `NoneUncontested` for a name that has not been removed, and
`NoneDangling` before the first Remove: together they locate the races in
`Remove`, which takes no part in the scheduler's mutex. Removes of different
names do not disturb one another. The conditions are the right ones: without its
own, TLC finds each `Alone...` property violated by two Removes at a time, and
each `None...` property by one.

### Bounds

- *Goroutines*: three let a `Submit`, a `Pull` and a `Remove`, or two `Remove`s
  and one of the others, interleave. `OverlappingRemoves` needs all three; its
  shortest counterexample has 34 states, so interesting cases lie well inside.
- *Names*: with one name all requests collide, which is where objects, names and
  instances come apart; `removes` has two, so that models compete for the budget.
- *Models*: three objects of sizes 1, 2 and 3 under a ceiling of 4: two pairs
  fit, one does not, all three do not. A `Pull` gets past `resolve` only if an
  unused object is left for it (`PullResolves`), so three objects allow a name to be
  reused twice.
- *Instances* of `Runtime` are memory, recycled when nothing refers to them
  (`Unused`). A load succeeds only if one is free; two are enough for one in the
  table and one that has left it.
- `MaxRemoves` bounds the Removes in progress at once: two, so that they can be of
  one name or of two. `removes` does not go on from a state in which two of one
  name have overlapped (`Apart`), where its `Alone...` properties say nothing, and
  `NoneUncontested` is left to its proof.
- *Inodes*: one for `path`, one for `path.tmp`, one for an open file that has
  been renamed from under its writer. The view `Remembered` of `saves` drops
  `kept` and `dropped` once requests have overlapped, when neither a property nor
  a step reads them any more.
- *Backend instances* have one life each; three on two ports make a port
  be given out again while its former owner's child is dying, dead, or still
  about to bind it.
- *Servers* have one life each: two let a new one start beside one that listens,
  drains, or has been killed. In `autostart` the second may also be started by
  hand, at any address, and in `chats` both. Two commands are two requests: one
  whose save fails and one whose save makes up for it, or one at each of two
  servers; in `autostart` the only request is a `run`, which changes no file.
  `DiskMayFail` is TRUE in `chats` alone. `MaxEdits` (1) is how often users change
  the file; `config init` comes on top. The files of `Versions` are one that agrees
  with itself but not with the defaults, and one with a mistyped setting. The
  registry starts empty and the children too. `MaxTurns` (3 lines in `chats`)
  allows a failure before, between and after answers.
- *Revisions and files*: two revisions in either order; of three `.gguf` files one
  has another's quantization in its name (BF16, F16).
- Goroutines, instances, ports, inodes, commands, pulls, in `removes`, `saves` and
  `chats` names, and in `chats` servers are declared symmetric where a run has no
  liveness property. Model objects differ in size and are not symmetric.

Deadlock is checked in the runs of `Runtime`, `RegistryFile` and `Backend`, where
there is always something to do. Commands, servers and pulls have one life each,
so the other runs do end.

### Fairness

`Runtime`'s `FairSpec` has weak fairness of `Step(t)` for each goroutine that is
neither idle nor waiting for the scheduler's mutex: Go schedules it, the other
mutexes are held for a few instructions, and each external call has a timeout
(`Backend.Load` its startup timeout, `Infer` the HTTP client's 120 seconds, a
download its own). It has strong fairness of `SubmitEnter(t)`: `sync.Mutex`
hands itself over to a waiter passed by for a millisecond, so no waiter is
overtaken for ever. Clients need not send anything. `UnloadingSettles` holds
only if no `Unload` fails; `StuckUnloading.cfg` is the same formula with failures.
`Kill` can return an error for a child that has just died, so failures are real;
`Unload` waits for the child before it returns, so the child is gone even then.

`Cli`'s `FairSpec` has weak fairness of `Clocked(c)`, what a command's own clock
brings about: it polls, finds a server or gives up at its deadline of ten
seconds, loses a request at the latest after the client's 30 minutes, and goes
through `config init` without waiting for anyone; and of `ServerStep(s)`: a server
reads its files, binds its address or fails to, and a shutdown ends after five
seconds. Nobody has to type, to interrupt, to answer a request or to edit.

## 4. What is proved

For any number of goroutines, names, objects and instances, any footprints, any
ceiling within `NoWrapAssumption`, and with any number of overlapping Removes:

| theorem | says |
|---|---|
| `TypeCorrect` | `Spec => []TypeOK`: in particular no handler ever dereferences a nil model or backend |
| `LedgerNeverDrifts` | `Spec => []LedgerExact` |
| `BudgetRespected` | `Spec => []WithinBudget` |
| `ReleaseNeverPanics` | `Spec => []ReleaseCovered` |
| `WorkIsOwned` | `Spec => []Owned` |
| `ServedOneAtATime` | `Spec => []OneActive` |
| `RuntimeImplementsResidency` | `Spec => ResidencySpec` |
| `RepliesAreOwn` | `Spec => []InferOwnBackend` |
| `AloneAccountsProcesses` | `HistSpec => []AloneReserved` |
| `AloneWaitsForLive` | `HistSpec => []AloneRunsLive` |
| `AloneReadyIsServable` | `HistSpec => []AloneServable` |
| `AloneMemoryFits` | the bytes that live processes hold fit in the budget, while no two Removes of one name overlap |
| `UncontestedWithoutRemove` | `HistSpec => []NoneUncontested` |
| `ReachableWithoutRemove` | `HistSpec => []NoneDangling` |

*Assumptions used*: those named in the modules (`FootprintAssumption`: sizes are
naturals; `TotalAssumption`; `NoWrapAssumption`; `NoneAssumption` and
`RuntimeAssumption`: nil is neither a name, a model, an instance nor a
goroutine). Sets of goroutines and models need not be finite.

*Types and the ledger* (`RuntimeProofs`). `TypeOK` is inductive as it stands. Its
last conjunct says at which points a handler's `m` and backend are set, and is
re-established by one
lemma per kind of move (`ReturnLocal`, `GotoLocal`, `GetLocal`,
`TransitionStepType`) and one per handler (`SubmitType`, `RemoveType`,
`PullType`). `LedgerExact` alone is not inductive, for two reasons: it says
nothing of the ceiling, so that the code's sum could wrap; and a cardinality
means something only for a finite set. The invariant is therefore

```
Accounted == IsFiniteSet(Cells(Resident)) /\ LedgerExact /\ reserved <= TotalBytes
```

together with `TypeOK`. `LedgerMoves` shows that a step leaves the ledger alone,
is a `Transition` of some model along the graph, or allocates an object;
`TransitionAccounted` treats the transition by its edge, where
`CellsAdd` and `CellsRemove` say that a model that joins or leaves a set changes
its size by its own footprint, and `NoWrapAssumption` removes the modulus. That
a release is covered follows: the model released is resident, so its cells are
among those counted.

*Ownership* (`OwnershipProofs`). `OneActive` is not inductive: it does not say
why nobody else changes a model while it is loaded or serves. `Owned` does, and is
inductive with `TypeOK`. `Gave(at)` is the state that a goroutine at point `at`
has given its model; `Owned` says that the model is still in it (`OwnerState`),
that no other goroutine owns the same one (`Exclusive`), that a model is
NotPresent, Loading or Busy, or Unloading where no `Unload` fails, only while it
has an owner (`HasOwner`: nothing is left half-way), and that only the holder of
the mutex is inside `Submit` (`MutexHeld`). Every action is shown to have one of
three shapes (`NextShape`): it *takes* a model out of a state in which no one owns it, it
*gives* the model that it owns its next state, or it *keeps* all states; three
lemmas show that each shape keeps `Owned`. That a failed load and the deferred
`Busy -> Ready` discard an error is harmless for this reason: the owner's
transition is always legal.

*The refinement* (`ResidencyProofs`). By `Owned`, what goroutines are loading and
serving is what is Loading and Busy (`AsStates`), so that both sides of the
refinement become sets of states; then each edge of the graph is one step of
`Residency` or a stutter (`EdgeStep`). The budget part of `Admit` comes from
`BudgetRespected`, the rest of its guard from the mutex.

*Processes* (`ProcessProofs`). Three invariants, each on top of `TypeOK` and
`Owned`, for three amounts of interference.

- `ServeInv`, whatever overlaps, gives `RepliesAreOwn`. A model has one name in
  its life, by which every handler that holds it found it (`Named`), so looking
  the name up again can miss the model, or find a younger one, but that one has
  not been loaded while the mutex is held (`Renamed`); and the entry of the table
  under the name of a model in use is its own (`InTable`, `Serving`). The
  delicate step is `StoreBackend`, which may put the backend of a model that has
  been unregistered into the table under a name that is another model's by now.
- `AloneInv`, until two Removes of one name overlap. An unload keeps its name from
  everybody else (`Unloads`), so that a process of a registered model is in the
  table or about to be (`Reached`), a load starts with no process of its model
  (`Fresh`), and what is Ready or Busy, or can be made Busy, is alive (`Live`,
  `Lives`).
- `NoneInv`, of a name that has not been removed. Its model stays registered
  (`Settled`), the table has it while it is in memory and not otherwise (`Tabled`),
  and nobody else changes the state of a model that a `Submit` has read
  (`Expected`). A Remove of another name leaves all of it alone, by `Named`.

`Told` relates the history variables to the Removes in progress.
`ReachableWithoutRemove` takes all of these together: before the first Remove
`NoneInv` gives a resident model its name, `Owned` leaves it in no passing state once
all is quiet, and `AloneInv` puts its process into the table. `AloneMemoryFits`
says what the ledger is for: each live process holds the bytes of its own copy of
its model (`ProcessCells`), and as no model has two of them these bytes are mapped
one to one into the cells of the resident models, which `Accounted` bounds.

*Persistence* (`SavesProofs`), for any names, goroutines and inodes:
`FileTypeCorrect`, and, until two requests overlap, `AloneIsNeverCorrupt`,
`AlonePullsAreRemembered`, `AloneRemovalsDoStick` and `AloneIsDurable`, the
refinement of `DurableRegistry`. The invariant `AloneInv` says that the file a
save writes to is `path.tmp`, not another name of the registry file, and holds
nothing before the write (`OwnFile`, `TmpApart`), that the snapshot still is the
registry, and that what was pulled is in the registry *and* on file (`Held`; what a save
ended without is in neither):
each of the three alone is broken by a crash, which replaces the registry by the
file. `Fine` joins the invariant and the atomic step, so that each step is
looked at once. `CorruptionAlwaysReported` has no condition on overlaps, and its
argument counts: an open provides one name `path.tmp`, and a rename uses one up.
So if more saves are past their open than that name will serve (`Crowded`), the
rename of one is going to fail and be logged; if not, the one save that there is
has `path.tmp` to itself (`Orderly`) and leaves a file that parses.

*Backends* (`BackendProofs`), for any instances, ports and other programs:
`BackendTypeCorrect`, `NothingIsLeft` and `BackendImplementsEngine`. Who may be
bound to an instance's port is the invariant `Undisturbed`. Its delicate case is
a child that binds late: it could bind the port of another instance only if both
had chosen the same one, so one of them has not bound it and yet is loaded, which
only a stranger on its port can have brought about (it is then in `taken`, and the
other joins it), or both are loading, which the mutex excludes (`OneLoading`).

*Commands and servers* (`CliProofs`), for any number of them, any files and any
number of edits: `CliTypeCorrect`, `StartedAlwaysPolled`, `FileAlwaysKept`,
`RegistryAlwaysCarried` and `TranscriptAlwaysKept`. The invariant says what each
process has read of the file and that, unless the command is known to have been
overtaken by a change, the file still says so (`BaseRead`, `ChildReads`,
`SeenMissing`). For the registry it says what each live server knows of what is
`kept`, through failed saves and unreadable files, unless it is `stale`. For the
transcript it says that only a chat comes to a prompt, so that no other command's
answer is taken for a turn's (`Recorded`); the rest is about sequences: an answer
completes a turn (`AnsweredMore`), and a failure takes back what the turn had added
and nothing else (`TakenBack`).

*Storage* (`StorageProofs`), for any pulls, revisions, files and quantizations:
`StorageTypeCorrect` and `ModelsAreWhole`. The invariant is
that the cache of a repository that has not changed holds files of one revision
only (`CacheInv`); that a search finds something which is there rests on
`LeastIsLeast`, from the well-foundedness of the naturals.

*Further assumptions*: `FileAssumption`, `BackendAssumption`, `ConfigAssumption`,
`ServerAssumption`, `CliAssumption`, `StorageAssumption`: "nothing" is none of the
things it stands beside, names are numbered in their order, and a file that is
downloaded for a quantization has it in its name.

*Only model-checked*: liveness (`RequestsAnswered`, `UnloadingSettles`,
`CommandsSettle`, `ServersSettle`), which needs `ENABLED` and is out of the
prover's reach. What the proofs say towards it: by `Owned` a model is not left
half-way, and the mutex is held only by a goroutine inside `Submit`.

## 5. What is not modelled

- *Contents*: prompts, replies, digests, JSON, status codes, the OpenAI shapes
  around the same `Submit`. No property is about them.
- *Reads*: `GET` handlers, `list`, `ps`, `show`, `path`, `Registry.List` outside a
  save, `Budget.AvailableBytes` and `CanLoad` (which makes the test of `Fits`).
- *`Model.MemoryFootprintBytes` after registration* is constant, as in the code.
- *A child that dies by itself, inside `Runtime`*: there, `Load` either leaves a
  healthy child or none, and a process ends only by `Unload`, or just before it,
  which is when `Unload` fails. `Backend` has the rest.
- *Several requests of one server in steps, inside `Server`*: that is `Runtime`'s
  and `RegistryFile`'s matter. In `Server` a request has its effect at once.
- *The downloaders* (`llama-cli`, `hf`): they fetch what they are asked for, file
  by file, and exit with 0 only when they have it. Their own locking of the cache
  is theirs.
- *The other four settings*: read in the same way, and only passed on.
- *The wrap-around of the budget*: `Fits` computes it, and `NoWrapAssumption`
  excludes it; a ceiling near 2^64 bytes is not a size of memory.
- *Split `.gguf` files*: a quantization is one file, as `findCachedGGUF` returns one
  path; of a model in several, the code would register the size of the first.
- *The checksum after the pull*: nothing in the code reads it again.
- *The catalog*, a table that gives `pull` a source without a quantization, which
  `Storage` has; and the *echo* backend, which has no process and cannot fail.
- *Loss of power* during a save.

CONFIGURATION.md says of a changed `serve_addr` with the old `client_base_url`
that the command starts a second server. The model agrees on the cause
(`StartedIsPolled` needs the two to agree) but not on the effect: the second one
cannot bind the new address while the first has it, and the command gives up.

## 6. Plan

Done: the five families above, and proofs of every safety property that a run
checks. Left, in the order of what matters most:

1. What liveness rests on and can be proved: that a step of a handler always
   brings it nearer to its answer, and that no step of another one takes it back.
2. `Runtime` over `Backend`: a manager whose backends are disturbed, to say what
   of `InferOwnBackend` remains when a child dies.
3. `Server` with requests in steps, to see what a drain that is cut off after five
   seconds leaves of a pull.
