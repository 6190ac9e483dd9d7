# A verification of OmniAgent OS in TLA+

This directory models the OmniAgent OS kernel (`kernel/src`, Rust, `no_std`) and
its user-space crates (`crates/`) in TLA+. TLC checks the models on small
instances. For the two schedulers of the kernel, agents (pool, control block,
mailboxes), IPC channels, memory (physical frames, the heap, slab caches, the page
table, the range of `brk`), capability tokens, the rights of address tokens with
bitmaps and masks, the audit log, services and their
registry, the configuration, descriptors, the table of sockets, the soft bus, the task
scheduler of `omniagent-automation` and the replicated data types TLAPS proves the
main properties for instances of any size. Paths are relative to `kernel/src` or, when they start
with `omniagent-` or `libagent`, to `crates`; a crate named without a file means
its `src/lib.rs`.

Contents: [the system](#the-system), [modules](#modules-and-the-code-they-model),
[runs](#runs), [bounds](#bounds), [fairness](#fairness), [proofs](#proofs),
[findings](#findings), [not modelled](#not-modelled), [plan](#plan).

## The system

The kernel is a library of managers. Each manager is a `static`, most of them
`spin::Lazy<Mutex<Manager>>`, with the manager's fields again behind locks or
atomics of their own because its methods take `&self`. So there are two kinds of
atomicity: callers that go through the outer lock make one step of every method,
callers that hold only a `&Manager` interleave at every inner lock section. The
documentation promises thread safety of the managers themselves
(`agent/pool.rs:20`, for example), so both are worth modelling, and several
modules are parameterised by whether callers hold it (`OuterLock`, or a
variable chosen at the start). The user-space crates take `&mut self`
almost everywhere: an operation is one step, and what is hard is the state that
several tables keep in common, orders, and numbers at their edges.

| Component | State | Hard behaviour | What makes it correct |
|---|---|---|---|
| priority bitmap scheduler, `bitmap_scheduler/scheduler.rs` | a bitmap, 32 queues with a lock each, current | bit and queue change in separate accesses, no outer lock | no ready task is forgotten; highest priority first; locks are released |
| CFS scheduler, `scheduler/*.rs` | task table, trees by virtual run time, current, counts | the same task in table, tree and current; key collisions | one task runs, the dead stay dead, strict classes, counts agree |
| agent pool, control block, communication, `agent/*.rs` | slots, handles; atomics of one agent; mailboxes and subscriptions | search and insertion in separate sections, exchange loops, ids taken before the lock | handles name one agent for ever; the peak is the maximum; bounded queues in order |
| agent system calls and library, `syscall/dispatch.rs`, `abi.rs`, `libagent` | a pool and a communication manager of their own | handles outlive mailboxes and the reverse; error codes there and back | what the library says of an agent or a message is so |
| POSIX calls, files, `syscall/posix.rs`, `fs/*.rs` | descriptors, offsets, mounts, the break, pids | I/O between two lock sections; three atomics of one range | offsets, appends, the top of the heap, the innermost mount |
| IPC, shared memory, `ipc/*.rs` | channels and clones; regions and counters | capacity race, clones, counters by hand | bounded FIFO; counters are sums |
| rights, `capability/*.rs`, `security/access_token.rs`, `capability_bridge.rs` | trees of tokens, address tokens, bit sets | delegation chains, overlapping grants | counts and chains bounded; a revoked right is gone |
| audit chain, logs, `security/audit_chain.rs`, `logger/*.rs`, `service/lifecycle.rs` | bounded lists, hashes, totals | eviction, wrap-around | links intact, the latest records in order |
| services, `svc_manager/*.rs`, `service/registry.rs` | configurations, snapshots, start order, health, index by name | operations that fail half-way, tables in step | dependencies first, restart limits, inverse tables |
| configuration, `config/*.rs` | namespaces, watchers | callbacks after the data is stored | watchers see the value a key has |
| memory, `memory/*.rs`, `memory/vm/*.rs` | frame bitmap, bump pointer, slabs, areas and page tables | alignment, half-done mappings | nothing handed out twice; addresses translate to what was mapped |
| devices, `device_manager/*.rs`, `drivers/*` | tables, disks, key buffer | best match, bounds, wrap-around | best driver, disks keep what is written |
| soft bus, `softbus/*.rs` | devices, connections, priority queue, counters | counters apart from the queue | they differ by what is under way |
| networking, `net/*.rs`, `omniagent-net` | socket table with two locks; interfaces, connections, names | a slot closed and reused between two locks; TCP states | a guard is that of its descriptor; handshakes |
| packages, `package/*.rs` | registry with three indexes, resolver | cycles, versions, order of the search | installed behind what they require |
| kernel shell, `shell/*.rs` | history, aliases, environment | quotes, pipes, aliases | lines are split as written |
| automation, `omniagent-automation` | tasks and their graph, workflows, triggers | hash maps in any order, tasks added or reported again | no task forgotten or handed out twice; orders respect dependencies |
| distributed state, `omniagent-distributed` | clocks, counters, sets, registers, a message bus, members | lost, repeated, reordered snapshots; heartbeats | replicas that saw the same updates agree; silence is found |
| files of agents, `omniagent-fs` | inodes, directories, descriptors | removal while open, offsets | a tree; open files keep their inode |
| machines, `omniagent-virt` | quota, states, exits, registers, devices | totals of fixed width | within the quota; each exit counted |
| tensors, `omniagent-memory` | regions, blocks, tensors | alignment, quantisation, half floats | blocks apart, values come back |
| inference, `omniagent-inference` | models, providers, engines, streams | routing by preference and privacy | the best path that is allowed |
| security, `omniagent-security` | policies, log, tokens, hash state | order and priority of policies, patterns, blocks | the first match decides; patterns match what they say |
| learning and conversations, `omniagent-learning`, `omniagent-multimodal` | memories, graph, sessions, messages, models | lists kept in step by hand | each list once, indexes exact |
| desktop, `omniagent-shell`, `omniagent-desktop`, `omniagent-compositor` | windows, focus, dock, bars, components; window list, themes, GPU memory, frames, animations | focus and hover after removal, two locks of the list, sums of fixed width | events reach what is on top; sums exact |
| screen, serial line, exceptions, `vga.rs`, `drivers/serial.rs`, `interrupts/*.rs` | cells and cursor; the lock of the port | a handler that interrupts a line | lines whole, in order |
| boot, arch, time | hardware; the loader's memory map | - | the account of usable memory |

System calls compose the components of the kernel: `AgentSyscall` the pool with
the mailboxes, `PosixSyscall` descriptors, mounts and pids. In user space the
compositions the code makes are few: an execution of a workflow has a task
scheduler of its own, the inference manager asks the router and then an engine,
`AquaShell` holds the parts of the desktop. `PROJECT.json` lists every component
with its sources and status, and under "hazards" what a test would hardly reach,
each at its line with the properties aimed at it; where the code does go wrong, or
would without a lock or a promise of its callers, a note says what the property
leaves out on that account.

## Modules and the code they model

A module has one action per operation or, where the code's locks let other
callers in between, one per lock section or atomic access. In the second case a
variable `call` (or `pc`) holds the locals of each thread's running call.
Variables called history in their declarations are kept for the properties only.

| Module | Code | Correspondence |
|---|---|---|
| `BitmapScheduler` | `bitmap_scheduler/scheduler.rs` | `bitmap` is the set of 1-bits, `queue[p]` the deque of priority p, `lock[p]` its holder, `pc[t]` the next access of thread t. `alone`, chosen at the start, says whether calls never overlap (one CPU). `pick_next` keeps its lock until it returns (the guard lives in the match), `dequeue` clears the bit under the lock, `enqueue` sets it without. |
| `CfsScheduler` | `scheduler/*.rs` | one action per method, behind one lock; the run queue is a record with a tree per class. `misuses` counts calls that break the contract the methods leave to their callers; properties that need it say `misuses = 0`. `hung` stands for the search for a key that never ends. Holds its theorems. |
| `AgentPool` | `agent/pool.rs` | spawn in four steps, kill in two, with and without the lock of `AGENT_POOL` (`outer_lock`, chosen at the start). Holds its theorem. |
| `AgentControlBlock` | `agent/control_block.rs` | set_state is a load and a store; update_memory a store, a load and exchanges that may fail spuriously; to_info loads field after field; the counters wrap. Holds its theorem. |
| `AgentComm` | `agent/communication.rs` | mailboxes are the ring buffers with head, tail and count; topics are short sequences, so that `*` matches as in `topic_matches`. A broadcast is a closed form of its loop of pushes. Holds its theorems. |
| `AgentSyscall` | `syscall/dispatch.rs`, `syscall/abi.rs`, `libagent` | handlers over pool and mailboxes with every error code; the library's builders and its translation of codes; restart of the pool. |
| `IpcChannel` | `ipc/channel.rs` | the manager's table and the clones `get_channel` hands out; `send` and `try_receive` load `is_open` in one step and use the buffer under its lock in another. |
| `BoundedQueues` | - | abstract: first-in first-out, bounded, nothing lost, overtaken or made up. Mailboxes and channels implement it. |
| `Rights` | `security/access_token.rs`, `security/capability_bridge.rs`, `capability/permission.rs`, masks of `syscall/abi.rs` | address tokens, created with any list of permissions, with what each was given (`given`), bit sets by word with what was set (`granted`, `marked`); each of the three moves by itself (`RightsNext`). |
| `FrameAllocator` | `memory/frame_allocator.rs` | `used` is the bitmap, whose number of bits is a constant of its own. |
| `BumpHeap`, `SlabAllocator` | `memory/heap.rs`, `memory/slab.rs` | `fetch_add` and the rest of `alloc` are two steps, the heap starts at any address, a block is kept with its `padding`, by which aligning has moved it behind the value of the pointer; slabs have free lists of object addresses, and a page's address modulo the alignment is any number. |
| `Allocator` | - | abstract: a block is given out only where no live block is. The heap (the blocks of each padding) and slabs implement it. |
| `SharedMemory` | `ipc/shared_memory.rs` | regions and the two counters modulo 2^w. |
| `AddressSpace` | `memory/vm/*.rs`, `boot/multiboot2.rs` | `tables` are the PML4 (0) and the intermediate tables in the order they were allocated, an entry is a number whose low bits are flags; areas on top (`SpaceNext`), or the page table by itself (`DirectSpec`). Sizes of pages, tables and addresses are constants, 4, 2 and 128 in the runs, with a non-canonical hole. |
| `Devices` | `device_manager/*.rs`, `drivers/block/*.rs`, `drivers/keyboard.rs`, `drivers/serial.rs`, `vga.rs`, `interrupts/exceptions.rs` | binding, RAM disks block by block, the ring buffer of keys with modifiers; the screen with scrolling and colours; log lines written piece by piece behind the lock of the serial line, with exceptions that interrupt them (of the vectors only whether the handler returns is kept). |
| `ServiceManager` | `svc_manager/*.rs`, `service/registry.rs` | the manager one action per operation, which keeps what it did before it fails; the health monitor and the registry by lock section, in variables of their own (`ServicesSpec`, `MonitorNext`, `RegistrySpec`). |
| `CapabilityToken`, `AuditChain` | `capability/token.rs`, `security/audit_chain.rs` | one action per operation; append is three steps (the id, the hash of the last, the record), with and without the lock of `AUDIT_CHAIN`; the hash is injective. |
| `FdTable` | `fs/fd_table.rs`, `fs/inode.rs` | look up, I/O and storing the offset are separate steps; a file is its size. |
| `PosixSyscall` | `syscall/posix.rs`, arms of `dispatch`, `fs/vfs.rs`, `fs/path.rs`, wrappers of `libagent` | brk by atomic access; mounts, paths as sequences of components. |
| `Stores` | `config/*.rs`, `logger/*.rs`, `service/lifecycle.rs` | namespaces with watchers, a set of pattern and callback, called after the store and the release of the data (`set` is two steps); filters and ring buffer; the life cycle log. |
| `UserFiles` | `omniagent-fs` | a file system is a record of inodes and descriptors; operations are operators on it, so that each agent's and the shared one use them. |
| `KernelShell` | `shell/*.rs` | a line is a sequence of pieces (space, quote, bar, word); tokenizing, pipelines, aliases, history, built-ins. |
| `TaskScheduler`, `WorkflowEngine` | `omniagent-automation` | the binary heap is a bag of priority and id; `careful`, chosen at the start, says whether callers report only what they were given. `Execute` runs a whole workflow, for every order of the hash maps; `Dfs` and Kahn's algorithm against reference definitions; triggers. |
| `Packages` | `package/*.rs` | registry with indexes, both searches for cycles, collection of requirements, matching of versions. |
| `VirtualMachines` | `omniagent-virt` | quota with sums modulo 2^w, transitions, exits and ports, registers, virtio devices. |
| `TensorMemory` | `omniagent-memory` | first fit with alignment modulo 2^w, the pool, operations on tensors; quantisation over fractions, half floats by exponent and mantissa. |
| `Inference` | `omniagent-inference` | routing by preference and level, engines that fail, sessions of streamed answers. |
| `Security` | `omniagent-security` | policies, the pattern matcher step by step against the meaning of `*` and `?`, filters of the log, tokens, how the hash takes in data. |
| `Assistants` | `omniagent-learning`, `omniagent-multimodal` | the memory store, the graph with its index, sessions, contents, conversations, models. |
| `Desktop` | `omniagent-shell` | a record each for windows, dock, menu bar, bar of agents, components. |
| `Compositor` | `omniagent-desktop`, `omniagent-compositor` | the window list under its two locks, focus and hits, themes, pixels; GPU memory modulo 2^w, frames, animations over fractions. |
| `Cluster` | `omniagent-distributed` | nodes with a replica and a bus each; the transport is outside the code and may lose, delay, repeat and reorder; members with heartbeats. |
| `Network` | `net/*.rs`, `omniagent-net` | the socket table by lock section with guards that callers keep; `careful`, chosen at the start, says whether threads use only sockets they made; the manager, TCP states, classes of addresses. |
| `SoftBus` | `softbus/*.rs` | devices registered with any time of last activity (`SeenTimes`) and those seen since (`active`), connections, the transport with counters apart from the queue, with and without the outer lock (`outer_lock`, chosen at the start). |
| `BitmapSchedulerProofs`, `KernelProofs`, `TaskSchedulerProofs`, `ClusterProofs` | - | theorems, see [proofs](#proofs). |

The bitmap scheduler is checked by itself. `MCAgents`, `MCMachine`,
`MCManagers`, `MCAutomation` and `MCCluster` make small instances of several
components that share no variable. A component about which theorems are proved
is extended, so that the run and the theorem speak of the same definition; the
others are instances. There a variable `part` (`kind`), chosen in
the initial state and never changed, says which component moves in this
behaviour, with which lock and with how careful callers. Because the parts share
no variable, nothing is lost by not interleaving them, and each property says
for which parts it speaks. In the parts "values" and "lines" nothing moves: pure
functions are compared with their reference definitions over bounded inputs.

## Runs

| Run | Shows |
|---|---|
| `bitmap` | Two threads inside the bitmap scheduler at once. `NoLostTask`: a queue that holds a task has its bit set, or an enqueue about to set it. `IInv`: the inductive invariant of the proof. `LocksAreReleased`: a locked queue is let go of (liveness, under `FairSpec`). With one caller at a time (`alone`) `ExactAlone`: bitmap and queues agree and the highest priority is picked; with two they do not, which costs a retry and no task. |
| `agents` | `AgentsKept`: with and without the pool's lock no handle is given twice, behind it a spawned agent stays until it is killed and the count is exact. `MessagesInOrder`: no message id is used twice, and behind the lock of `COMM_MANAGER` each mailbox is in the order of ids. `ImplementsQueues`, `ChannelsAreQueues`: mailboxes and the handles of channels refine `BoundedQueues`. `PeakAndInfoSane`: the peak under three racing updates, and what `to_info` shows. `TypesOK` checks the inductive invariants of pool, control block, mailboxes, channels and rights too. `LibraryAgrees`: a handle the library holds is an agent of its configuration until someone kills it, a message with an id is in the mailbox, "not found" only when it is gone. `RightsExact`: access only by a right given and not revoked, also by tokens with several entries for one resource; bitmaps and masks against sets. |
| `machine` | `QueueMatchesTable` (queue and table of the CFS scheduler, one running task, the dead stay dead, counts) and `HighestClassRuns`. `FailsOnlyWhenFull` of frames with as many bits as frames and fewer. `HeapAllocates`, `SlabsAllocate`: the blocks of each padding of the heap, and the objects of the slabs, refine `Allocator`; requests of 1 and 4 bytes, aligned to 1 and 8. `ObjectsAccounted`: each slab object once free or in use and inside its page, counts. `TablesAreAMap`: every address translates to what was last mapped for its page, and `mapping_count` counts. `PartsExact`: areas disjoint and mapped, free areas free, the account of the loader's map, the counters of shared regions, best driver, contents of disks, order of keys, the screen shows what was printed, a line on the serial port is whole. `TypesOK` checks the inductive invariants of CFS, frames, heap, slabs and page table too. |
| `managers` | `TablesInStep` (registry, start order, health, mounts, nested keys, lines of the shell, descriptors opened through system calls, the tree and open files of agents, ring buffer and sinks of the log, the life cycle log, the shell's history), `StartedAfterDependencies`, `TokensBounded` (exact counts, finite chains, revocation is final), `LogLinked` (links of the audit log, the latest records without a gap), `DescriptorsExact` (offsets, appends and descriptors of two threads), `HeapTopInRange`, `WatcherCurrent` (an action property: when `set` returns, its watchers know the value). `TypesOK` checks the inductive invariants of tokens, services, registry, descriptors, `brk`, audit log and configuration too. |
| `automation` | `NothingForgotten` with careless callers, `HandedOutOnce` with careful ones, `RunsInOrder` for graphs with cycles and repeated dependencies, for triggers and for the installation of packages, `ResourcesExact` (machines, exits, regions, tensors and floats, GPU memory, frames), `AnswersExact` (routing as the router does it, see [findings](#findings), engines, streams, memories, graph, conversations, models, windows, dock, bars, components, window list, animations, and the decisions of policies, tokens, hash and patterns). |
| `cluster` | `Converges`: each replica is what the updates it includes say; `ClocksShowCausality`. `SocketTableExact`: slots, buffers and guards of the socket table. `NetworkExact`: the user-space stack, handshakes, tables, counters and time stamps of the soft bus, and the members that were silent. `TypesOK` checks the inductive invariants of replicas, members, the socket table and the soft bus too. |
| `cfs_hang`, `cfs_current_kept`, `heap_overlap`, `ipc_copies`, `audit_evict`, `confidential_leaves` | refute what the source's own comments say, see [findings](#findings). |

`TypesOK` is checked in every passing run. `PROJECT.json` names for each property
a mutated form of one definition, as a plausible bug would make it, under which
TLC finds the property violated. These forms stand next to the definitions and are
used nowhere else. Its "map" has an entry for every operation; a helper without
one lies within the lines of the operation that uses it. `CHECK_DEADLOCK FALSE` is
set everywhere: the bounds on counters stop every model in the end, and a kernel
nobody calls stops too.

## Bounds

| Run | Bound | Why it is enough |
|---|---|---|
| `bitmap` | 2 threads, 2 tasks, 2 priorities, 5 calls | a lost task needs an enqueue racing one clear; a wrong priority needs two queues; the theorem covers the rest |
| `agents` | 3 slots, 4 handles; 2 mailboxes of 2 messages, 3 ids (2 without the lock), 2 subscriptions; a channel of 2 with 3 sends of 3 threads | slots are reused, buffers wrap around, a third agent has no mailbox, two sends overlap |
| `agents` | one agent and one mailbox at a time, 2 initialisations, 4 configurations | a handle outlives its pool and its mailbox; names empty, too long and with NUL |
| `agents` | control block: 3 threads, 2 amounts, a behaviour touches one of state, the use, a counter or a stored time | a lost exchange needs two updates and a peak; the fields do not depend on each other |
| `machine` | CFS: 3 tasks with idle, 2 classes, 2 ticks and schedules together, 1 switch (2 with misuse), 2 enqueues in a tree, 1 misuse | two user tasks can be preempted, sleep and come back in every order |
| `machine` | 6 frames with 4 or 8 bits; a heap of 16 units that starts off its alignment, 3 blocks, 2 threads; 2 caches of 2 slabs of 6 units; 2 regions modulo 8 | frames without a bit and bits without a frame; exhaustion; objects that leave gaps; counters wrap |
| `machine` | 2 areas at both ends of the canonical addresses, or one and direct calls of the page table of a user space with 2 physical addresses and 2 flags; 2 devices of 3 drivers; 2 disks of 2 blocks; 5 keys; a screen of 3 columns; 3 log lines in 2 contexts | mappings that meet a missing table, an occupied page and the hole; ties of drivers; a full key buffer |
| `managers` | services: 2 names, 4 ids; 3 services, 4 configurations; limits 1 and 2; registered again once | ids differ from names; chains and forks of dependencies |
| `managers` | 4 tokens, 2 delegations; 3 records of 6; 2 threads, 2 files, 2 descriptors, size 2 (the second file stays empty and is not opened for appending) | chains, siblings, a revoked middle; three evictions; appends behind other writes |
| `managers` | 2 mounts; brk to 3; trees of 3 inodes; 2 sets and one watcher; rings of 2 records with 3 on their way in; history of 2; lines of up to 3 pieces | shadowed mounts; directories within directories; evictions |
| `automation` | 3 tasks, 2 priorities, up to 2 dependencies; careless callers hand in 2 tasks; graphs of 3 tasks from lists with cycles and repetitions | two dependencies, chains, self-dependencies; stale edges |
| `automation` | 3 packages; 3 machines with sums modulo 16; 2 regions of 10 and 13 bytes; 1-2 models and engines; 3 policies; 3 memories, triples and windows; 3 items | diamonds, conflicts, wrap-around, a middle element removed, ties |
| `cluster` | 3 nodes, 2 updates (of a register by two of the nodes), 2 messages, time stamps 0 to 2; 2 members; 2 sockets for careful threads, 1 slot for careless ones; 2 devices, registered with a time before or among the stamps, 3 ids | a snapshot of what was received is passed on; two writes with one stamp; a slot is reused; silence beyond and within the timeout |

Counters that only grow are bounded in the guards, in constants whose
declarations say "bound". Widths that matter are constants (`CountMod`,
`SizeMod`, `Width`, `AddrMod`); ids of 64 bits are taken as unbounded, and the
heap pointer, which only grows, does not wrap. Where a sum wraps in release and
panics in debug (quota of machines, offsets of regions, sizes on the GPU) the
model takes the wrap and notes it; properties speak up to the first.

## Fairness

Only `BitmapScheduler` has fairness, in `FairSpec`: weak fairness of `Continue(t)`, the next
access of a call that thread t has begun. A thread inside the scheduler runs
kernel code that nothing suspends for ever. No fairness is put on beginning a
call, nor on getting a lock: a spin lock gives itself to anybody, and a waiter may
be overtaken for ever. So no property says that every call returns.
`LocksAreReleased` says what the code is responsible for and what needs only
that the holder goes on: whoever has a queue locked lets go of it. The bound on
calls plays no part in that, since the holder waits for nobody. The other components have no
loop that waits: their calls end by themselves, or hang for good (`cfs_hang`).

## Proofs

A theorem holds for every value of the constants that satisfies the assumptions
named in its module; TLC evaluates these in the runs. Each rests on an inductive
invariant: the initial states satisfy it, every step keeps it, it implies the
property. The invariants are checked by a run first, as `IInv` in `bitmap`, as
a part of `TypesOK` in the others.

`BitmapSchedulerProofs`, for any sets of threads and tasks, any number of
priorities and any bound on calls:

- `TypeCorrect`: what needs an argument is the arithmetic of scanning the queues
  and `RemoveAtType`.
- `NeverLosesTask`: `NoLostTask` is not inductive: when a bit is cleared one has
  to know that the queue is still empty. `IInv` adds `LockHeld` (the holder of a
  queue's lock is exactly the thread between removing a task and returning) and
  `ClearsEmptyQueue` (whoever is about to clear a bit has an empty queue). An
  enqueue cannot push between, since it needs the lock that `LockHeld` says is
  taken. `InvariantHolds` is all of `IInv`. Nothing is claimed of a bit that is
  set while its queue is empty, unless calls never overlap: an enqueue that has
  pushed sets its bit although the task may have been picked meanwhile.
- `ExactForOneCpu`: with one CPU bitmap and queues agree between calls and
  `pick_next` returns the front of the first queue that is not empty. `OneCall`
  says for this case that at most one call is under way, and that only the bit
  this call is about to set or to clear differs from its queue (`BitLags`).

`AgentPool`, for any threads, any number of slots and of handles:

- `KeepsAgents`: `AgentsKept`. With and without the lock handles are unique
  because those in the pool and in a running spawn lie below `next_handle`
  (`HandlesFresh`). Behind the lock at most one call is under way (`OneCall`), so
  the slot it found is still free when it stores (`SlotKept`), and the count
  differs from the number of agents by the step under way (`CountLags`). The
  assumption that there are fewer slots than the counter can count is that of
  the code (256 slots, 32 bits).

`AgentControlBlock`, for any callers and sizes:

- `PeakAndInfoHold`: `PeakAndInfoSane`. A call that still has to raise the peak carries an amount
  that was reported (`Loaded`), an exchange only raises, and when no call is
  under way the peak is the maximum. The thread counter is the number of
  threads modulo its width (`Counted`); for fewer than that many what `to_info`
  shows of the use is above the peak only while the update of that use is under
  way, and the quota refuses just when more run than may (`InfoSane`).

`AgentComm`, for any agents, callers, subscriptions and capacity, with and
without the lock:

- `MailboxesAreQueues`: a refinement. `BoundedQueues` is implemented with
  `queue <- Contents(mailbox)`, the positions from `head` on. The invariant is
  that `tail = head + count` on the ring; a push is then an append and a pop a
  tail, and a broadcast, a closed form of its loop, appends to each mailbox as
  many copies as fit.
- `IdsHold`: `MessagesInOrder`. Ids delivered or under way are below the counter (`IdsSpent`), so
  two messages with one id come from one call; behind the lock the call under
  way has an id above all delivered (`LatestCall`), so that each mailbox is in
  the order of ids.

`CfsScheduler`, for any number of tasks, ticks and calls:

- `QueueAndTableAgree`: `QueueMatchesTable`. An entry is always in the tree of
  its task's class (`InTheirTrees`, whatever callers do); while they keep the
  contract `Orderly` holds: a queued task is Ready and queued once, only
  `current` runs, and tasks that have exited are Zombies outside the queue. The
  counts are cardinalities through `Adds` and `Removes`, so that a removal of
  several entries is counted exactly.
- `NoHigherClassWaits`: `HighestClassRuns`. The class picked is the maximum of
  those with entries, the entry the minimum of its keys (`MinIn`, by
  well-founded induction on the natural numbers).

`KernelProofs`, about managers and memory of the kernel:

- Frames, any number of them and of bits. `NeverFailsEarly`: the search begins at
  a hint; the strengthening is that no free frame lies below it. It also shows
  that the second search of the code, from 0 to the hint, never finds anything.
  `TakesLowestFree`: each step that allocates takes the lowest free frame.
- Tokens, any owners and any number of tokens. `DelegationsBounded`: the limit
  of a token is one less than that of the token it comes from (`LimitsShrink`),
  so that along a chain limit and position add up to the limit at its root; the
  chain is followed by induction on the position (`LeastNumber`). Each count is
  the cardinality of the set of children, and the revoked stay revoked.
- Services, any set and any configurations, dependencies in circles included.
  `RestartsStayBounded` and `DependenciesComeFirst`: `start_all` goes through the
  start order and stops at the first that fails; all it started depends on what
  ran before or stands earlier.
- Registry, any number of callers, names and ids. `NamesFindServices`: behind
  `SERVICE_REGISTRY` one call at a time is under way, and table and index differ
  only by the service it has inserted and not yet indexed, or the name it has
  not yet taken out (`Indexing`, `Unindexing`, in `IndexLags`); the id and name
  it carries agree with both (`CallAgrees`). The hypothesis `RegistryLock` is
  the `Lazy<Mutex<..>>` of the source; without it the statement is false, as
  the check and the insertion of a name are apart.
- The heap of `brk`, any number of threads and addresses. `HeapTopStaysInRange`:
  `HEAP_TOP`, `HEAP_START` and `HEAP_END` are read and written one by one, so
  the invariant says for every thread what it knows of the range (`KnowsHeap`):
  the one thread that found no heap (`seen.first`) sets the start and then the
  end, nobody passes the test of the range in between, as the end is still 0,
  and the range never changes afterwards, so a thread that has passed the test
  stores a top that is still in range. Two threads that both find no heap do
  disagree, see [findings](#findings).
- File descriptors, any number of threads, slots and files. `DescriptorsHold`:
  `DescriptorsExact`. No step of another thread comes between a call and its
  descriptor if no two threads use one (`~Share`): the descriptor is still open,
  still the caller's, and where the call found it (`Knows`), so that storing the
  offset moves it by what was read or written. With and without that, an append
  that has loaded the size knows one no smaller than what was appended so far
  (`AppendsBehind`), and an allocation takes a slot that is free.
- IPC channels, any number of threads, channels and handles and any capacity.
  `HandlesAreQueues`: a refinement of `BoundedQueues`, a queue per handle that
  `get_channel` may give out. A call that has found its channel open uses the
  buffer later, perhaps after a close, but compares with the capacity and appends
  under one lock; the invariant (`ChannelsHold`) is that calls are on handles
  there are and that no buffer is longer than its capacity.
- The audit log, any number of callers and records and any size of the log.
  `AuditLogKept`: `append` takes an id, loads the hash of the last record and
  pushes, and evicts the oldest record when the log is full. The invariant
  (`AuditHolds`) says that behind `AUDIT_CHAIN` the one append under way has the
  last id and the hash of the last record; what is left after an eviction is a
  suffix, so it is linked. That the first record's hash is 0, as `verify_chain`
  wants, is just what an eviction breaks (`audit_evict`). Ids are consecutive
  only behind the lock (`AuditLock`).
- Address tokens, bitmaps and masks, any resources, rights and capabilities and
  any number of tokens. `AccessOnlyByRights`: `RightsExact`. A grant for a resource
  the token already has an entry for is dropped, so what a token lets pass is less
  than what it was given; the invariant (`RightsInv`) says that its permissions are
  among those it was given since the last revocation of their type, and that each
  resource given has an entry, one or, by the list the token was created with,
  several (`Covers`), so that something of what was given for it is always
  there. A bit of a mask is the place of its number in the word of its number
  (`WordsHold`), hence setting one changes no other, and the capabilities in the
  bitmap are those granted whatever else is set there.
- The configuration, any keys, patterns, callbacks and threads. `WatchersAreTold`:
  `set` stores a value, lets go of the data and then calls the callbacks that
  watch the key. Between these steps the key still has the value of the call
  (`ConfigInv`), as the lock of `CONFIG_MANAGER` (`ConfigLock`) keeps other calls
  out; without it a watcher may be left with an older value.
- The heap, wherever it starts, for any number of threads and requests of any size
  and alignment. `HeapHandsOutOnce`: `alloc` advances the pointer by the size, so it
  reserves each range once, and then moves the block up to its alignment without
  reserving more. Every unit handed out is one the pointer has passed, moved on by the
  padding of its block (`UnitsBelowNext`). So blocks with one padding, above all
  those with none, share no unit: `Allocator` is refined with `live` as the units
  of the blocks, each with the block's padding. Blocks with different paddings do
  overlap, as `heap_overlap` shows.
- Slab caches, any sizes, alignments, page addresses and number of caches.
  `SlabsHandOutOnce` (a refinement of `Allocator`) and `SlabsAccountForObjects`
  rest on `SlabInv`: the free list of a cache has each of its objects that is not
  in use once (`FreeListExact`), and objects lie a stride apart that is no
  smaller than the object (`StrideHoldsObject`, `OffsetsApart`), so a new slab
  adds objects no other slab has (`SlabAdds`). The last object of a slab ends in
  its page (`OffsetsFit`).
- The page table, any page size, any even number of entries and any width of
  addresses that is a multiple of what the indexes tell apart.
  `PageTableIsAMap`: `map`, `unmap` and `update_flags` keep the tables a map from
  pages to entries. The invariant (`PageTableInv`) gives every table a level: an
  entry of a table of one level is a table of the next, and no other entry is the
  same (`Tree`), so that two addresses whose indexes differ reach different
  tables (`PathsApart`). Arithmetic does the rest: the indexes of an address are
  the digits of its page number (`PartsNest`), and two canonical pages with the
  same indexes are the same page (`IndexesTell`). A `map` that adds tables
  changes no translation, also when it then finds the page mapped
  (`DescendKeeps`); `mapping_count` goes down all tables and finds one entry for
  each page mapped (`CountsHeld`). The levels are a witness: the theorem is about
  some assignment of levels, the run checks the one read off the entries
  (`Levels`).

`TaskSchedulerProofs`, for any tasks, priorities, dependencies and bound:

- `ForgetsNothing`: `NothingForgotten`, however the scheduler is used. The
  strengthening is `EdgesReversed`: every edge is in the reverse graph, so that
  completing a task looks at everything that waits for it.
- `HandsOutOnce`: `HandedOutOnce`. For careful callers `EdgesOnce`, `QueuedOnce`
  and `HandedOnce` are inductive together: a task that is unblocked had an open
  dependency until that step, so that it was neither queued nor handed out.

`ClusterProofs`, for any nodes, elements, stamps, members and
timeouts, and for any threads, sockets, devices and connections:

- `ReplicasHold`: the inductive invariant. Updates carry numbers per node; a
  replica and the snapshot in a message include, of each node, the updates up to
  the number in their clock (`UpTo`), and hold what these amount to: a counter
  the number of increments, a set the items never removed, a register the write
  with the largest stamp and node. Numbers are unique (`Unambiguous`) and no
  other replica knows more of a node than that node does (`Behind`). A merge then
  is the union of prefixes, hence a prefix. A write with stamp 0 is no write for
  its own node, since the register's node is never below it then (`OwnStamp`).
- `ReplicasConverge` and `ClocksTellCausality` follow: `Converges` and
  `ClocksShowCausality` relate values and clocks to the updates included.
- `MembersTracked`: what is stored of a member is the last time it was heard
  of, or is known to have been set back (`MembersInv`), so the check finds
  exactly the silent ones.
- `SocketsHold`: `SocketTableExact`. `create` and `close` change the two arrays of
  the table in two steps with the lock of `metas` held. The invariant (`TableInv`)
  says what the slot lacks in between (`Changing`) and that all other slots agree
  (`OthersAgree`). `get_protocol` holds no lock between finding a slot and taking
  its socket; if threads use only sockets they made, the slot still has the
  descriptor that was asked for, because only its maker could have closed it
  (`OwnKept`). Without that a guard may be of another descriptor, and the theorem
  then claims only the agreement of the arrays, one thread per guard and the
  buffers, which each call on a socket keeps (`UsedKeeps`).
- `BusHolds`: `BusExact`. A `send` takes an id, counts itself and pushes in three
  steps, so the counters differ from the queue by the sends that have counted
  (`UnderWay`). Ids in the queue and on their way are below the counter and differ
  (`IdsTaken`); behind the lock the one under way is above all in the queue
  (`OneSends`), which keeps the order. That a best connection exists is the least
  number of a set, twice (`BestIsFound`): of the latencies, then of the ids. A
  device seen since it was registered has a time stamp already given and no other
  such device's (`StampsApart`), whatever times devices are registered with.

What stays with TLC, and why:

- liveness under fairness (`LocksAreReleased`) and `ENABLED` are out of the
  prover's reach;
- induction over data: what the matcher of patterns, the parser of lines, a
  topological order or a fold over a list computes is compared with reference
  definitions over bounded inputs. `Desktop`, `Packages`, `Security`,
  `TensorMemory` and `WorkflowEngine` are written with recursive operators for
  this reason;
- what a run bounds and the code does not, as the number of messages in
  `Cluster`, is left out of the theorems (they type these counters by `Nat`);
- sums and loops: the counters of shared memory and the quota of machines are
  sums over a table, `map_area`, `unmap_area` and `find_free_area` are folds over
  pages and areas, on which the installed provers cannot do induction, since the
  library's theorems about folds take operators;
- devices, what the agents' library reports, files, the ring buffer of
  the log, the network stack and the assistants are model-checked, see the
  [plan](#plan).

## Findings

Checked by a run each (`PROJECT.json` has the quotations):

1. `cfs_hang`: the search for a free key in `PriorityTree::enqueue`
   (`scheduler/run_queue.rs:49`) recomputes the same second key for ever when
   both are taken, with the scheduler locked. Three tasks that only yield reach it.
2. `cfs_current_kept`: `RunQueue::dequeue` clears `current` only for a task it
   found in a tree (`run_queue.rs:161`), where the running task never is.
3. `heap_overlap`: the bump allocator moves its pointer by the size and aligns
   the old value afterwards (`memory/heap.rs:46`): of three allocations of one
   byte the second and the third return the same pointer.
4. `ipc_copies`: `get_channel` returns a clone with a buffer of its own, so what
   is sent on one handle is never received on another (`ipc/channel.rs:66,223`).
5. `audit_evict`: after the first eviction `verify_chain` fails for good
   (`security/audit_chain.rs:162`).
6. `confidential_leaves`: a confidential request that no local model can do is
   answered by a cloud provider (`omniagent-inference/src/router.rs:66`).

Observed while modelling, in the steps of the models, not in runs of their own:

Kernel, agents and schedulers
- `yield_task` of the bitmap scheduler does not put the task back in its queue
  (`bitmap_scheduler/scheduler.rs:184` says it does) and overwrites a concurrent
  `set_current`.
- Without `AGENT_POOL`'s lock two spawns can take one slot; with the registry's
  inner locks only, two services can take one name. `set_state` of a control
  block is a load and a store: two callers can make a transition that is refused
  to one; `to_info` and `clone` are no snapshot; counting threads out below 0
  wraps, and `check_quota` then refuses.
- A broadcast hands a message twice to an agent with two matching subscriptions;
  `unsubscribe` removes the first subscription whose pattern matches the topic.
- A send that loaded `is_open` before a close still enters the buffer;
  `total_size` of the shared memory is never lowered by deallocate.
- `max_restart` of the service registry is not looked at, and `update_state`
  accepts any state.

Kernel, memory and files
- A heap allocation that does not fit has moved the pointer all the same; a
  slab's `free` takes any address inside the slab.
- A `map_area` that fails midway leaves pages that belong to no area; tables are
  never freed; `find_free_area` can answer below its start, and `start + size`
  wraps; `update_flags` with no flags on address 0 unmaps.
- Two threads on one descriptor lose a move, or move a descriptor that was
  closed and opened again (`fs/fd_table.rs:252`); two appends can load one end
  of file. `SYS_CLOSE` closes nothing, so descriptors run out; `dup2` does
  nothing; `writev` claims the lengths it was given; a racing first `brk` leaves
  an inconsistent range. `filename("//")` is empty and `normalize("../a")` is `a`.

Kernel, services and the rest
- `delete`, `clear` and `restore` of the configuration notify nobody, global
  callbacks are never called, and a callback that calls `set_config` waits for
  itself; a log with `max_log` 0 panics.
- Delegation does not look whether the source token has the capabilities it
  hands on, revocation leaves tokens delegated further valid, and expiry is never
  looked at. A second grant for a resource is dropped and reported as given;
  `check_access` ignores the resource's id, and one common bit is enough for
  `contains`.
- Kernel sockets: `close` and `create` wait for a socket's lock with the table
  locked, so a caller that keeps its guard waits for itself; `state` of an entry
  is never updated, `shutdown` leaves Connected, a UDP `send_to` stores in its
  own buffer. Soft bus connections and messages look at no device table;
  `update_last_seen` counts from 10000 whatever time a device is registered with
  (`softbus/discovery.rs:91,171`), so that it can set a later time back or give a
  device the time another was registered with.
- The resolver of packages misses a conflict of versions when the required
  package was visited before; `clear` forgets the log but keeps the next id.
- The shell splits a pipeline at a bar inside quotes, does not hand output on,
  expands aliases only for the first word of the line, drops empty quoted
  arguments and takes a quoted `<` as a redirection.

User space
- `omniagent-automation`: scheduled triggers fire at every check, event filters
  and watched paths are ignored; `pause`, `resume` and `cancel` always fail;
  after a task was added again a topological order lowers degrees too often.
- `omniagent-distributed`: `CrdtSet` never takes an element again that was
  removed once; a register ignores a write with stamp 0 unless the node's id is
  larger; `update_heartbeat` stores 0 and late heartbeats set the time back;
  heartbeats never end Offline.
- `omniagent-fs`: `EXCLUSIVE` is never looked at, `TRUNCATE` leaves other
  offsets, an open directory may be removed, agents cannot remove files.
- `omniagent-virt`: I/O exits put the write bit inside the port, writes carry no
  value, sums wrap in release so that a huge request passes the quota.
- `omniagent-memory`: `available` wraps when alignment passes the next block;
  `release_tensor` never frees the block, `compact` makes addresses unknown,
  `concat` ignores the axis, ranges without zero saturate, tensors quantised to
  F16 keep bits where values are expected, small halves flush to zero and NaN
  becomes infinity.
- `omniagent-inference`: no preference or level is binding. Each of these requests
  goes to the other side when its own has nothing: `LocalOnly` ("仅使用本地模型",
  only local models, `types.rs:54`; "LocalOnly 不会回退到云端", does not fall back
  to the cloud, `engine.rs:397`, in a test that fails to find an engine only because
  none of the placeholder's provider is registered), `CloudOnly` ("仅使用云端 API",
  only the cloud, `types.rs:56`) and `PrivacyFirst`. `Internal` ("仅限内网", intranet
  only, `types.rs:79`) and `Sensitive` ("优先本地处理", local first, `types.rs:81`)
  are never looked at: such requests go to the cloud as public ones do. `RouteOK`
  states what `router.rs` does, not what these comments say; for `Confidential` the
  difference is finding 6. With no model and no provider every request, whatever
  its level, is for the placeholder, an OpenAI model. The global preference is
  never used, the engine that is
  found may lack the task. `omniagent-security`: the doc says `*` stops at
  separators, a test that it does not; a log of 0 entries panics; token ids of
  an agent are equal; conditions of rules are never evaluated.
- `omniagent-learning`: a query by subject also returns triples where the entity
  is the object, so a path need not start where it was asked for; access counts
  never increase. `omniagent-multimodal`: ids of messages repeat after the limit
  or a clear, a lowered limit drops one message per addition, inference ignores
  the active model.
- `omniagent-shell`, `-desktop`, `-compositor`: a window that is restored does
  not get its bounds back, a minimised one keeps the focus, `always_on_top` is
  ignored; a mouse move stops at the first button whose hover changed, so one
  left in the same move stays hovered; the order of the bridge's list may differ
  from that of the ids; the router's focus may name a removed window; a theme
  changed does not update the current one; the renderer's time never advances;
  an animation's elapsed time is cut to 32 bits.

## Not modelled

Per component, with the reason, in `PROJECT.json`. Whole components: in-memory
inodes beyond size and end of file (their contents, time stamps and directories
are reached by nothing that is modelled), the set-up of boot, interrupts and time
(hardware), the type crates `omniagent-ipc`, `-syscall` and `-driver`, and the
integration tests. In the modelled components: reads that change nothing, time
stamps, names, payloads and other fields that are copied and never decided on,
statistics nothing reads, parsing and formatting of addresses and versions,
wording. Further: the client caches of `libagent`, sinks that only print, formats
of packet headers, searches by similarity, answers of models (stubs in the code),
what the hash computes of a block, elastic and spring curves, the arithmetic of
32-bit floats beyond what fractions show. The real deadlock of a socket guard
(`net/socket_table.rs:149`) and of a callback that sets a value are described
above and not run: no caller in the code does either. A handler of an exception
that interrupts a log line waits for the lock of the serial line its own CPU
holds (`drivers/serial.rs`); the steps are in `Devices`, and that the transcript
stays in whole lines is what is checked.

## Plan

The order in which the models were made: the kernel's schedulers, agents, memory
and managers; system calls; the remaining tables of the kernel; the user-space
crates, automation and distributed state first. What is left, in this order:

1. Proofs, each from an inductive invariant that a run checks first: the
   handles of the agents' library, the ring buffer of the log.
2. Configuration of interfaces and sockets without a manager in `omniagent-net`,
   configurations of models in `omniagent-multimodal`.
3. The abstract file that `FdTable` and `UserFiles` both implement.
