# Verification of kptrOS

kptrOS is a UEFI/Limine x86-64 hobby kernel. It boots on one CPU, brings up a
GDT, an IDT, a physical page allocator, uACPI's early table access and the HPET,
and then idles. The repository carries the whole of uACPI; the kernel compiles
it with `UACPI_BAREBONES_MODE` and `UACPI_KERNEL_INITIALIZATION`
(`include/uacpi/platform/config.h:125`, `:53`), which leaves the table subsystem
and little else. The part compiled out is the concurrent one, and is modelled as
the full build runs it. `src/src/...` in `PROJECT.json` is `src/...` of the
repository; a file named without a directory below is one of `src/kern/acpi/`.

## Inventory

| component | state | operations | interacts with | hard behaviour |
|---|---|---|---|---|
| page allocator (`mem/pmm.c`) | `bitmap`, `page_addrs`, `total_pages` | `bitmap_init`, `alloc_page`, `free_page` | ACPI host layer takes and returns pages | rounding, capacity, frees of addresses that are no page |
| ACPI tables (`tables.c`) | table array and its storage, reference counts, flags, installation handler, FADT copy, `table_mutex` | early setup, initialise, reset, install, find, find next, ref, unref, load, mark | host maps and unmaps; interpreter executes loaded tables | failure of any host call, shared references, saturation, buffer hand-over, two builds |
| ACPI host layer (`acpi.c` of the kernel) | none of its own | `uacpi_kernel_map/unmap`, `acpi_init` | page allocator below, uACPI above | a mapping is a page, a freed buffer is still in use |
| HPET driver (`hpet.c`) | `hpet_base`, `hpet_period` | `timer_init` | tables, host layer | table absent, memory exhausted |
| kernel entry (`main.c`) | progress of `kinit` | the initialisers in order | all | an initialiser fails and the next one runs all the same |
| interrupt entry (`cpu/stub.asm`, `cpu/idt.c`) | registers, stack | stubs, `common_stub`, `interrupt_handler` | every running piece of code | nesting at any instruction, error code or none |
| initialisation levels (`uacpi.c`) | `g_uacpi_rt_ctx` | initialise, load, initialise the namespace, reset, change mode | creates and destroys the state of all of uACPI; firmware through `SMI_CMD` | failure of any step, restart, a firmware that answers late |
| locks (`mutex.c`) | rw-lock, recursive lock, AML mutexes, the global lock word | lock and unlock, acquire and release | namespace, events, operation regions, AML; firmware | interleaving at every load, host failures, a word shared with firmware |
| namespace (`namespace.c`), shareable objects | the tree of nodes, reference counts | install, uninstall, find, resolve, walk, iterate, print a path, acquire and release objects, wipe | AML creates nodes, everybody reads | bare pointers kept while the lock is free, temporary nodes, nodes referred to after a reset |
| operation regions (`opregion.c`) | handlers per device, regions per handler | install and uninstall a handler, attach and detach, `_REG`, I/O | host's handlers, AML's `_REG`, both locks | two locks in one order, lists edited while others wait, paired callbacks |
| interpreter (`interpreter.c`, `opcodes.c`, `opcodes.h`) | stack of call frames, code blocks, pending ops and their items; held mutexes | decode and run an op, call, return, abort, wait, sleep | namespace, AML mutexes, tables | hand-written byte programs, nesting, aborts in the middle, the lock dropped in the middle |
| notify (`notify.c`) | handler lists per object, scheduled work | install, uninstall, Notify, the deferred work | AML, the host's work queue, namespace | lists walked without the mutex, devices removed meanwhile |
| interfaces (`osi.c`) | list of `_OSI` strings, disabled bits, handler | start, stop, install, uninstall, bulk enable, query | AML's `_OSI` | static records survive a restart |
| events (`event.c`) | GPEs, fixed events | interrupt handlers, enable, disable, install | registers, notify, AML | interrupts against API calls and deferred work |
| registers and sleep (`registers.c`, `sleep.c`) | mappings, the bits of PM1, the sleep types | read and write fields, prepare, enter, wake | hardware, `_Sx`, `_PTS`, `_WAK` | a sequence of calls with state in between, failure of each |
| memory primitives (`mem/mem*.c`) | memory | `memcpy`, `memmove`, `memset`, `memcmp` | tables and pages are copied with them | overlap, zero length, signedness |
| `io.c`, `resources.c`, `types.c`, `utilities.c`, `stdlib.c` | | field access, resource conversion, objects | interpreter | arithmetic on data |
| GDT, page tables, serial console, CPUID | | | | data for the CPU or for a log |

What makes each component correct is stated by its properties, below. The
hazards they aim at are listed, at their lines, in `PROJECT.json`.

## Modules

* `PageAllocator` - what an allocator of pages promises: pages go out and come
  back, one at a time, and a page that is out does not go out again.
* `Pmm` - `pmm.c`. `page_addrs` and `total_pages` are the code's; `bitmap` is the
  set of `<<byte, bit>>` pairs that are set. `BitmapInit`, `ScanUsable`,
  `EndUsable`, `ScanReserved` and `LoadPages` are `bitmap_init`, one step per
  memory map entry; `AllocPage`/`AllocNone` are the two ends of `alloc_page`,
  `FreePage` is `free_page(tmp)`, `FreeSlot` is `free_page(&tmp)` as `acpi.c`
  has it. `tmp`, `lost`, `dirty` and `refused` record what callers hold, dropped,
  wrote and were refused. `INSTANCE PageAllocator` maps the free pages.
* `UacpiTables` - `tables.c`, for both builds. A critical section of
  `table_mutex` is one step. Inside it a record `s` goes through the functions of
  the file, each an operator of the same name that returns the new record with
  the status in `s.ret`; `s.plan` says which of the host calls
  (`uacpi_kernel_map`, `uacpi_kernel_alloc`, `uacpi_kernel_create_mutex`) fail.
  `uacpi_table_find_next_with_same_signature` and `uacpi_table_load` enter the
  mutex twice and are two actions each. A table's contents are reduced to its
  signature, whether its checksum and length are right, its revision and, for a
  FADT, the DSDT and FACS it names. `Builds` names compile-time variants together
  with the firmware and the faults each is to meet; `Init` chooses one.
* `IsrEntry` - `stub.asm` and the dispatch of `idt.c`: the stack word by word,
  an exception possible between any two steps.
* `KernelBoot` - `kinit`, composed with `UacpiTables` and `IsrEntry`: uACPI's
  host calls are those of `acpi.c`, each a page of the allocator. Exceptions, nested
  ones too, interrupt the endless loop `kmain` ends in, not `kinit` itself, whose
  steps are modelled whole. The allocator appears as the set of pages taken, lowest
  first, which is what `Pmm` implements.
* `RwLock` - the namespace's reader-writer lock. Every acquire of `read_mutex` or
  `write_mutex` and every access to `num_readers` is a step of its own; the host
  may fail an acquire. `leaked` counts readers whose unlock failed.
* `Namespace` - `namespace.c` on top of `RwLock`, with the interpreter's creation
  and removal of nodes (`call_frame_clear`, `do_install_node_item`). `ns` gives
  each node the links and counts of the C structure; `call` and `it` are a thread's
  call and the local variables of its loop (`node`, `depth`, `walking_up`,
  `decision`), `frames` and `pending` what AML has made. `Wipe` is one turn of the
  loop of `uacpi_deinitialize_namespace`. A walk is four actions, so that the
  callback runs without the lock.
* `RecursiveLock` - the recursive lock. The unlocked load of `owner`, the native
  acquire and the stores are separate steps; `held` counts what each thread has
  still to release.
* `OpRegion` - `opregion.c` on top of `RecursiveLock` and the namespace write
  lock. `th` is a stack of frames per thread, one for each function that is being
  executed; a frame stops wherever the code drops a lock or calls the host or AML.
  `told` and `served` record what `_REG` and the handlers were told.
* `GlobalLock` - the global lock word with its load and its compare-and-swap
  apart, the firmware on the other side (external, following the same protocol),
  the release interrupt, the wait under `global_lock_spinlock`, the public API
  with its sequence number, and AML taking `\_GL` through its mutex while it lets
  go of the namespace lock.
* `Notify` - `notify.c`. Handler records are linked cells, `work` is a
  notification on its way through both lists, a step per handler. The host's
  queue and the removal of a device are the environment.
* `OsiAnswers` - what `osi.h` promises: a set of supported names, a maximum, and
  the `answer` to the last query.
* `Osi` - `osi.c`, a step per operation under `interface_mutex`, shown to
  implement `OsiAnswers`.
* `Lifecycle` - `uacpi.c`, `registers.c`, `sleep.c` and the fixed events of
  `event.c`, around `Osi`. `call` is the API function the host is in and how far it
  has come, a step for each thing that may fail; `sci` is the interrupt handler,
  which may run between any two of them and goes on from the fixed events to the GPEs,
  of which it is the locks that matter here. `held` is what exists of locks and host
  objects, `pm1` the hardware. `past` excuses, by name, the states a reset cannot
  restore. A situation fixes the firmware and what the host uses of it.
* `Gpe` - the general purpose events of `event.c`, one register of them. `block`
  holds the status and enable bits of the hardware, the four masks and the
  events; `run` says where in `dispatch_gpe` or `restore_gpe` the interrupt
  handler, each work item and the API caller are; `api` is the call in progress
  under `g_event_lock`, a step each but for the masking, which waits for
  interrupts and work in flight. `kept` and `awake` record which events a handler
  or a caller keeps disabled and whether the runtime events are the enabled ones.
  Handlers and the work queue are the host's.
* `Opcodes` - the parse programs of `opcodes.h` and `opcodes.c`, an instruction a
  tuple, laid out byte by byte (`Decode`) as `op_context.pc` counts them.
* `ParseVm` - `exec_op` running any one of these programs on any operands and any
  outcome of what it calls: one action for each parse op. A handler appears as
  the items it reads (`Reads`, `PackageItems`, `FieldItems`).
* `Interpreter` - `uacpi_execute_control_method` with several threads: call
  frames, code blocks, pending ops, temporary nodes, held mutexes, the clock. The
  same programs drive it, one parse op a step; `get_op`, `maybe_end_block`,
  `ctx_reload_post_ret`, `stack_unwind`, `prepare_method_call`, `begin_block_execution`,
  `handle_control_flow` and the others keep their names. A method is a sequence of
  tokens of one byte, so that package lengths and offsets are the code's.
* `PmmProofs`, `GlobalLockProofs`, `NotifyProofs`, `GpeProofs` - the theorems about
  the module of that name. `TablesProofs` is about `UacpiTables` and `KernelBoot`;
  `NamespaceProofs` about `RwLock` and about `Namespace`, which uses it;
  `OpRegionProofs` about `RecursiveLock` and `OpRegion`; `LifecycleProofs` about
  `Osi` and `Lifecycle`.

`MC*.tla` give the constants their small values. `MCAml` also assembles AML from
structured programs and evaluates these by their structure (`Meaning`), which is
the reference `ControlFlow` compares with.

### Environment

Limine's memory map (usable regions overlap nothing and leave the first page
alone, the boot stack is not in usable memory) is `MemMapOK`, an assumption of
`Pmm`. The CPU's exception frame is an external part of `IsrEntry`. A firmware
whose FADT names a FADT as its DSDT is excluded (`DsdtAssumption`): the code
would recurse without bound. Locks are created and destroyed only when no thread
is inside a call, as the start and the reset of the subsystem have it, and a
thread releases only what it acquired. In `Namespace`, nobody calls during a
reset, and AML does not open a scope on a temporary node of another invocation
(`Safe`): the code would keep a bare pointer to it while it waits. In `OpRegion`
handlers do not call the API back, and the opregion lock can be had when a node
is removed (`opregion.c:369` returns otherwise, with the region freed and still
linked). In `Lifecycle` one thread of the host calls at a time.

## Runs

Properties that belong together are conjuncts of one definition, so that a run
states a few things worth saying; the parts keep their names in the modules.

| run | instance | shows |
|---|---|---|
| `pmm` | five memory maps: misaligned, empty, sub-page and adjacent regions, none usable, and more pages than `page_addrs` holds; three callers | pages lie in usable memory, once each, none forgotten (`PagesSound`, `ScanComplete`); one owner each, and the bitmap agrees with the callers (`PagesOwned`); no stale bytes (`NoStaleData`); the abstract allocator is implemented, of which a refusal is a stutter (that it means exhaustion is the theorem `RefusalSound`) |
| `tables` | four builds. `bare`: kptrOS's own, an array of 2 + 1 slots, three clients, a count saturating at 2, failing mappings. `full`: two clients who load what they hold, a bad checksum that is fatal or not. `boot`: six firmwares, a handler that denies and overrides, any one host call, or all of them from one of three points on, failing, checks fatal or not, resets and retries. `kernel`: `kinit` on 0 to 16 pages, five firmwares, exceptions nested twice in the idle loop | mappings are exactly those of referenced tables, handles and the FACS pointer stay live (`MappedIffReferenced`); counts are exact unless saturated, and the mutex is not left held (`RefsExact`); the table array's page is not reused, the temporary buffer is given up whole and every mapping has a page (`MemoryKept`); no bad table is referenced when that is fatal, none runs twice; what is interrupted gets its registers, stack and instruction back |
| `isr_vector` | NMI, page fault, alignment check and IRQ | **violation**: `regs->int_no` is the error code |
| `namespace` | three nodes and the root, one of them predefined; seven situations: AML against a walk, against an iteration, against lookups and an owner of an object, two threads of AML, one thread of AML with a fourth node, AML and a reset that are started again, and three threads that only read and write; one failing acquire | bare pointers lead into the tree (`PointersLive`); a walk that ends has visited what was there, once, whatever came and went (`IterationsComplete`); the lists are one tree with exact counts, a path leads to its node and a search ends at the nearest scope (`LookupsSound`); the wipe ends, and leaves nothing (`WipeEnds`); a method takes its nodes with it, and one stays exactly if a node of somebody else is somewhere below it (`FrameLeavesNothing`); a writer is alone (`MutualExclusion`) and somebody always gets the lock (`SomebodyGetsIn`) |
| `opregion` | a host thread and an AML thread, the root and a device below it, a permanent and a temporary PCC region, three calls, or two and a failing acquire | lists, handler pointers and counts agree (`HandlersExact`); ATTACH and DETACH, and the `_REG` calls, come in pairs (`CallsPaired`); the opregion lock is taken first and nobody waits for himself (`LockOrder`); one holder (`Exclusive`) |
| `global_lock` | two threads and the firmware, three attempts before a hardware timeout | both sides exclude each other; no wait is forgotten, no signal is left over and a waiting firmware is told (`SignalExact`); the wait for the firmware ends (`FirmwareAnswers`) |
| `global_seq` | the same | **violation**: the sequence number an acquire returns is not the one its release accepts |
| `notify` | two threads, a device and the root, two handlers of which one evaluates AML, two notifications, one host failure | running work never meets a freed handler or device and lists stay whole (`HandlersSound`), each notification calls exactly the handlers present when it was accepted, and is heard |
| `lifecycle` | ten situations: full and reduced hardware, found in legacy mode or not, with and without a mode switch, FACS and lock bit, sleep packages good, bad (that of S0 too) and out of range; used for `_OSI`, modes, fixed events or sleep; up to two failures, two hardware events, two starts | a reset gives everything back, whichever step failed (`ResetRestores`); neither a call nor the SCI finds a lock missing (`LocksExist`); the machine sleeps when and as it was told, with only wake GPEs on (`SleepsAsTold`); the interface list implements the promise of `osi.h` over any operations and restarts (`ImplementsPromise`) |
| `sleep_type` | a machine whose `\_S3` holds one element that is no integer | **violation**: prepare succeeds, and enter uses the types prepared before |
| `gpe` | two events, one with an AML method (level or edge) from boot on, one that gets one from a later table; raw and native handlers; three calls, one event fired, one failure | user counts and masks agree through every rolled-back failure (`BlockSound`); masking shuts out interrupts and work that had passed the mask already, and an event in use is enabled when all is quiet (`EnabledAsAsked`); events in use that fire finitely often interrupt finitely often (`StormEnds`) |
| `aml` | every program of `opcodes.h`, up to nine items; 506 structured methods, loops in branches and branches in loops, each cut off by a time-out, a Break, a Continue or a Return; 384 pairs of racing methods over two mutexes, a serialized method and a table that is loaded | programs stay on instructions and read items of the right kind (`ProgramsSound`); a structured method does what it says (`ControlFlow`); owned mutexes and list agree, and nothing stays (`NothingLeftBehind`); serialized methods exclude (`SerializedExclusive`); evaluations end (`EvaluationsEnd`) |

### Where the code and the words about it differ

The three violations are `findings` of `PROJECT.json`. Other disagreements met on
the way are part of the models, which follow the code:

Kernel and tables

* A table referenced in early access is marked as checksum-verified when no
  flags are in force, and is not looked at again after `uacpi_initialize` with
  `UACPI_FLAG_BAD_CSUM_FATAL` (`tables.c:470`). `BadCsumFatal` carries that
  reservation.
* `uacpi_table_install_physical` returns OK whatever `verify_and_install` said
  (`tables.c:677`).
* `uacpi_kernel_unmap` frees the address of its argument, which is no page, so
  that no mapping returns its page (`src/kern/acpi.c:16`); the same slip in
  `acpi_init` (`:74`) is what keeps the table array's page from being reused.
* `timer_init` ignores the result of its table search (`hpet.c:46`) and goes on
  with what its local variable held.

Locks, notify, interfaces, events

* Installing a notify handler without memory returns with `notify_mutex` held
  (`notify.c:161`): `Leaked` in `NotifyHeard`.
* AML in `Notify` waits for `notify_mutex`, an install holding it for scheduled
  work, and the work's handler, if it evaluates AML, for the namespace lock:
  `AmlBehindHandler` in `NotifyHeard`.
* A query of an `_OSI` string that is not registered does not reach the
  installed handler (`osi.c:353`).
* `event.h:231`, of a masked GPE: "The only way to enable a masked event is by a
  call to unmask". `uacpi_enable_all_wake_gpes` writes `wake_mask` whatever is
  masked (`event.c:681`), hence `awake` in `MaskHolds`; and a handler installed for an
  event its user has masked unmasks it (`event.c:1392`).
* `event.c:1241`, of `gpe_mask_safe`: "makes sure we can't get an IRQ in the
  middle of modifying this event's structures". It neither masks nor waits when
  the event is not in `current_mask`, though work scheduled before may still be
  running; `SwapAlone` speaks of the calls that did mask.
* `gpe_enable_disable_for_wake` clears the other events' bits rather than its own
  (`event.c:1774`).
* An event unmasked while its handler is about to restore it may stay disabled:
  the restore has seen the mask, the unmasking sees `block_interrupts`.
  `Unmasked` puts it among the `kept`.
* `gpe_block_apply_action` leaves masked events out of `current_mask`
  (`event.c:678`), the only place from where an unmask or a restore learns that an
  event is to be enabled (`event.c:331`). An event in use that is masked while
  `uacpi_enable_all_runtime_gpes` runs, after a sleep for instance, stays off when it
  is unmasked. The `kept` of that action names it. The
  shortest such behaviour takes more calls than the bound of the run `gpe`; it is
  the induction that asks for `CurrentUsed`.
* A restore that is past its test when the last user leaves enables an event
  nobody uses, and `detect_gpes` skips a register without users (`event.c:549`), so
  that its interrupt is never answered: `StormEnds` is about events in use.
* The loops over fixed events stop short of `UACPI_FIXED_EVENT_MAX`, which is the
  RTC (`event.c:2087` and the others): it is neither disabled at the start, nor
  dispatched, nor uninstalled by a reset. `ResetRestores` leaves it out.

Initialisation, registers, sleep

* `uacpi_write_register_field` compares the kind of the register, not the kind of
  its access, with "write to clear" (`registers.c:534`): clearing one status bit
  of PM1 writes all the pending ones back, and other fixed events are lost.
* A fixed event whose disabling fails during a reset keeps its handler; the next
  start meets it before its locks exist (`past.stuck`).
* PM1 control that cannot be read counts as legacy mode (`uacpi.c:191`); a
  firmware that answers after the five seconds leaves ACPI mode on when nobody
  will undo it (`past.mode`).
* The types of S0 are not compared with `ACPI_SLP_TYP_MAX` as the others are; 8 and
  above reach the neighbouring `SLP_EN` bit, so that preparing to wake sends the machine
  to sleep, and `SleepsAsTold` fails for a machine with such a package. No situation of
  the run has one, and `WellFormed` excludes it from the theorem: with full hardware the
  model lets the machine sleep or not, as the type's bit decides, and leaves any
  type in the field; with reduced hardware `SLP_EN` is written with every type of S0,
  and one that fits is taken to keep the machine awake. The wait for the wake status after S1
  to S3 has no bound (`sleep.c:116`). An enter that fails leaves the runtime GPEs
  off, a prepare whose `_PTS` fails leaves its types in force.
* A mapped register is unmapped by its access width, and was mapped by its total
  width (`uacpi_unmap_gas_nofree`, `io.c:826`).

Namespace, operation regions

* Predefined nodes that somebody refers to over a reset stay dangling; the next
  start ignores that their installation is refused, and their new object is never
  freed. `WipeEnds` names them.
* A search that starts at a NULL parent and may go up dereferences NULL
  (`namespace.c:545`); the callers modelled never pass one. AML that wakes up goes
  on whether it got the lock or not (`interpreter.c:3053`), as does
  `upgrade_to_opregion_lock` (`opregion.c:364`).
* A temporary node stays when its method ends if a node that is none of the method's
  is below it, however deep: the child is refused, and so is the parent
  (`FrameLeavesNothing` says exactly when).
* A handler removed from the middle of its list goes without `_REG` disconnect
  (`opregion.c:706`); the regions of a removed handler are not given to the one of
  an outer device; an install passes over temporary regions (`opregion.h:14`);
  `_REG` reaches regions below a device with a handler of its own.
* `_REG` runs under the opregion lock and may acquire an AML mutex, whose owner
  may need the opregion lock.

Interpreter

* A serialized method that calls itself gives its mutex up when the inner call
  returns (`SerializedExclusive` excepts it); a method that returns with a mutex
  acquired gets the sync level from before.
* A call with a wrong number of native arguments keeps the serialization mutex and
  the sync level to the end of the evaluation.
* `interpreter.c:5763`: "Having a frame here implies that we just aborted a dynamic
  table load". It is also so when a method called by table-level code aborts:
  the table goes on, and the result is changed to 0.
* Creating a name that is taken, in a method, sets a flag of a NULL node
  (`interpreter.c:5340`), where `opcodes.h:81` has it fail. The model stops that
  thread (`fault`), and `EvaluationsEnd` leaves it out.
* Whether a name is free is tested when its node is created, not when it is
  installed, so that `Name` whose value calls a method may install a duplicate.

### Bounds

Every bound is a constant.

* `Builds`: clients stop installing at `maxTables` tables, `maxUsers` of them are
  active. An array of 2 + 1 slots is full after two firmware tables and one
  installation; a count that saturates at 2 is saturated by two of three clients
  and released by all; the failure plans reach beyond the last host call of the
  largest boot.
* `MAX_PAGES` at 10: the bitmap spills into its second byte, `page_addrs` is
  overfull.
* `MaxDepth` in `IsrEntry`: a third level of exceptions would meet only contexts
  the second has met.
* `Nodes` in `Namespace`: three nodes are a parent, a child and a peer, or a chain,
  in any order of creation; with the predefined one among them. One
  situation (`FourNodes`) has a fourth: a temporary node in a temporary node with a
  node in it that stays takes three to create. `MaxSleeps` at 1: AML gives the lock up
  once in each behaviour, and between any two frames besides.
  `MaxFaults` at 1: a mutex fails on the way in or on the way out.
* `MaxCalls` in `OpRegion`: an install, a removal and another install, or `_REG` by
  the host between them; a failing acquire counts as one of them. `Ids`: two
  handlers are on one device's list, or shadow each other on two devices, and a
  third install finds no memory. `MaxHeld` at 3: an acquire inside a callback's
  inside a call's.
* `MaxSpins` in `GlobalLock`: three attempts allow a lost race, a wait and
  exhaustion. `MaxSeq`: the sequence number wraps. `MaxDepth`: AML reaches the
  deepest recursion and is refused beyond it.
* `MaxCalls` in `Notify`: four calls are two installs, a notification and a
  removal, or any other four; two handler records are the head and the end of
  one list or the heads of both.
* `Lifecycle`: two starts, so that everything meets what an earlier run left;
  `FixedMax` at 2 is the global lock, one event the loops reach and the last, which
  they do not; `SleepStates` are S0, one with a wake wait and S5.
* `Gpe`: three calls are the enabling of an event, its masking and a change, or
  any other three. An event fires once; that a second firing meets the first's work
  is thus outside the run; the theorems of `GpeProofs` hold for any number. One work slot: a second event waits for it as for any host
  without room. `MaxUsers` at 2 stands for 0xFF.
* `Interpreter`: `Ones` at 3, integers of two bits; `loop_timeout` at 2 readings
  of the clock, so that a loop of two rounds ends and an endless one is cut off;
  `max_call_stack_depth` at 3, reached by recursion. All sync levels differ: two
  mutexes of one level, which the code lets two threads take in opposite order, with a
  wait of 0xFFFF would deadlock them, and are outside the bounds. `MaxItems` in `ParseVm`: the
  smallest Package and Field with two elements fit.

### Symmetry, fairness, deadlock

Clients are interchangeable in `UacpiTables`; symmetry is used there only, where
invariants and action properties are checked.

Fairness is that a scheduler runs every thread that can run, and no more: weak
fairness of each thread's steps inside a function, never of its
calls. `Namespace`: threads inside a lock function or a plain section go on
(`LockStep`, `SectionEnds`); no thread is promised the lock, `SomebodyGetsIn`
speaks of some thread. `GlobalLock`: besides, a raised interrupt is delivered once
the spinlock is free, and the firmware lets go of what it holds; the swap loop may
be raced for ever, so only the wait is claimed to end. `Notify`: the host runs
scheduled work, and calls are finitely many. `Gpe`: the interrupt line is served
while it is raised, and a handler, scheduled work and a call under way go on.
`MCAml`: some thread that can run runs; since every behaviour is finite, this is
enough for `EvaluationsEnd`. The other components are not obliged to make
progress.

Deadlock is checked except in `namespace` and `notify`, where a failed unlock, an
install without memory and AML that waits for a handler stop the system, in
`gpe`, where nothing happens without events and calls, and in `lifecycle`, which
ends asleep for good or out of starts.

## Proofs

Each theorem holds for every value of the constants its module's assumptions
allow; the runs show the same on small instances. Each inductive invariant was a
run's invariant before it was proved.

**`PmmProofs`**, for every capacity, every set of callers and every memory map
that satisfies `MemMapOK`: `TypeCorrect`, `PagesInRam`, `Ownership`, `NeverStale`,
`RefusalSound`, `Refinement` and `Complete`. None of the properties is inductive.
`IInv` adds what the scan knows half way (each recorded page comes from an entry
already scanned, is inside that entry, and two indices hold different pages since
usable regions are disjoint), that no page is `NULL` or the stack address (so that
`free_page(&tmp)` finds nothing), that set bits belong to recorded pages and
correspond one to one to the pages held and lost, and that these two are disjoint.
The lemmas are the arithmetic of rounding and of `Bit` (two indices, two bits),
and what `free_page` does to a page and to an address that is none. `Complete` has
an invariant of its own: the pages below the scan's place are recorded unless the
table is full. `Refinement` maps every step to an allocation, a release, the start
or a stutter of `PageAllocator`.

**`NamespaceProofs`**, first about the rw-lock, for any finite set of threads and any
number of failed acquires: `Invariance`, `Exclusion`, `Counting`, `NoReaderCycle`,
`FreeWhenQuiet`. Exclusion alone is not inductive: that a writer is alone
depends on the write mutex, that the write mutex is held for the readers depends
on the counter, and the counter on who is between its two mutexes. `IInv` says all
of it: the counter is the number of counted threads and of leaked readers
(`CountExact`), a reader that waits for the write mutex is the only one counted
(`NoCircularWait`), whoever is inside a function holds the read mutex
(`HolderInside`), and the write mutex is held exactly for a writer or for readers
(`WriterHolds`, `ReadersHold`, `HeldForSomebody`). The counting steps rest on the
cardinality theorems for finite sets. `NoCircularWait` is also why setting the
counter to 0 after a failure (`mutex.c:339`) forgets nobody.

Then about the namespace, for every tree, path, set of threads and bound:
`NsInvariance` and `NamespaceExclusion`. The namespace's steps are not steps of
`RwLock`: a call may take the lock at once, fail and go on without it, or be wiped
by a reset. `LockSteps` lists what they do to the lock's state, and `CallsFit`
which calls are in the section when: who reads or writes has a call in progress
that will leave by the same lock, and a reset has the namespace to itself. `IInv /\
CallsFit` is inductive.

**`OpRegionProofs`**, first about the recursive lock, for any set of threads:
`Invariance`, `Exclusion`, `DepthCounts`, `Reentrant`, `Freed`. `IInv` ties depth to the owner's acquires
(`DepthExact`), the mutex to who is where (`MutexExact`) and the owner to the
mutex (`OwnerKnown`): a thread that reads its own name can only have stored it
itself, which is why the read needs no lock.
Then about the operation regions, for every set of threads, regions and handlers:
`ImplementsLock`, `RegionsExclusive`, `LocksInOrder`. Every step is a step of the
recursive lock or leaves it alone (`StepIsLockStep`), so that `OpSpec` implements
the lock's `Spec` and its theorems carry over. `LocksInOrder` adds `Upgrading`: who
is acquiring the opregion lock has dropped the namespace before.

Then what the code does under the lock: `RegionsInvariance`, `HandlersCounted` and
`CallsArePaired`. The subject of `OpInv` is a call that stopped half way - unlinked
and not yet unreferenced, ATTACHed and not yet recorded, marked and not yet told - with
the namespace unlocked around it. `CallsFit` says which calls may be above which on
the stack of a thread, and that where they are decides how often the thread has the
opregion lock and whether it has the namespace. So whoever is inside is alone
(`InLockAlone`): the stacks of the others are a call outside the lock or none (`Flat`),
which leaves no mark on a region or a handler (`FlatSilent`). What has to be kept is
then about one stack, `Core`: the handlers' lists and counts but for the region and the
handler this thread has in hand (`HandlerOk`), what each of its frames knows of
its region (`Known`), and what the handlers and firmware were told but for the call in
progress (`TellOk`). A step inside moves the frame on top, calls or returns (`InnerGoes`,
`InnerCalls`, `InnerReturns`); the lemmas `Core...` say what it does to `Core`, one for
each assignment of the code. The steps at the edge of the lock (`EdgeStep`, `OverStep`,
`BeginStep`) leave every mark as it is, and `NodesFit` carries what has to survive in
between: a region whose node is being made or ended belongs to that one call, it
has lost its handler before the node goes, and no iteration has it still to visit.
`DevicesAssumption` (a handler is offered for a device that is there),
`RegionsAssumption` (finitely many regions) and `IdsAssumption` (a handler's identity
is not the null pointer) are all that is asked of the constants; that the
opregion lock can be had when a node is removed, as under Environment, is the one
clause of `HeldFit` about `uninstall_node`.

**`TablesProofs`**, for every firmware, build, installation handler, set of flags and
of callers, every pattern of host calls that fail and every number of pages:
`TablesSound`, `TablesMapped`, `TablesCounted`, `TableMemoryKept`,
`TablesLoadedOnce`, `TablesChecked`. An API call is a record handed through up to a
dozen functions, any of which may have failed, so the first half says of each
function what its result is in terms of what it was given: a call ends with the
mappings it began with (`Grown`), or it has given one table a reference and, if that
was the first to a physical table, kept one mapping more (`Given`, split in
`FirstGiven` and `MoreGiven`). These are closed under the composition of the
functions, including the two loops of the code - over the entries of the RSDT/XSDT
(`initialize_from_rxsdt`) and over the table array (`uacpi_for_each_table`) - each of
which is a recursive function of the number of rounds; no round
can be the first to break the relation (`LeastExists`).
The second half is the invariant. `IInv` adds to the three properties that an invalid
table has no reference, that the entry of a table in host memory always has its
address (`EntriesSound`), who may hold, look for and load what in which phase
(`CallersFit`), and that what was executed is marked (`ExecutedMarked`). A step then
either gains a reference or loses one (`Gained`, `Lost`; `GainedLive`, `LostLive`,
`GainedCounts` and `LostCounts` say what becomes of mappings, uacpi_tables and
counts), so that each action's lemma only says which. `SystemInv` is this with the
reference of the HPET driver counted in and the kernel's pages: `AfterCallsGrow` says
that a call which mapped something took a page, which is what `MappingsBacked` needs of
`timer_init`. `TablesLoadedOnce` and `TablesChecked` are action properties from the
same invariant (`LoadStep`, `CsumStep`). Assumptions: `BuildsAssumption`,
`MemoryAssumption` (nothing lies at address 0), `ClientsAssumption`,
`DsdtAssumption` and `PagesAssumption`.

**`GlobalLockProofs`**, for any set of threads and number of attempts, with a FACS or
without: `Invariance`, `Sound`, `Signals`. That no wait is forgotten speaks of one
thread and one event, but an interrupt, a time-out, a loop of compare-and-swap and
the firmware all change what it depends on. `IInv` finds the one thread that
matters: the native mutex is held through a whole acquire, so that the announced
wait and the event belong to who has it (`WaitExact`), the owned bit is that of the
firmware or of that thread (`WordExact`, `FirmwareExact`), and a firmware that
waits is told by it (`TellExact`). `SpinlockExact` keeps the announcement, the
swap and the interrupt apart.

**`LifecycleProofs`**, for every set of machines, host usages, failures and restarts:
`ListImplements` and `LifeImplements` (the interface list, alone and driven by
starts and resets, implements `OsiAnswers`), `LInvariance`, `Locks`, `Restores` and
`AsTold`. `LInv` says for every step of the start, the load and the reset what
exists then: `HeldExact` names the objects after each of the steps, `HandlersFit`
how far the removal of handlers is, `ModeFits` who changed the mode, and `Down` and
`SciFits` what is left at level 0. So it is the unwinding after each failure that
is proved, not only the way there. Assumptions: a situation's machine is one
(`SituationsAssumption`), and for `AsTold` alone that no sleep package
holds a single element that is no integer and the type of S0 is no more than 7
(`WellFormed`): otherwise the machine goes to another state, as the run
`sleep_type` shows, or sleeps when it is to wake, as `S0Sleeps` has it. `WritesS0` is where the second half is used: a type of S0 that
fits, once written, does not put the machine to sleep. The excepted cases of `ResetRestores`
and `LocksExist` are the states named in `past`.

**`GpeProofs`**, for any finite set of events, any work items, handlers and bounds on
users, calls and failures: `Invariance`, `MasksSound`, `Masking`, `Asked`. The hard
case is a dispatch, a restore or a work item that tested `masked_mask` before the
bit was set and writes afterwards. `WriteWaited` says it is one the masking call
waits for, interrupts first and then the work found scheduled (`flush`),
`TargetOff` and `TargetLeft` that the event is off and only waited-for work is on
it from then on, and `MaskedOff` that after the call it stays so. The other
direction is an obligation: an event in use that is off is owed its enabling by
somebody on the way (`EnabledOrOwed`), which needs that blocked interrupts are
blocked by who works on the event (`BlockedBy`) and that an event in use is in
`current_mask` (`CurrentUsed`). `StepKeeps`, `ReturnKeeps` and `UserReturn` are the
three ways a step keeps the invariant - one of a runner, one that ends a call, one
that changes users - so that each action's lemma is about what the action does.
The loop of `detect_gpes` takes the lowest event first; that there is a lowest one
is `LeastExists`, from the well-foundedness of `<` on the naturals.

**`NotifyProofs`**, for any devices and callbacks, any finite sets of threads, handler
records and notifications and any bounds on calls and failures: `Invariance`,
`HandlersWhole` and `Delivered`. Two things carry it. The first is that the lists are
what one thinks they are: `Linked(next, s, h)` says that `s` is what is linked from `h`
on, and `ChainIs` that the model's walk along the pointers then finds `s` and nothing
else, whatever the number of handlers. With it, `LinkFront` and `TakeOut` are all there
is to installing and uninstalling, and `OtherList` says that lists which share no
handler (`ListsApart`) are not disturbed. The second is who keeps what alive:
`Referred` counts the namespace, the calls and the works that refer to a device
(`Referrers`), so that none of them finds it freed (`ReferredAlive`), and a freed
device takes only handlers with it that are in no other list (`FreeingKeeps`).
`Progress` is the induction over a delivery: what is called so far is the part of what
is due that precedes the handler the work stands on. A list changes only when no work
is on its way (`Quiescent`, from `uacpi_kernel_wait_for_work_completion` with the mutex
in hand), and that is the only place the proof needs it: without the wait, `Progress`
is the conjunct that breaks. `RoomLeft` and the finiteness of the sets are about the
model's bounds, not the code.

### Only model-checked

* Liveness, which the prover does not do: `SomebodyGetsIn`, `FirmwareAnswers`,
  `NotifyHeard`, `StormEnds`, `EvaluationsEnd`.
* `ControlFlow`, `NothingLeftBehind`, `SerializedExclusive` and `ProgramsSound`. The
  first compares with a recursive reference (`Meaning`), and all of them are about
  programs and methods TLC enumerates; the parser's position in a program has no
  invariant short of the programs themselves.
* `HandlerSeesVector` and `ContextRestored`: `IsrEntry`, whose interesting states are
  few, is left to TLC.
* `PointersLive`, `IterationsComplete`, `LookupsSound`, `WipeEnds`: each is about
  paths in a tree that grows and shrinks under a walk, and about which nodes were
  seen on them; acyclicity of the lists is an induction over data again.

## Not modelled

The memory primitives (four byte loops without state), page tables (never loaded into CR3), GDT descriptors, CPUID, the unused stubs of
`idt.asm` and `fault.asm`, the text of log output, the HPET's registers and the FADT's
register-block arithmetic. `table_ctl` is modelled for callers who hold a reference to the table they name,
as the interface demands: with an index made up by the caller its return without
releasing the mutex could be reached. AML mutexes
other than `\_GL` differ from it only in having no hardware word.

Of the interpreter, what instructions do to data: strings, buffers, packages,
fields, conversions, `Match`, `Concatenate` and the like appear as the items they
read and write. `Load` and `LoadTable` are there as the frames they make; `Notify`,
`Fatal` and events (`Signal`, `Wait`) only as programs. `uacpi_eval` and its
relatives are a lookup and an evaluation, each of which is modelled. Of `io.c`,
`resources.c`, `types.c`, `utilities.c`, `stdlib.c` and `default_handlers.c` only
reference counting: the rest is arithmetic on data without control flow that
outlives a call. `uacpi_reboot` and the waking vector are register writes. In
`OpRegion`, the payloads of PCC, GPIO and IPMI; handlers that call back into
the API, or that go away in their own ATTACH (the code then follows a NULL
pointer).

## Plan

1. Blocks of several GPE registers and the bound in `gpe_from_block`
   (`event.c:835`); failures while a block is created.
2. Pure algorithms: field splitting in `io.c`, conversions between resources and
   their AML form, number formatting of the console, FADT fix-ups.
3. Reference counts of composite objects (`types.c`), where a package may come to
   contain itself.
4. Proofs: `TreeSound` of `Namespace` for the links that do not need paths; `SerializedExclusive` of
   `Interpreter` from the owned mutexes alone.
